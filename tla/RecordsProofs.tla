--------------------------- MODULE RecordsProofs ---------------------------
(* What the records of mails, jobs and postings rest on, for every number  *)
(* of requests that run at the same time.                                  *)
EXTENDS MCRecords, TLAPS

(***************************************************************************)
(* The email inbox.                                                        *)
(***************************************************************************)
Handling == {"load", "effect", "remind", "mark"}
Request == [pc: PC, op: Op, acc: Account, copy: InboxAccount, top: Nat, todo: SUBSET Mail,
            doc: Nat, job: Job \union {NoJob}, seen: JobStatus, raced: BOOLEAN]
InboundMail == [mail: Mail, status: {"pending", "applied", "ignored"},
                job: Job \union {NoJob}, by: Process, auto: BOOLEAN]

(* The types of the inbox, and those of its history.                       *)
InboxSound ==
    /\ account \in [Account -> InboxAccount]
    /\ delivered \in [Account -> Nat]
    /\ inbound \in Seq(InboundMail)
    /\ job \in [Job -> JobStatus]
    /\ reminders \in [Mail -> 0..MaxReminders] /\ calls \in Nat
    /\ req \in [Process -> Request]
    /\ \A p \in Process: req[p].pc \in Handling => req[p].doc \in Doc
    /\ history \in [wish: [Account -> Setting], overlap: SUBSET Account, missed: SUBSET Mail,
                    broken: SUBSET Mail, setBy: [Job -> SUBSET Mail]]

LEMMA InboxConstants ==
    /\ MaxReminders \in Nat /\ MailAccount \in [Mail -> Account] /\ MailUid \in [Mail -> Nat \ {0}]
    /\ MailEvent \in [Mail -> EventType] /\ Names \in [Mail -> SUBSET Job]
BY InboxAssumption DEF InboxAssumption

LEMMA IdleType == ASSUME NEW a \in Account PROVE Idle(a) \in Request
BY DEF Idle, Request, PC, Op, InboxAccount, JobStatus

LEMMA InboxSoundInit == InboxInit => InboxSound
<1> SUFFICES ASSUME InboxInit PROVE InboxSound
  OBVIOUS
<1>1. req \in [Process -> Request]
  BY IdleType DEF InboxInit
<1>2. \A p \in Process: req[p].pc = "idle"
  BY DEF InboxInit, Idle
<1>3. account \in [Account -> InboxAccount]
  <2>1. \A on \in BOOLEAN: [live |-> TRUE, last_uid |-> 0, auto_apply |-> on] \in InboxAccount
    BY DEF InboxAccount
  <2> QED BY <2>1 DEF InboxInit
<1>4. inbound \in Seq(InboundMail)
  BY DEF InboxInit
<1>5. history \in [wish: [Account -> Setting], overlap: SUBSET Account, missed: SUBSET Mail,
                    broken: SUBSET Mail, setBy: [Job -> SUBSET Mail]]
  BY DEF InboxInit, Setting
<1>6. reminders \in [Mail -> 0..MaxReminders]
  BY InboxConstants DEF InboxInit
<1> QED BY <1>1, <1>2, <1>3, <1>4, <1>5, <1>6 DEF InboxInit, InboxSound, Handling, JobStatus

LEMMA SoundIsTyped == InboxSound => InboxTypes
<1> SUFFICES ASSUME InboxSound PROVE InboxTypes
  OBVIOUS
<1>1. \A d \in Doc: inbound[d] \in InboundMail
  BY DEF InboxSound, Doc
<1> QED BY <1>1 DEF InboxSound, InboxTypes, Request, InboundMail, Handling

(* One request goes on; the stored mails are kept.                         *)
LEMMA OneMoves ==
  ASSUME InboxSound, NEW p \in Process, NEW r \in Request, req' = [req EXCEPT ![p] = r],
         inbound' \in Seq(InboundMail), Len(inbound) <= Len(inbound'),
         r.pc \in Handling => r.doc \in Doc'
  PROVE  /\ req' \in [Process -> Request]
         /\ \A q \in Process: req'[q].pc \in Handling => req'[q].doc \in Doc'
<1>1. Doc \subseteq Doc'
  BY DEF Doc, InboxSound
<1> QED BY <1>1 DEF InboxSound

LEMMA OnwardType == ASSUME NEW p \in Process, NEW r \in Request
                    PROVE  Onward(p, r) \in Request /\ Onward(p, r).pc \notin Handling
<1>1. Idle(r.acc) \in Request /\ Idle(r.acc).pc = "idle"
  BY IdleType DEF Idle, Request
<1>2. [r EXCEPT !.pc = "look"] \in Request /\ [r EXCEPT !.pc = "look"].pc = "look"
  BY DEF Request, PC
<1> QED BY <1>1, <1>2 DEF Onward, Handling

LEMMA EndType ==
  ASSUME InboxSound, NEW p \in Process, End(p), inbound' = inbound
  PROVE  /\ req' \in [Process -> Request]
         /\ \A q \in Process: req'[q].pc \in Handling => req'[q].doc \in Doc'
<1>1. Idle(req[p].acc) \in Request /\ Idle(req[p].acc).pc = "idle"
  BY IdleType DEF Idle, Request, InboxSound
<1>2. Idle(req[p].acc).pc \notin Handling
  BY <1>1 DEF Handling
<1>3. Len(inbound) <= Len(inbound') /\ inbound' \in Seq(InboundMail)
  BY DEF InboxSound
<1> QED BY <1>1, <1>2, <1>3, OneMoves DEF End

LEMMA GoType ==
  ASSUME InboxSound, NEW p \in Process, NEW pc \in PC, Go(p, pc), inbound' = inbound,
         pc \in Handling => req[p].pc \in Handling
  PROVE  /\ req' \in [Process -> Request]
         /\ \A q \in Process: req'[q].pc \in Handling => req'[q].doc \in Doc'
<1> DEFINE r == [req[p] EXCEPT !.pc = pc]
<1>1. r \in Request /\ r.pc = pc /\ r.doc = req[p].doc
  BY DEF Request, InboxSound
<1>2. req' = [req EXCEPT ![p] = r]
  BY DEF Go
<1>3. Len(inbound) <= Len(inbound') /\ inbound' \in Seq(InboundMail)
  BY DEF InboxSound
<1>4. r.pc \in Handling => r.doc \in Doc'
  BY <1>1 DEF InboxSound, Doc
<1> HIDE DEF r
<1> QED BY <1>1, <1>2, <1>3, <1>4, OneMoves

InboxTyped == /\ req' \in [Process -> Request]
              /\ \A q \in Process: req'[q].pc \in Handling => req'[q].doc \in Doc'

LEMMA RestTyped ==
  ASSUME InboxSound, UNCHANGED <<account, delivered, inbound, job, reminders, calls, history>>,
         InboxTyped
  PROVE  InboxSound'
BY DEF InboxSound, InboxTyped, Doc

LEMMA AskedType ==
  ASSUME InboxSound, NEW a \in Account, NEW what \in Setting, Asked(a, what)
  PROVE  history' \in [wish: [Account -> Setting], overlap: SUBSET Account, missed: SUBSET Mail,
                       broken: SUBSET Mail, setBy: [Job -> SUBSET Mail]]
BY DEF Asked, InboxSound

LEMMA MatchType == ASSUME NEW m \in Mail PROVE MatchJob(m) \subseteq Job \union {NoJob}
BY InboxConstants DEF MatchJob

LEMMA SoundParts ==
  ASSUME InboxSound
  PROVE  /\ \A p \in Process: req[p] \in Request /\ (req[p].pc \in Handling => req[p].doc \in Doc)
         /\ \A a \in Account: account[a] \in InboxAccount
         /\ calls \in Nat
         /\ inbound \in Seq(InboundMail) /\ Len(inbound) \in Nat
         /\ \A d \in Doc: inbound[d] \in InboundMail
BY DEF InboxSound, Doc

LEMMA SameMails == ASSUME InboxSound, inbound' = inbound
                   PROVE  Len(inbound) <= Len(inbound') /\ inbound' \in Seq(InboundMail)
BY SoundParts

LEMMA SyncStepsSound ==
  ASSUME InboxSound, NEW p \in Process,
         \/ ConnectNotFound(p) \/ Fetch(p) \/ FetchFails(p) \/ Look(p) \/ FinishSync(p)
         \/ \E a \in Account: StartSync(p, a)
  PROVE  InboxSound'
<1> USE DEF mailStore, inboxVars
<1>1. CASE ConnectNotFound(p)
  BY <1>1, EndType, RestTyped DEF ConnectNotFound, InboxTyped
<1>2. CASE Fetch(p)
  <2> PICK got \in SUBSET Window(req[p].acc, req[p].copy.last_uid):
        /\ req' = [req EXCEPT ![p].pc = "look", ![p].todo = got]
        /\ history' = [history EXCEPT !.missed =
                         @ \union (Newer(req[p].acc, req[p].copy.last_uid) \ got)]
    BY <1>2 DEF Fetch
  <2> DEFINE r == [req[p] EXCEPT !.pc = "look", !.todo = got]
  <2>1. r \in Request /\ r.pc = "look"
    <3>1. got \subseteq Mail
      BY DEF Window, Newer
    <3> QED BY <3>1, SoundParts DEF Request, PC
  <2>2. inbound' = inbound /\ Len(inbound) <= Len(inbound') /\ inbound' \in Seq(InboundMail)
    <3>1. inbound' = inbound
      BY <1>2 DEF Fetch
    <3> QED BY <3>1, SameMails
  <2>3. req' = [req EXCEPT ![p] = r]
    OBVIOUS
  <2>4. InboxTyped
    <3> HIDE DEF r
    <3> QED BY <2>1, <2>2, <2>3, OneMoves DEF InboxTyped, Handling
  <2>5. history' \in [wish: [Account -> Setting], overlap: SUBSET Account, missed: SUBSET Mail,
                         broken: SUBSET Mail, setBy: [Job -> SUBSET Mail]]
    <3>1. Newer(req[p].acc, req[p].copy.last_uid) \subseteq Mail
      BY DEF Newer
    <3> QED BY <3>1 DEF InboxSound
  <2>6. UNCHANGED <<account, delivered, inbound, job, reminders, calls>>
    BY <1>2 DEF Fetch
  <2> QED BY <2>2, <2>4, <2>5, <2>6 DEF InboxSound, InboxTyped
<1>3. CASE FetchFails(p)
  <2>1. InboxTyped
    BY <1>3, EndType DEF FetchFails, InboxTyped
  <2>2. account' \in [Account -> InboxAccount]
    BY <1>3 DEF FetchFails, SaveAccount, InboxSound, Request
  <2> QED BY <1>3, <2>1, <2>2 DEF FetchFails, InboxSound, InboxTyped
<1>4. CASE Look(p)
  <2> PICK m \in First(req[p].todo):
        LET r == [req[p] EXCEPT !.top = IF @ < MailUid[m] THEN MailUid[m] ELSE @]
         IN  req' = [req EXCEPT ![p] = IF Known(MessageId[m])
                                       THEN Onward(p, [r EXCEPT !.todo = @ \ {m}])
                                       ELSE [r EXCEPT !.pc = "insert"]]
    BY <1>4 DEF Look
  <2> DEFINE r == [req[p] EXCEPT !.top = IF @ < MailUid[m] THEN MailUid[m] ELSE @]
             next == IF Known(MessageId[m]) THEN Onward(p, [r EXCEPT !.todo = @ \ {m}])
                                            ELSE [r EXCEPT !.pc = "insert"]
  <2>1. r \in Request
    <3>1. req[p] \in Request
      BY SoundParts
    <3>2. m \in Mail
      BY <3>1 DEF First, Request
    <3>3. MailUid[m] \in Nat
      BY <3>2, InboxConstants
    <3> QED BY <3>1, <3>3 DEF Request
  <2>2. [r EXCEPT !.todo = @ \ {m}] \in Request
    BY <2>1 DEF Request
  <2>3. [r EXCEPT !.pc = "insert"] \in Request /\ [r EXCEPT !.pc = "insert"].pc = "insert"
    BY <2>1 DEF Request, PC
  <2>4. next \in Request /\ next.pc \notin Handling
    BY <2>2, <2>3, OnwardType DEF Handling
  <2>5. inbound' = inbound /\ Len(inbound) <= Len(inbound') /\ inbound' \in Seq(InboundMail)
    <3>1. inbound' = inbound
      BY <1>4 DEF Look
    <3> QED BY <3>1, SameMails
  <2>6. req' = [req EXCEPT ![p] = next]
    OBVIOUS
  <2> HIDE DEF next
  <2>7. InboxTyped
    BY <2>4, <2>5, <2>6, OneMoves DEF InboxTyped
  <2> QED BY <1>4, <2>7, RestTyped DEF Look
<1>5. CASE FinishSync(p)
  <2>1. InboxTyped
    BY <1>5, EndType DEF FinishSync, InboxTyped
  <2>2. account' \in [Account -> InboxAccount]
    <3>1. [req[p].copy EXCEPT !.last_uid = req[p].top] \in InboxAccount /\ req[p].acc \in Account
      BY SoundParts DEF Request, InboxAccount
    <3>2. account' = [account EXCEPT ![req[p].acc] = [req[p].copy EXCEPT !.last_uid = req[p].top]]
      BY <1>5 DEF FinishSync, SaveAccount
    <3> QED BY <3>1, <3>2 DEF InboxSound
  <2> QED BY <1>5, <2>1, <2>2 DEF FinishSync, InboxSound, InboxTyped
<1>6. ASSUME NEW a \in Account, StartSync(p, a) PROVE InboxSound'
  <2> DEFINE r == [Idle(a) EXCEPT !.pc = "connect", !.copy = account[a],
                                  !.top = account[a].last_uid, !.raced = Syncing(a) # {}]
             f == [q \in Process |-> IF q = p THEN r
                                     ELSE IF q \in Syncing(a) THEN [req[q] EXCEPT !.raced = TRUE]
                                     ELSE req[q]]
  <2>1. r \in Request /\ r.pc = "connect"
    <3>1. Idle(a) \in Request /\ account[a] \in InboxAccount /\ account[a].last_uid \in Nat
      BY IdleType, SoundParts DEF InboxAccount
    <3> QED BY <3>1 DEF Request, PC
  <2>2. \A q \in Process: /\ [req[q] EXCEPT !.raced = TRUE] \in Request
                          /\ [req[q] EXCEPT !.raced = TRUE].pc = req[q].pc
                          /\ [req[q] EXCEPT !.raced = TRUE].doc = req[q].doc
    BY SoundParts DEF Request
  <2>3. req' = f
    BY <1>6 DEF StartSync
  <2> HIDE DEF r
  <2>4. InboxTyped
    <3>1. Doc' = Doc
      BY <1>6 DEF StartSync, Doc
    <3>2. \A q \in Process: /\ f[q] \in Request
                            /\ f[q].pc \in Handling => f[q].pc = req[q].pc /\ f[q].doc = req[q].doc
      BY <2>1, <2>2, SoundParts DEF Handling
    <3> HIDE DEF f
    <3>3. f \in [Process -> Request]
      BY <3>2 DEF f
    <3> QED BY <2>3, <3>1, <3>2, <3>3, SoundParts DEF InboxTyped
  <2>5. calls' \in Nat
    <3>1. calls' = calls + 1
      BY <1>6 DEF StartSync, Call
    <3> QED BY <3>1, SoundParts
  <2> QED BY <1>6, <2>4, <2>5 DEF StartSync, InboxSound, InboxTyped
<1> QED BY <1>1, <1>2, <1>3, <1>4, <1>5, <1>6

LEMMA MailReplaced ==
  ASSUME inbound \in Seq(InboundMail), NEW d \in Doc, NEW m \in InboundMail,
         inbound' = [inbound EXCEPT ![d] = m]
  PROVE  inbound' \in Seq(InboundMail) /\ Len(inbound') = Len(inbound)
BY DEF Doc

LEMMA AccountStepsSound ==
  ASSUME InboxSound,
         \/ \E a \in Account: Deliver(a) \/ DeleteAccount(a)
         \/ \E d \in Doc: IgnoreMessage(d)
         \/ \E p \in Process: SaveEdit(p) \/ \E a \in Account: EditAccount(p, a)
  PROVE  InboxSound'
<1> USE DEF mailStore
<1>1. ASSUME NEW a \in Account, Deliver(a) PROVE InboxSound'
  <2>1. delivered' \in [Account -> Nat]
    BY <1>1 DEF Deliver, InboxSound
  <2> QED BY <1>1, <2>1 DEF Deliver, InboxSound, Doc
<1>2. ASSUME NEW a \in Account, DeleteAccount(a) PROVE InboxSound'
  <2>1. account' \in [Account -> InboxAccount]
    BY <1>2 DEF DeleteAccount, InboxSound, InboxAccount
  <2>2. calls' \in Nat
    BY <1>2, SoundParts DEF DeleteAccount, Call
  <2>3. "deleted" \in Setting /\ Asked(a, "deleted")
    BY <1>2 DEF DeleteAccount, Setting
  <2> QED BY <1>2, <2>1, <2>2, <2>3, AskedType DEF DeleteAccount, InboxSound, Doc
<1>3. ASSUME NEW d \in Doc, IgnoreMessage(d) PROVE InboxSound'
  <2>1. inbound' \in Seq(InboundMail) /\ Len(inbound') = Len(inbound)
    <3>1. [inbound[d] EXCEPT !.status = "ignored"] \in InboundMail
      BY SoundParts DEF InboundMail
    <3>2. inbound' = [inbound EXCEPT ![d] = [inbound[d] EXCEPT !.status = "ignored"]]
      BY <1>3 DEF IgnoreMessage
    <3> QED BY <3>1, <3>2, SoundParts, MailReplaced
  <2>2. calls' \in Nat
    BY <1>3, SoundParts DEF IgnoreMessage, Call
  <2> QED BY <1>3, <2>1, <2>2 DEF IgnoreMessage, InboxSound, Doc
<1>4. ASSUME NEW p \in Process, SaveEdit(p) PROVE InboxSound'
  <2> PICK on \in BOOLEAN:
        /\ account' = [account EXCEPT ![req[p].acc] = [req[p].copy EXCEPT !.auto_apply = on]]
        /\ Asked(req[p].acc, IF on THEN "on" ELSE "off")
    BY <1>4 DEF SaveEdit
  <2>1. req[p].acc \in Account /\ [req[p].copy EXCEPT !.auto_apply = on] \in InboxAccount
    BY SoundParts DEF Request, InboxAccount
  <2>2. account' \in [Account -> InboxAccount]
    BY <2>1 DEF InboxSound
  <2>3. (IF on THEN "on" ELSE "off") \in Setting
    BY DEF Setting
  <2>4. InboxTyped
    BY <1>4, EndType DEF SaveEdit, InboxTyped
  <2> QED BY <1>4, <2>1, <2>2, <2>3, <2>4, AskedType DEF SaveEdit, InboxSound, InboxTyped
<1>5. ASSUME NEW p \in Process, NEW a \in Account, EditAccount(p, a) PROVE InboxSound'
  <2> DEFINE r == [Idle(a) EXCEPT !.pc = "edit", !.op = "edit", !.copy = account[a]]
  <2>1. r \in Request /\ r.pc = "edit"
    <3>1. Idle(a) \in Request /\ account[a] \in InboxAccount
      BY IdleType, SoundParts
    <3> QED BY <3>1 DEF Request, PC, Op
  <2>2. inbound' = inbound /\ req' = [req EXCEPT ![p] = r] /\ calls' = calls + 1
    BY <1>5 DEF EditAccount, Call
  <2> HIDE DEF r
  <2>3. InboxTyped
    BY <2>1, <2>2, SameMails, OneMoves DEF InboxTyped, Handling
  <2>4. calls' \in Nat
    BY <2>2, SoundParts
  <2> QED BY <1>5, <2>3, <2>4 DEF EditAccount, InboxSound, InboxTyped
<1> QED BY <1>1, <1>2, <1>3, <1>4, <1>5

LEMMA InsertType ==
  ASSUME InboxSound, NEW p \in Process, Insert(p)
  PROVE  InboxSound'
<1> DEFINE r == req[p]
<1>1. PICK m \in First(r.todo): \E j \in MatchJob(m):
        LET next == [r EXCEPT !.todo = @ \ {m}, !.doc = Len(inbound) + 1]
        IN  /\ inbound' = Append(inbound, [mail |-> m, status |-> "pending", job |-> j,
                                           by |-> p, auto |-> r.copy.auto_apply])
            /\ req' = [req EXCEPT ![p] = IF r.copy.auto_apply /\ MailEvent[m] # "other"
                                         THEN [next EXCEPT !.pc = "load"] ELSE Onward(p, next)]
  BY DEF Insert
<1>a. PICK j \in MatchJob(m):
        LET next == [r EXCEPT !.todo = @ \ {m}, !.doc = Len(inbound) + 1]
        IN  /\ inbound' = Append(inbound, [mail |-> m, status |-> "pending", job |-> j,
                                           by |-> p, auto |-> r.copy.auto_apply])
            /\ req' = [req EXCEPT ![p] = IF r.copy.auto_apply /\ MailEvent[m] # "other"
                                         THEN [next EXCEPT !.pc = "load"] ELSE Onward(p, next)]
  BY <1>1
<1> DEFINE next == [r EXCEPT !.todo = @ \ {m}, !.doc = Len(inbound) + 1]
           then == IF r.copy.auto_apply /\ MailEvent[m] # "other"
                   THEN [next EXCEPT !.pc = "load"] ELSE Onward(p, next)
           new == [mail |-> m, status |-> "pending", job |-> j, by |-> p,
                   auto |-> r.copy.auto_apply]
<1>2. r \in Request /\ Len(inbound) \in Nat
  BY SoundParts
<1>3. m \in Mail /\ j \in Job \union {NoJob} /\ r.copy.auto_apply \in BOOLEAN
  BY <1>2, MatchType DEF First, Request, InboxAccount
<1>4. new \in InboundMail
  BY <1>3 DEF InboundMail
<1>5. inbound' = Append(inbound, new) /\ req' = [req EXCEPT ![p] = then]
  BY <1>a
<1>6. next \in Request /\ next.doc = Len(inbound) + 1
  <2>1. Len(inbound) + 1 \in Nat /\ r.todo \ {m} \subseteq Mail
    BY <1>2 DEF Request
  <2> HIDE DEF r
  <2> QED BY <1>2, <2>1 DEF Request
<1> HIDE DEF new, next
<1>7. /\ [next EXCEPT !.pc = "load"] \in Request
      /\ [next EXCEPT !.pc = "load"].doc = Len(inbound) + 1
  BY <1>6 DEF Request, PC
<1>8. inbound' \in Seq(InboundMail) /\ Len(inbound') = Len(inbound) + 1
  BY <1>4, <1>5, SoundParts
<1>9. then \in Request /\ (then.pc \in Handling => then.doc \in Doc')
  <2>1. Doc' = 1..Len(inbound) + 1
    BY <1>8 DEF Doc
  <2>2. Onward(p, next) \in Request /\ Onward(p, next).pc \notin Handling
    BY <1>6, OnwardType
  <2> QED BY <1>2, <1>7, <2>1, <2>2
<1> HIDE DEF then
<1>10. Len(inbound) <= Len(inbound')
  BY <1>8, SoundParts
<1>11. InboxTyped
  BY <1>5, <1>8, <1>9, <1>10, OneMoves DEF InboxTyped
<1> QED BY <1>8, <1>11 DEF Insert, InboxSound, InboxTyped

LEMMA BeginSound ==
  ASSUME InboxSound, NEW p \in Process,
         \/ \E m \in Mail: Ingest(p, m)
         \/ \E d \in Doc: ApplyByHand(p, d)
  PROVE  InboxSound'
<1> USE DEF mailStore
<1>1. ASSUME NEW m \in Mail, Ingest(p, m) PROVE InboxSound'
  <2> PICK auto \in BOOLEAN:
        req' = [req EXCEPT ![p] = [Idle(MailAccount[m]) EXCEPT !.pc = "look", !.op = "ingest",
                                     !.todo = {m}, !.copy.auto_apply = auto]]
    BY <1>1 DEF Ingest
  <2> DEFINE r == [Idle(MailAccount[m]) EXCEPT !.pc = "look", !.op = "ingest",
                                     !.todo = {m}, !.copy.auto_apply = auto]
  <2>1. r \in Request /\ r.pc = "look"
    <3>1. Idle(MailAccount[m]) \in Request
      BY IdleType, InboxConstants
    <3> QED BY <3>1 DEF Request, PC, Op, InboxAccount
  <2>2. inbound' = inbound /\ calls' = calls + 1 /\ req' = [req EXCEPT ![p] = r]
    BY <1>1 DEF Ingest, Call
  <2> HIDE DEF r
  <2>3. InboxTyped
    BY <2>1, <2>2, SameMails, OneMoves DEF InboxTyped, Handling
  <2>4. calls' \in Nat
    BY <2>2, SoundParts
  <2> QED BY <1>1, <2>3, <2>4 DEF Ingest, InboxSound, InboxTyped
<1>2. ASSUME NEW d \in Doc, ApplyByHand(p, d) PROVE InboxSound'
  <2> DEFINE a == MailAccount[inbound[d].mail]
             r == [Idle(a) EXCEPT !.pc = "load", !.op = "hand", !.doc = d]
  <2>1. r \in Request /\ r.doc = d
    <3>1. inbound[d].mail \in Mail /\ d \in Nat
      BY SoundParts DEF InboundMail, Doc
    <3>2. Idle(a) \in Request
      BY <3>1, IdleType, InboxConstants
    <3> QED BY <3>1, <3>2 DEF Request, PC, Op
  <2>2. inbound' = inbound /\ calls' = calls + 1 /\ req' = [req EXCEPT ![p] = r]
    BY <1>2 DEF ApplyByHand, Call
  <2> HIDE DEF r
  <2>3. d \in Doc'
    BY <2>2 DEF Doc
  <2>4. InboxTyped
    BY <2>1, <2>2, <2>3, SameMails, OneMoves DEF InboxTyped
  <2>5. calls' \in Nat
    BY <2>2, SoundParts
  <2> QED BY <1>2, <2>4, <2>5 DEF ApplyByHand, InboxSound, InboxTyped
<1> QED BY <1>1, <1>2

LEMMA ApplyStepsSound ==
  ASSUME InboxSound, NEW p \in Process,
         LoadMessage(p) \/ SaveJob(p) \/ CreateJob(p) \/ SkipJob(p) \/ Remind(p)
           \/ MarkApplied(p) \/ Break(p)
  PROVE  InboxSound'
<1> USE DEF mailStore
<1>1. CASE LoadMessage(p)
  <2>1. PICK j \in IF inbound[req[p].doc].job # NoJob THEN {inbound[req[p].doc].job}
                   ELSE MatchJob(inbound[req[p].doc].mail):
          req' = [req EXCEPT ![p].pc = "effect", ![p].job = j,
                             ![p].seen = IF j = NoJob THEN "absent" ELSE job[j]]
    BY <1>1 DEF LoadMessage
  <2>2. req[p] \in Request /\ req[p].doc \in Doc /\ inbound[req[p].doc] \in InboundMail
    BY <1>1, SoundParts DEF LoadMessage, Handling
  <2>3. j \in Job \union {NoJob}
    BY <2>2, MatchType DEF InboundMail
  <2>4. (IF j = NoJob THEN "absent" ELSE job[j]) \in JobStatus
    BY <2>3 DEF InboxSound, JobStatus
  <2> DEFINE s == IF j = NoJob THEN "absent" ELSE job[j]
             r == [req[p] EXCEPT !.pc = "effect", !.job = j, !.seen = s]
  <2>5. req' = [req EXCEPT ![p] = r]
    BY <2>1
  <2> HIDE DEF s
  <2>6. r \in Request /\ r.doc = req[p].doc
    BY <2>2, <2>3, <2>4 DEF Request, PC, s
  <2>7. inbound' = inbound
    BY <1>1 DEF LoadMessage
  <2> HIDE DEF r
  <2>8. InboxTyped
    BY <2>2, <2>5, <2>6, <2>7, SameMails, OneMoves DEF InboxTyped, Doc
  <2> QED BY <1>1, <2>8, RestTyped DEF LoadMessage
<1>2. CASE SaveJob(p)
  <2> DEFINE e == MailEvent[inbound[req[p].doc].mail]
  <2>1. /\ req[p] \in Request /\ req[p].doc \in Doc /\ inbound[req[p].doc].mail \in Mail
        /\ req[p].job \in Job
    BY <1>2, SoundParts DEF SaveJob, Handling, InboundMail, Request
  <2>2. /\ e \in {"interview", "offer", "rejection", "jd"}
        /\ job' = [job EXCEPT ![req[p].job] = NewStatus(e, req[p].seen)]
        /\ Go(p, IF e = "interview" THEN "remind" ELSE "mark") /\ inbound' = inbound
    BY <1>2 DEF SaveJob
  <2>3. req[p].pc = "effect"
    BY <1>2 DEF SaveJob
  <2> HIDE DEF e
  <2>4. NewStatus(e, req[p].seen) \in JobStatus
    BY <2>1, <2>2 DEF NewStatus, JobStatus, Request
  <2>5. job' \in [Job -> JobStatus]
    BY <2>1, <2>2, <2>4 DEF InboxSound
  <2>6. InboxTyped
    BY <2>2, <2>3, GoType DEF InboxTyped, PC, Handling
  <2>7. history' \in [wish: [Account -> Setting], overlap: SUBSET Account, missed: SUBSET Mail,
                      broken: SUBSET Mail, setBy: [Job -> SUBSET Mail]]
    <3>1. PICK S \in SUBSET Mail: history' = [history EXCEPT !.setBy[req[p].job] = S]
      <4> DEFINE S == IF e = "jd" THEN history.setBy[req[p].job]
                      ELSE IF req[p].op = "sync" THEN {inbound[req[p].doc].mail} ELSE {}
      <4>1. S \in SUBSET Mail
        BY <2>1 DEF InboxSound
      <4>2. history' = [history EXCEPT !.setBy[req[p].job] = S]
        BY <1>2 DEF SaveJob, e
      <4> HIDE DEF S
      <4> QED BY <4>1, <4>2
    <3> QED BY <3>1, <2>1 DEF InboxSound
  <2> QED BY <1>2, <2>5, <2>6, <2>7 DEF SaveJob, InboxSound, InboxTyped
<1>3. CASE CreateJob(p)
  <2>1. PICK j \in Job: /\ job' = [job EXCEPT ![j] = "tracked"]
                        /\ req' = [req EXCEPT ![p].pc = "mark", ![p].job = j]
    BY <1>3 DEF CreateJob
  <2> DEFINE r == [req[p] EXCEPT !.pc = "mark", !.job = j]
  <2>2. /\ req[p] \in Request /\ req[p].doc \in Doc /\ inbound' = inbound
        /\ req' = [req EXCEPT ![p] = r]
    BY <1>3, <2>1, SoundParts DEF CreateJob, Handling
  <2>3. r \in Request /\ r.doc = req[p].doc
    BY <2>2 DEF Request, PC
  <2> HIDE DEF r
  <2>4. InboxTyped
    BY <2>2, <2>3, SameMails, OneMoves DEF InboxTyped, Doc
  <2>5. job' \in [Job -> JobStatus]
    BY <2>1 DEF InboxSound, JobStatus
  <2> QED BY <1>3, <2>4, <2>5 DEF CreateJob, InboxSound, InboxTyped
<1>4. CASE SkipJob(p)
  <2> DEFINE pc == IF MailEvent[inbound[req[p].doc].mail] \in {"interview", "assessment"}
                   THEN "remind" ELSE "mark"
  <2>1. Go(p, pc) /\ inbound' = inbound /\ req[p].pc = "effect"
    BY <1>4 DEF SkipJob
  <2>2. pc \in PC
    BY DEF PC
  <2> HIDE DEF pc
  <2>3. InboxTyped
    BY <2>1, <2>2, GoType DEF InboxTyped, Handling
  <2> QED BY <1>4, <2>3, RestTyped DEF SkipJob
<1>5. CASE Remind(p)
  <2>1. InboxTyped
    BY <1>5, GoType DEF Remind, InboxTyped, Handling, PC
  <2>2. reminders' \in [Mail -> 0..MaxReminders]
    <3>1. inbound[req[p].doc].mail \in Mail
      BY <1>5, SoundParts DEF Remind, Handling, InboundMail
    <3> QED BY <1>5, <3>1, InboxConstants DEF Remind, InboxSound
  <2> QED BY <1>5, <2>1, <2>2 DEF Remind, InboxSound, InboxTyped
<1>6. CASE MarkApplied(p)
  <2> DEFINE m == [inbound[req[p].doc] EXCEPT !.status = "applied", !.job = req[p].job]
  <2>1. req[p] \in Request /\ req[p].doc \in Doc /\ inbound[req[p].doc] \in InboundMail
    BY <1>6, SoundParts DEF MarkApplied, Handling
  <2>2. m \in InboundMail /\ inbound' = [inbound EXCEPT ![req[p].doc] = m]
    BY <1>6, <2>1 DEF MarkApplied, InboundMail, Request
  <2> HIDE DEF m
  <2>3. inbound' \in Seq(InboundMail) /\ Len(inbound') = Len(inbound)
    BY <2>1, <2>2, SoundParts, MailReplaced
  <2>4. InboxTyped
    <3>1. req' = [req EXCEPT ![p] = Onward(p, req[p])]
      BY <1>6 DEF MarkApplied
    <3>2. Onward(p, req[p]) \in Request /\ Onward(p, req[p]).pc \notin Handling
      BY <2>1, OnwardType
    <3>3. Len(inbound) <= Len(inbound')
      BY <2>3, SoundParts
    <3> QED BY <2>3, <3>1, <3>2, <3>3, OneMoves DEF InboxTyped
  <2> QED BY <1>6, <2>3, <2>4 DEF MarkApplied, InboxSound, InboxTyped
<1>7. CASE Break(p)
  <2>1. InboxTyped
    BY <1>7, EndType DEF Break, InboxTyped
  <2>2. \/ history' = history
        \/ /\ req[p].pc \in Handling
           /\ history' = [history EXCEPT !.broken = @ \union {inbound[req[p].doc].mail}]
    BY <1>7 DEF Break, Handling
  <2>3. history' \in [wish: [Account -> Setting], overlap: SUBSET Account, missed: SUBSET Mail,
                      broken: SUBSET Mail, setBy: [Job -> SUBSET Mail]]
    <3>1. ASSUME NEW x \in Mail, history' = [history EXCEPT !.broken = @ \union {x}]
          PROVE  history' \in [wish: [Account -> Setting], overlap: SUBSET Account,
                               missed: SUBSET Mail, broken: SUBSET Mail,
                               setBy: [Job -> SUBSET Mail]]
      BY <3>1 DEF InboxSound
    <3>2. req[p].pc \in Handling => inbound[req[p].doc].mail \in Mail
      BY SoundParts DEF InboundMail
    <3>3. CASE history' = history
      BY <3>3 DEF InboxSound
    <3> QED BY <2>2, <3>1, <3>2, <3>3
  <2> QED BY <1>7, <2>1, <2>3 DEF Break, InboxSound, InboxTyped
<1> QED BY <1>1, <1>2, <1>3, <1>4, <1>5, <1>6, <1>7

LEMMA InboxSoundStep == InboxSound /\ [InboxNext]_inboxVars => InboxSound'
<1> SUFFICES ASSUME InboxSound, [InboxNext]_inboxVars PROVE InboxSound'
  OBVIOUS
<1>1. CASE InboxNext
  BY <1>1, AccountStepsSound, SyncStepsSound, InsertType, BeginSound, ApplyStepsSound DEF InboxNext
<1>2. CASE UNCHANGED inboxVars
  BY <1>2 DEF inboxVars, InboxSound, Doc
<1> QED BY <1>1, <1>2

(* What a request holds at each of its points.                             *)
Local(r) ==
    /\ \A m \in r.todo: MailAccount[m] = r.acc
    /\ r.pc = "idle" => r = Idle(r.acc)
    /\ r.pc = "connect" => r.op = "sync" /\ r.todo = {} /\ r.top = r.copy.last_uid
    /\ r.pc = "edit" <=> r.op = "edit"
    /\ r.pc = "edit" => r.copy.live
    /\ r.pc \in {"look", "insert"} => r.op \in {"sync", "ingest"}
    /\ r.pc = "look" /\ r.op = "ingest" => r.todo # {}
    /\ r.pc = "insert" => \A m \in First(r.todo): MailUid[m] <= r.top
InboxLocals == \A p \in Process: Local(req[p])

LEMMA LocalIdle == ASSUME NEW a \in Account PROVE Local(Idle(a))
BY DEF Local, Idle

LEMMA LocalOnward ==
  ASSUME NEW p \in Process, NEW r \in Request, r.op # "edit",
         \A m \in r.todo: MailAccount[m] = r.acc
  PROVE  Local(Onward(p, r))
<1>1. r.acc \in Account
  BY DEF Request
<1>2. CASE r.op # "sync"
  BY <1>1, <1>2, LocalIdle DEF Onward
<1>3. CASE r.op = "sync"
  BY <1>3 DEF Onward, Local, Request
<1> QED BY <1>2, <1>3

LEMMA OneLocal ==
  ASSUME InboxSound, InboxLocals, NEW p \in Process, NEW r, Local(r), req' = [req EXCEPT ![p] = r]
  PROVE  InboxLocals'
<1>1. \A q \in Process: Local(req'[q])
  BY DEF InboxSound, InboxLocals
<1>2. \A q \in Process: Local(req'[q]) <=> Local(req[q])'
  BY DEF Local, First, Idle
<1> QED BY <1>1, <1>2 DEF InboxLocals

LEMMA EndLocal == ASSUME InboxSound, InboxLocals, NEW p \in Process, End(p) PROVE InboxLocals'
BY LocalIdle, OneLocal, SoundParts DEF End, Request

LEMMA GoLocal ==
  ASSUME InboxSound, InboxLocals, NEW p \in Process, NEW pc \in Handling, Go(p, pc),
         req[p].pc \in Handling
  PROVE  InboxLocals'
<1> DEFINE r == [req[p] EXCEPT !.pc = pc]
<1>1. Local(req[p]) /\ req[p] \in Request
  BY SoundParts DEF InboxLocals
<1>2. Local(r)
  BY <1>1 DEF Local, Request, Handling
<1>3. req' = [req EXCEPT ![p] = r]
  BY DEF Go
<1> HIDE DEF r
<1> QED BY <1>2, <1>3, OneLocal

LEMMA LocalsInit == InboxInit => InboxLocals
BY LocalIdle DEF InboxInit, InboxLocals

LEMMA LocalsStep == InboxSound /\ InboxLocals /\ [InboxNext]_inboxVars => InboxLocals'
<1> SUFFICES ASSUME InboxSound, InboxLocals, [InboxNext]_inboxVars PROVE InboxLocals'
  OBVIOUS
<1> USE DEF mailStore
<1>0. ASSUME req' = req PROVE InboxLocals'
  BY <1>0 DEF InboxLocals, Local, First, Idle
<1>1. ASSUME NEW a \in Account, Deliver(a) \/ DeleteAccount(a) PROVE InboxLocals'
  BY <1>0, <1>1 DEF Deliver, DeleteAccount
<1>2. ASSUME NEW d \in Doc, IgnoreMessage(d) PROVE InboxLocals'
  BY <1>0, <1>2 DEF IgnoreMessage
<1>3. ASSUME NEW p \in Process, NEW a \in Account, StartSync(p, a) PROVE InboxLocals'
  <2> DEFINE r == [Idle(a) EXCEPT !.pc = "connect", !.copy = account[a],
                                  !.top = account[a].last_uid, !.raced = Syncing(a) # {}]
             f == [q \in Process |-> IF q = p THEN r
                                     ELSE IF q \in Syncing(a) THEN [req[q] EXCEPT !.raced = TRUE]
                                     ELSE req[q]]
  <2>1. req' = f
    BY <1>3 DEF StartSync
  <2>2. Local(r)
    BY DEF Local, Idle
  <2>3. \A q \in Syncing(a): Local([req[q] EXCEPT !.raced = TRUE])
    <3> TAKE q \in Syncing(a)
    <3>1. Local(req[q]) /\ req[q].pc # "idle" /\ req[q] \in Request
      BY SoundParts DEF InboxLocals, Syncing
    <3> QED BY <3>1 DEF Local, Request
  <2>4. \A q \in Process: Local(f[q])
    <3> HIDE DEF r
    <3> QED BY <2>2, <2>3 DEF InboxLocals
  <2> HIDE DEF f
  <2> QED BY <2>1, <2>4 DEF InboxLocals, Local, First, Idle
<1>4. ASSUME NEW p \in Process, NEW a \in Account, EditAccount(p, a) PROVE InboxLocals'
  <2> DEFINE r == [Idle(a) EXCEPT !.pc = "edit", !.op = "edit", !.copy = account[a]]
  <2>1. Local(r) /\ req' = [req EXCEPT ![p] = r]
    BY <1>4 DEF EditAccount, Local, Idle
  <2> HIDE DEF r
  <2> QED BY <2>1, OneLocal
<1>5. ASSUME NEW p \in Process, NEW m \in Mail, Ingest(p, m) PROVE InboxLocals'
  <2> PICK auto \in BOOLEAN:
        req' = [req EXCEPT ![p] = [Idle(MailAccount[m]) EXCEPT !.pc = "look", !.op = "ingest",
                                     !.todo = {m}, !.copy.auto_apply = auto]]
    BY <1>5 DEF Ingest
  <2> DEFINE r == [Idle(MailAccount[m]) EXCEPT !.pc = "look", !.op = "ingest",
                                     !.todo = {m}, !.copy.auto_apply = auto]
  <2>1. Local(r) /\ req' = [req EXCEPT ![p] = r]
    BY DEF Local, Idle
  <2> HIDE DEF r
  <2> QED BY <2>1, OneLocal
<1>6. ASSUME NEW p \in Process, NEW d \in Doc, ApplyByHand(p, d) PROVE InboxLocals'
  <2> DEFINE r == [Idle(MailAccount[inbound[d].mail]) EXCEPT !.pc = "load", !.op = "hand", !.doc = d]
  <2>1. Local(r) /\ req' = [req EXCEPT ![p] = r]
    BY <1>6 DEF ApplyByHand, Local, Idle
  <2> HIDE DEF r
  <2> QED BY <2>1, OneLocal
<1>7. ASSUME NEW p \in Process,
             \/ SaveEdit(p) \/ ConnectNotFound(p) \/ FetchFails(p) \/ FinishSync(p) \/ Break(p)
      PROVE InboxLocals'
  BY <1>7, EndLocal DEF SaveEdit, ConnectNotFound, FetchFails, FinishSync, Break
<1>8. ASSUME NEW p \in Process, Fetch(p) PROVE InboxLocals'
  <2> PICK got \in SUBSET Window(req[p].acc, req[p].copy.last_uid):
        req' = [req EXCEPT ![p].pc = "look", ![p].todo = got]
    BY <1>8 DEF Fetch
  <2> DEFINE r == [req[p] EXCEPT !.pc = "look", !.todo = got]
  <2>1. \A m \in got: MailAccount[m] = req[p].acc
    BY DEF Window, Newer
  <2>2. Local(req[p]) /\ req[p] \in Request /\ req[p].pc = "connect"
    BY <1>8, SoundParts DEF InboxLocals, Fetch
  <2>3. Local(r)
    BY <2>1, <2>2 DEF Local, Request
  <2>4. req' = [req EXCEPT ![p] = r]
    OBVIOUS
  <2> HIDE DEF r
  <2> QED BY <2>3, <2>4, OneLocal
<1>9. ASSUME NEW p \in Process, Look(p) PROVE InboxLocals'
  <2> PICK m \in First(req[p].todo):
        LET r == [req[p] EXCEPT !.top = IF @ < MailUid[m] THEN MailUid[m] ELSE @]
         IN  req' = [req EXCEPT ![p] = IF Known(MessageId[m])
                                       THEN Onward(p, [r EXCEPT !.todo = @ \ {m}])
                                       ELSE [r EXCEPT !.pc = "insert"]]
    BY <1>9 DEF Look
  <2> DEFINE top == IF req[p].top < MailUid[m] THEN MailUid[m] ELSE req[p].top
             r == [req[p] EXCEPT !.top = top]
             next == IF Known(MessageId[m]) THEN Onward(p, [r EXCEPT !.todo = @ \ {m}])
                                            ELSE [r EXCEPT !.pc = "insert"]
  <2>1. Local(req[p]) /\ req[p] \in Request /\ req[p].pc = "look"
    BY <1>9, SoundParts DEF InboxLocals, Look
  <2>2. m \in Mail /\ m \in req[p].todo /\ \A n \in req[p].todo: MailUid[m] <= MailUid[n] /\ n \in Mail
    BY <2>1 DEF First, Request
  <2>3. MailUid[m] \in Nat /\ req[p].top \in Nat /\ \A n \in req[p].todo: MailUid[n] \in Nat
    BY <2>1, <2>2, InboxConstants DEF Request
  <2>4. top \in Nat /\ MailUid[m] <= top
    BY <2>3
  <2>5. req' = [req EXCEPT ![p] = next]
    OBVIOUS
  <2> HIDE DEF top
  <2>6. r \in Request /\ r.op = req[p].op /\ r.todo = req[p].todo /\ r.acc = req[p].acc
    BY <2>1, <2>4 DEF Request
  <2>7. Local(Onward(p, [r EXCEPT !.todo = @ \ {m}]))
    <3> DEFINE s == [r EXCEPT !.todo = @ \ {m}]
    <3>1. s \in Request /\ s.op # "edit" /\ \A n \in s.todo: MailAccount[n] = s.acc
      BY <2>1, <2>6 DEF Local, Request
    <3>2. Local(Onward(p, s))
      <4> HIDE DEF s
      <4> QED BY <3>1, LocalOnward
    <3> QED BY <3>2
  <2>8. \A n \in First(req[p].todo): MailUid[n] <= top
    BY <2>2, <2>3, <2>4 DEF First
  <2>9. Local([r EXCEPT !.pc = "insert"])
    BY <2>1, <2>8 DEF Local, Request
  <2>10. Local(next)
    BY <2>7, <2>9
  <2> HIDE DEF next
  <2> QED BY <2>5, <2>10, OneLocal
<1>10. ASSUME NEW p \in Process, Insert(p) PROVE InboxLocals'
  <2> PICK m \in First(req[p].todo):
        LET next == [req[p] EXCEPT !.todo = @ \ {m}, !.doc = Len(inbound) + 1]
        IN  req' = [req EXCEPT ![p] = IF req[p].copy.auto_apply /\ MailEvent[m] # "other"
                                      THEN [next EXCEPT !.pc = "load"] ELSE Onward(p, next)]
    BY <1>10 DEF Insert
  <2> DEFINE next == [req[p] EXCEPT !.todo = @ \ {m}, !.doc = Len(inbound) + 1]
             then == IF req[p].copy.auto_apply /\ MailEvent[m] # "other"
                     THEN [next EXCEPT !.pc = "load"] ELSE Onward(p, next)
  <2>1. Local(req[p]) /\ req[p] \in Request /\ req[p].pc = "insert" /\ Len(inbound) + 1 \in Nat
    BY <1>10, SoundParts DEF InboxLocals, Insert
  <2>2. next \in Request /\ next.op = req[p].op
    BY <2>1 DEF Request
  <2>3. next.op \in {"sync", "ingest"} /\ \A n \in next.todo: MailAccount[n] = next.acc
    BY <2>1, <2>2 DEF Local, Request
  <2>4. Local([next EXCEPT !.pc = "load"])
    <3> HIDE DEF next
    <3> QED BY <2>2, <2>3 DEF Local, Request
  <2>5. Local(Onward(p, next))
    BY <2>2, <2>3, LocalOnward
  <2>6. req' = [req EXCEPT ![p] = then] /\ Local(then)
    BY <2>4, <2>5
  <2> HIDE DEF then
  <2> QED BY <2>6, OneLocal
<1>11. ASSUME NEW p \in Process, LoadMessage(p) PROVE InboxLocals'
  <2> PICK j, s: req' = [req EXCEPT ![p].pc = "effect", ![p].job = j, ![p].seen = s]
    BY <1>11 DEF LoadMessage
  <2> DEFINE r == [req[p] EXCEPT !.pc = "effect", !.job = j, !.seen = s]
  <2>1. Local(req[p]) /\ req[p] \in Request /\ req[p].pc = "load"
    BY <1>11, SoundParts DEF InboxLocals, LoadMessage
  <2>2. Local(r) /\ req' = [req EXCEPT ![p] = r]
    BY <2>1 DEF Local, Request
  <2> HIDE DEF r
  <2> QED BY <2>2, OneLocal
<1>12. ASSUME NEW p \in Process, CreateJob(p) PROVE InboxLocals'
  <2> PICK j: req' = [req EXCEPT ![p].pc = "mark", ![p].job = j]
    BY <1>12 DEF CreateJob
  <2> DEFINE r == [req[p] EXCEPT !.pc = "mark", !.job = j]
  <2>1. Local(req[p]) /\ req[p] \in Request /\ req[p].pc = "effect"
    BY <1>12, SoundParts DEF InboxLocals, CreateJob
  <2>2. Local(r) /\ req' = [req EXCEPT ![p] = r]
    BY <2>1 DEF Local, Request
  <2> HIDE DEF r
  <2> QED BY <2>2, OneLocal
<1>13. ASSUME NEW p \in Process, SaveJob(p) \/ SkipJob(p) \/ Remind(p) PROVE InboxLocals'
  <2>1. req[p].pc \in Handling
    BY <1>13 DEF SaveJob, SkipJob, Remind, Handling
  <2>2. PICK pc \in {"remind", "mark"}: Go(p, pc)
    BY <1>13 DEF SaveJob, SkipJob, Remind
  <2> QED BY <2>1, <2>2, GoLocal DEF Handling
<1>14. ASSUME NEW p \in Process, MarkApplied(p) PROVE InboxLocals'
  <2>1. Local(req[p]) /\ req[p] \in Request /\ req[p].pc = "mark"
    BY <1>14, SoundParts DEF InboxLocals, MarkApplied
  <2>2. Local(Onward(p, req[p]))
    BY <2>1, LocalOnward DEF Local
  <2>3. req' = [req EXCEPT ![p] = Onward(p, req[p])]
    BY <1>14 DEF MarkApplied
  <2> QED BY <2>2, <2>3, OneLocal
<1>15. CASE InboxNext
  BY <1>15, <1>1, <1>2, <1>3, <1>4, <1>5, <1>6, <1>7, <1>8, <1>9, <1>10, <1>11, <1>12, <1>13,
     <1>14 DEF InboxNext
<1>16. CASE UNCHANGED inboxVars
  BY <1>0, <1>16 DEF inboxVars
<1> QED BY <1>15, <1>16

(* Stored mails are kept, and keep what they were stored with.             *)
LEMMA MailsKept ==
  ASSUME InboxSound, [InboxNext]_inboxVars
  PROVE  /\ Doc \subseteq Doc' /\ history.missed \subseteq history'.missed
         /\ history.broken \subseteq history'.broken
         /\ \A d \in Doc: /\ inbound'[d].mail = inbound[d].mail
                          /\ inbound'[d].by = inbound[d].by
                          /\ inbound'[d].auto = inbound[d].auto
                          /\ inbound'[d].status = "pending" => inbound[d].status = "pending"
<1> USE DEF mailStore
<1>1. \/ inbound' = inbound
      \/ \E d \in Doc: \E m \in InboundMail:
           /\ inbound' = [inbound EXCEPT ![d] = m]
           /\ m.mail = inbound[d].mail /\ m.by = inbound[d].by /\ m.auto = inbound[d].auto
           /\ m.status # "pending"
      \/ \E m \in InboundMail: inbound' = Append(inbound, m)
  <2>1. ASSUME NEW d \in Doc, IgnoreMessage(d)
        PROVE  \E m \in InboundMail:
                 /\ inbound' = [inbound EXCEPT ![d] = m]
                 /\ m.mail = inbound[d].mail /\ m.by = inbound[d].by /\ m.auto = inbound[d].auto
                 /\ m.status # "pending"
    <3> DEFINE m == [inbound[d] EXCEPT !.status = "ignored"]
    <3>1. /\ m \in InboundMail /\ inbound' = [inbound EXCEPT ![d] = m]
          /\ m.mail = inbound[d].mail /\ m.by = inbound[d].by /\ m.auto = inbound[d].auto
          /\ m.status # "pending"
      BY <2>1, SoundParts DEF InboundMail, IgnoreMessage
    <3> HIDE DEF m
    <3> QED BY <3>1
  <2>2. ASSUME NEW p \in Process, MarkApplied(p)
        PROVE  \E m \in InboundMail:
                 /\ inbound' = [inbound EXCEPT ![req[p].doc] = m]
                 /\ m.mail = inbound[req[p].doc].mail /\ m.by = inbound[req[p].doc].by
                 /\ m.auto = inbound[req[p].doc].auto /\ m.status # "pending"
    <3> DEFINE m == [inbound[req[p].doc] EXCEPT !.status = "applied", !.job = req[p].job]
    <3>1. inbound[req[p].doc] \in InboundMail /\ req[p] \in Request
      BY <2>2, SoundParts DEF MarkApplied, Handling
    <3>2. /\ m \in InboundMail /\ inbound' = [inbound EXCEPT ![req[p].doc] = m]
          /\ m.mail = inbound[req[p].doc].mail /\ m.by = inbound[req[p].doc].by
          /\ m.auto = inbound[req[p].doc].auto /\ m.status # "pending"
      BY <2>2, <3>1 DEF InboundMail, Request, MarkApplied
    <3> HIDE DEF m
    <3> QED BY <3>2
  <2>3. ASSUME NEW p \in Process, Insert(p)
        PROVE  \E m \in InboundMail: inbound' = Append(inbound, m)
    <3>1. PICK m, j: /\ m \in First(req[p].todo) /\ j \in MatchJob(m)
                     /\ inbound' = Append(inbound, [mail |-> m, status |-> "pending", job |-> j,
                                                by |-> p, auto |-> req[p].copy.auto_apply])
      BY <2>3 DEF Insert
    <3>2. m \in Mail /\ req[p].copy.auto_apply \in BOOLEAN
      BY <3>1, SoundParts DEF First, Request, InboxAccount
    <3>3. j \in Job \union {NoJob}
      BY <3>1, <3>2, MatchType
    <3> QED BY <3>1, <3>2, <3>3 DEF InboundMail
  <2>4. \A p \in Process: MarkApplied(p) => req[p].doc \in Doc
    BY SoundParts DEF MarkApplied, Handling
  <2>5. CASE \E d \in Doc: IgnoreMessage(d)
    BY <2>1, <2>5
  <2>6. CASE \E p \in Process: MarkApplied(p) \/ Insert(p)
    BY <2>2, <2>3, <2>4, <2>6
  <2>7. CASE UNCHANGED inboxVars
    BY <2>7 DEF inboxVars
  <2>8. ASSUME InboxNext, ~\E d \in Doc: IgnoreMessage(d),
               ~\E p \in Process: MarkApplied(p) \/ Insert(p)
        PROVE  inbound' = inbound
    BY <2>8 DEF InboxNext, Deliver, DeleteAccount, StartSync, EditAccount, Ingest, ApplyByHand,
                SaveEdit, ConnectNotFound, Fetch, FetchFails, Look, FinishSync, LoadMessage,
                SaveJob, CreateJob, SkipJob, Remind, Break
  <2> QED BY <2>5, <2>6, <2>7, <2>8
<1>2. /\ Doc \subseteq Doc'
      /\ \A d \in Doc: /\ inbound'[d].mail = inbound[d].mail
                       /\ inbound'[d].by = inbound[d].by
                       /\ inbound'[d].auto = inbound[d].auto
                       /\ inbound'[d].status = "pending" => inbound[d].status = "pending"
  <2>1. ASSUME NEW d \in Doc, NEW m \in InboundMail, inbound' = [inbound EXCEPT ![d] = m]
        PROVE  Doc' = Doc /\ \A c \in Doc: inbound'[c] = IF c = d THEN m ELSE inbound[c]
    BY <2>1, SoundParts DEF Doc
  <2>2. ASSUME NEW m \in InboundMail, inbound' = Append(inbound, m)
        PROVE  Doc \subseteq Doc' /\ \A c \in Doc: inbound'[c] = inbound[c]
    BY <2>2, SoundParts DEF Doc
  <2>3. CASE inbound' = inbound
    BY <2>3 DEF Doc
  <2> QED BY <1>1, <2>1, <2>2, <2>3
<1>3. history.missed \subseteq history'.missed /\ history.broken \subseteq history'.broken
  <2> DEFINE Same == history'.missed = history.missed /\ history'.broken = history.broken
  <2>1. \A a \in Account, what \in Setting: Asked(a, what) => Same
    BY DEF Asked, InboxSound
  <2>2. \A p \in Process: Fetch(p) => history.missed \subseteq history'.missed /\ history'.broken = history.broken
    BY DEF Fetch, InboxSound
  <2>3. \A p \in Process: SaveEdit(p) => Same
    BY DEF SaveEdit, Asked, InboxSound
  <2>4. \A p \in Process: SaveJob(p) => Same
    BY DEF SaveJob, InboxSound
  <2>5. \A p \in Process: Break(p) => history'.missed = history.missed /\ history.broken \subseteq history'.broken
    BY DEF Break, InboxSound
  <2>6. \A a \in Account: DeleteAccount(a) => Same
    BY <2>1 DEF DeleteAccount, Setting
  <2>7. CASE UNCHANGED inboxVars
    BY <2>7 DEF inboxVars
  <2>8. CASE InboxNext
    BY <2>2, <2>3, <2>4, <2>5, <2>6, <2>8
       DEF InboxNext, Deliver, StartSync, EditAccount, Ingest, ApplyByHand, ConnectNotFound,
           FetchFails, Look, Insert, FinishSync, LoadMessage, CreateJob, SkipJob, Remind,
           MarkApplied, IgnoreMessage
  <2> QED BY <2>7, <2>8
<1> QED BY <1>2, <1>3

(* The cursors: all mails up to one are stored, or were left out, or are   *)
(* still in the hands of the synchronisation that read so far.             *)
Settled == {n \in Mail: Known(MessageId[n]) \/ n \in history.missed}
Covered(a, uid, S) == \A n \in Mail: MailAccount[n] = a /\ MailUid[n] <= uid => n \in S
Reached(r, n) == MailUid[n] <= r.top \/ \E m \in r.todo: MailUid[n] <= MailUid[m]
Cursor(r, S) ==
    /\ Covered(r.acc, r.copy.last_uid, S)
    /\ r.op = "sync" => \A n \in Mail: MailAccount[n] = r.acc /\ Reached(r, n)
                                         => n \in S \/ n \in r.todo
CursorInv ==
    /\ \A a \in Account: Covered(a, account[a].last_uid, Settled)
    /\ \A p \in Process: Cursor(req[p], Settled)

LEMMA CursorImplies == CursorInv => CursorPassesStoredMail
BY DEF CursorInv, Covered, Settled, CursorPassesStoredMail

LEMMA SettledGrows == ASSUME InboxSound, [InboxNext]_inboxVars PROVE Settled \subseteq Settled'
<1>1. \A n \in Mail: Known(MessageId[n]) => Known(MessageId[n])'
  BY MailsKept DEF Known
<1> QED BY <1>1, MailsKept DEF Settled

LEMMA CursorIdle == ASSUME NEW a \in Account, NEW S PROVE Cursor(Idle(a), S)
BY InboxConstants DEF Cursor, Covered, Reached, Idle

(* A step of a request that leaves its cursor and its mails alone.         *)
LEMMA CursorSame ==
  ASSUME NEW r, NEW s, NEW S, Cursor(r, S), s.acc = r.acc, s.copy = r.copy, s.op = r.op,
         s.top = r.top, s.todo = r.todo
  PROVE  Cursor(s, S)
BY DEF Cursor, Reached

LEMMA OnwardCursor ==
  ASSUME NEW p \in Process, NEW r, NEW S, Cursor(r, S), r.acc \in Account
  PROVE  Cursor(Onward(p, r), S)
<1> DEFINE s == [r EXCEPT !.pc = "look"]
<1>1. s.acc = r.acc /\ s.copy = r.copy /\ s.op = r.op /\ s.top = r.top /\ s.todo = r.todo
  OBVIOUS
<1> HIDE DEF s
<1>2. Cursor(s, S)
  BY <1>1, CursorSame
<1> QED BY <1>2, CursorIdle DEF Onward, s

LEMMA OneCursor ==
  ASSUME InboxSound, CursorInv, Settled \subseteq Settled', NEW p \in Process, NEW r,
         Cursor(r, Settled'), req' = [req EXCEPT ![p] = r],
         \A a \in Account: account'[a].last_uid = account[a].last_uid
                            \/ Covered(a, account'[a].last_uid, Settled')
  PROVE  CursorInv'
<1>1. \A q \in Process: req'[q] = r \/ req'[q] = req[q]
  BY DEF InboxSound
<1>2. \A q \in Process: Cursor(req'[q], Settled')
  BY <1>1 DEF CursorInv, Cursor, Covered
<1>3. \A a \in Account: Covered(a, account'[a].last_uid, Settled')
  BY DEF CursorInv, Covered
<1> QED BY <1>2, <1>3 DEF CursorInv

LEMMA CursorEnd ==
  ASSUME InboxSound, CursorInv, Settled \subseteq Settled', NEW p \in Process, End(p),
         \A a \in Account: account'[a].last_uid = account[a].last_uid
                            \/ Covered(a, account'[a].last_uid, Settled')
  PROVE  CursorInv'
<1>1. Cursor(Idle(req[p].acc), Settled')
  BY CursorIdle, SoundParts DEF Request
<1> QED BY <1>1, OneCursor DEF End

LEMMA CursorInit == InboxInit => CursorInv
<1> SUFFICES ASSUME InboxInit PROVE CursorInv
  OBVIOUS
<1>1. \A a \in Account: account[a].last_uid = 0
  BY DEF InboxInit
<1>2. \A p \in Process: Cursor(req[p], Settled)
  BY CursorIdle DEF InboxInit
<1> QED BY <1>1, <1>2, InboxConstants DEF CursorInv, Covered

LEMMA CursorStep ==
  InboxSound /\ InboxLocals /\ CursorInv /\ [InboxNext]_inboxVars => CursorInv'
<1> SUFFICES ASSUME InboxSound, InboxLocals, CursorInv, [InboxNext]_inboxVars PROVE CursorInv'
  OBVIOUS
<1> USE DEF mailStore
<1>g. Settled \subseteq Settled'
  BY SettledGrows
<1>a. \A p \in Process: /\ Cursor(req[p], Settled') /\ Local(req[p])
                        /\ req[p] \in Request
  BY <1>g, SoundParts DEF CursorInv, Cursor, Covered, InboxLocals
<1>b. \A a \in Account: Covered(a, account[a].last_uid, Settled')
  BY <1>g DEF CursorInv, Covered
<1>0. ASSUME req' = req, \A a \in Account: account'[a].last_uid = account[a].last_uid
      PROVE  CursorInv'
  BY <1>0, <1>a, <1>b DEF CursorInv
<1>1. ASSUME NEW a \in Account, Deliver(a) \/ DeleteAccount(a) PROVE CursorInv'
  BY <1>0, <1>1 DEF Deliver, DeleteAccount, InboxSound, InboxAccount
<1>2. ASSUME NEW d \in Doc, IgnoreMessage(d) PROVE CursorInv'
  BY <1>0, <1>2 DEF IgnoreMessage
<1>3. ASSUME NEW p \in Process, NEW a \in Account, StartSync(p, a) PROVE CursorInv'
  <2> DEFINE r == [Idle(a) EXCEPT !.pc = "connect", !.copy = account[a],
                                  !.top = account[a].last_uid, !.raced = Syncing(a) # {}]
             f == [q \in Process |-> IF q = p THEN r
                                     ELSE IF q \in Syncing(a) THEN [req[q] EXCEPT !.raced = TRUE]
                                     ELSE req[q]]
  <2>1. req' = f /\ account' = account
    BY <1>3 DEF StartSync
  <2>2. Cursor(r, Settled')
    BY <1>b DEF Cursor, Covered, Reached, Idle
  <2>3. \A q \in Process: Cursor([req[q] EXCEPT !.raced = TRUE], Settled')
    <3> TAKE q \in Process
    <3> DEFINE s == [req[q] EXCEPT !.raced = TRUE]
    <3>1. /\ s.acc = req[q].acc /\ s.copy = req[q].copy /\ s.op = req[q].op
          /\ s.top = req[q].top /\ s.todo = req[q].todo
      BY <1>a DEF Request
    <3> HIDE DEF s
    <3>2. Cursor(s, Settled')
      BY <1>a, <3>1, CursorSame
    <3> QED BY <3>2 DEF s
  <2>4. \A q \in Process: Cursor(f[q], Settled')
    <3> HIDE DEF r
    <3> QED BY <1>a, <2>2, <2>3
  <2> HIDE DEF f
  <2> QED BY <1>b, <2>1, <2>4 DEF CursorInv
<1>4. ASSUME NEW p \in Process, NEW a \in Account, EditAccount(p, a) PROVE CursorInv'
  <2> DEFINE r == [Idle(a) EXCEPT !.pc = "edit", !.op = "edit", !.copy = account[a]]
  <2>1. Cursor(r, Settled') /\ req' = [req EXCEPT ![p] = r] /\ account' = account
    BY <1>4, <1>b DEF EditAccount, Cursor, Idle
  <2> HIDE DEF r
  <2> QED BY <1>g, <2>1, OneCursor
<1>5. ASSUME NEW p \in Process, NEW m \in Mail, Ingest(p, m) PROVE CursorInv'
  <2> PICK auto \in BOOLEAN:
        req' = [req EXCEPT ![p] = [Idle(MailAccount[m]) EXCEPT !.pc = "look", !.op = "ingest",
                                     !.todo = {m}, !.copy.auto_apply = auto]]
    BY <1>5 DEF Ingest
  <2> DEFINE r == [Idle(MailAccount[m]) EXCEPT !.pc = "look", !.op = "ingest",
                                     !.todo = {m}, !.copy.auto_apply = auto]
  <2>1. Cursor(r, Settled') /\ req' = [req EXCEPT ![p] = r]
    BY InboxConstants DEF Cursor, Covered, Idle
  <2>2. account' = account
    BY <1>5 DEF Ingest
  <2> HIDE DEF r
  <2> QED BY <1>g, <2>1, <2>2, OneCursor
<1>6. ASSUME NEW p \in Process, NEW d \in Doc, ApplyByHand(p, d) PROVE CursorInv'
  <2> DEFINE r == [Idle(MailAccount[inbound[d].mail]) EXCEPT !.pc = "load", !.op = "hand", !.doc = d]
  <2>1. Cursor(r, Settled') /\ req' = [req EXCEPT ![p] = r] /\ account' = account
    BY <1>6, InboxConstants DEF ApplyByHand, Cursor, Covered, Idle
  <2> HIDE DEF r
  <2> QED BY <1>g, <2>1, OneCursor
<1>7. ASSUME NEW p \in Process, ConnectNotFound(p) \/ Break(p) PROVE CursorInv'
  BY <1>g, <1>7, CursorEnd DEF ConnectNotFound, Break
<1>8. ASSUME NEW p \in Process, SaveEdit(p) \/ FetchFails(p) \/ FinishSync(p) PROVE CursorInv'
  <2>1. End(p)
    BY <1>8 DEF SaveEdit, FetchFails, FinishSync
  <2>2. \A a \in Account: \/ account'[a] = account[a]
                          \/ a = req[p].acc /\ account'[a].last_uid = req[p].copy.last_uid
                          \/ a = req[p].acc /\ FinishSync(p) /\ account'[a].last_uid = req[p].top
    <3>1. CASE SaveEdit(p)
      <4> PICK on \in BOOLEAN:
            account' = [account EXCEPT ![req[p].acc] = [req[p].copy EXCEPT !.auto_apply = on]]
        BY <3>1 DEF SaveEdit
      <4> DEFINE rec == [req[p].copy EXCEPT !.auto_apply = on]
      <4>1. rec.last_uid = req[p].copy.last_uid
        BY <1>a DEF Request, InboxAccount
      <4>2. account' = [account EXCEPT ![req[p].acc] = rec]
        OBVIOUS
      <4> HIDE DEF rec
      <4>3. account \in [Account -> InboxAccount]
        BY DEF InboxSound
      <4>4. \A a \in Account: account'[a] = IF a = req[p].acc THEN rec ELSE account[a]
        BY <4>2, <4>3
      <4> QED BY <4>1, <4>4
    <3>2. CASE FetchFails(p)
      <4>1. account' = [account EXCEPT ![req[p].acc] = req[p].copy]
        BY <3>2 DEF FetchFails, SaveAccount
      <4>2. account \in [Account -> InboxAccount]
        BY DEF InboxSound
      <4>3. \A a \in Account: account'[a] = IF a = req[p].acc THEN req[p].copy ELSE account[a]
        BY <4>1, <4>2
      <4> QED BY <4>3
    <3>3. CASE FinishSync(p)
      <4> DEFINE rec == [req[p].copy EXCEPT !.last_uid = req[p].top]
      <4>1. account' = [account EXCEPT ![req[p].acc] = rec]
        BY <3>3 DEF FinishSync, SaveAccount
      <4>2. rec.last_uid = req[p].top
        BY <1>a DEF Request, InboxAccount
      <4> HIDE DEF rec
      <4>3. account \in [Account -> InboxAccount]
        BY DEF InboxSound
      <4>4. \A a \in Account: account'[a] = IF a = req[p].acc THEN rec ELSE account[a]
        BY <4>1, <4>3
      <4> QED BY <3>3, <4>2, <4>4
    <3> QED BY <1>8, <3>1, <3>2, <3>3
  <2>3. FinishSync(p) => Covered(req[p].acc, req[p].top, Settled')
    <3> SUFFICES ASSUME FinishSync(p) PROVE Covered(req[p].acc, req[p].top, Settled')
      OBVIOUS
    <3>1. req[p].todo = {} /\ req[p].op = "sync"
      BY <1>a DEF FinishSync, Local
    <3> QED BY <1>a, <3>1 DEF Cursor, Covered, Reached
  <2>4. Covered(req[p].acc, req[p].copy.last_uid, Settled') /\ req[p].acc \in Account
    BY <1>a DEF Cursor, Request
  <2>5. \A a \in Account: account'[a].last_uid = account[a].last_uid
                           \/ Covered(a, account'[a].last_uid, Settled')
    BY <2>2, <2>3, <2>4 DEF InboxSound
  <2> QED BY <1>g, <2>1, <2>5, CursorEnd
<1>9. ASSUME NEW p \in Process, Fetch(p) PROVE CursorInv'
  <2> PICK got \in SUBSET Window(req[p].acc, req[p].copy.last_uid):
        /\ req' = [req EXCEPT ![p].pc = "look", ![p].todo = got]
        /\ history' = [history EXCEPT !.missed =
                         @ \union (Newer(req[p].acc, req[p].copy.last_uid) \ got)]
    BY <1>9 DEF Fetch
  <2> DEFINE r == [req[p] EXCEPT !.pc = "look", !.todo = got]
             newer == Newer(req[p].acc, req[p].copy.last_uid)
  <2>1. Local(req[p]) /\ req[p].pc = "connect" /\ req[p] \in Request /\ account' = account
    BY <1>9, <1>a DEF Fetch
  <2>2. /\ r.acc = req[p].acc /\ r.copy = req[p].copy /\ r.op = "sync" /\ r.todo = got
        /\ r.top = req[p].copy.last_uid /\ req[p].copy.last_uid \in Nat
    BY <2>1 DEF Local, Request, InboxAccount
  <2>3. newer \ got \subseteq Settled'
    <3>1. newer \ got \subseteq history'.missed
      BY DEF InboxSound
    <3> QED BY <3>1 DEF Settled, Newer
  <2>4. \A m \in got: m \in Mail /\ MailUid[m] <= delivered[req[p].acc]
    BY DEF Window, Newer
  <2>5. delivered[req[p].acc] \in Nat
    BY <2>1 DEF InboxSound, Request
  <2>6. ASSUME NEW n \in Mail, MailAccount[n] = req[p].acc, NEW m \in got, MailUid[n] <= MailUid[m]
        PROVE  n \in Settled' \/ n \in got
    <3>1. MailUid[n] \in Nat /\ MailUid[m] \in Nat
      BY <2>4, InboxConstants
    <3>2. CASE MailUid[n] <= req[p].copy.last_uid
      BY <1>a, <2>6, <3>2 DEF Cursor, Covered
    <3>3. CASE req[p].copy.last_uid < MailUid[n]
      <4>1. n \in newer
        BY <2>4, <2>5, <2>6, <3>1, <3>3 DEF Newer
      <4> QED BY <2>3, <4>1
    <3> QED BY <2>2, <3>1, <3>2, <3>3
  <2>7. req' = [req EXCEPT ![p] = r]
    OBVIOUS
  <2> HIDE DEF r, newer
  <2>8. Cursor(r, Settled')
    BY <1>a, <2>2, <2>6 DEF Cursor, Covered, Reached
  <2> QED BY <1>g, <2>1, <2>7, <2>8, OneCursor
<1>10. ASSUME NEW p \in Process, Look(p) PROVE CursorInv'
  <2> PICK m \in First(req[p].todo):
        LET r == [req[p] EXCEPT !.top = IF @ < MailUid[m] THEN MailUid[m] ELSE @]
         IN  req' = [req EXCEPT ![p] = IF Known(MessageId[m])
                                       THEN Onward(p, [r EXCEPT !.todo = @ \ {m}])
                                       ELSE [r EXCEPT !.pc = "insert"]]
    BY <1>10 DEF Look
  <2> DEFINE top == IF req[p].top < MailUid[m] THEN MailUid[m] ELSE req[p].top
             r == [req[p] EXCEPT !.top = top]
             s == [r EXCEPT !.todo = @ \ {m}]
             next == IF Known(MessageId[m]) THEN Onward(p, s) ELSE [r EXCEPT !.pc = "insert"]
  <2>1. Cursor(req[p], Settled') /\ req[p] \in Request /\ req[p].pc = "look" /\ account' = account
    BY <1>10, <1>a DEF Look
  <2>2. m \in Mail /\ m \in req[p].todo /\ req[p].acc \in Account
    BY <2>1 DEF First, Request
  <2>3. req' = [req EXCEPT ![p] = next]
    OBVIOUS
  <2>4. \A n \in Mail: MailUid[n] <= top => MailUid[n] <= req[p].top \/ MailUid[n] <= MailUid[m]
    OBVIOUS
  <2> HIDE DEF top
  <2>5. /\ r.acc = req[p].acc /\ r.copy = req[p].copy /\ r.op = req[p].op
        /\ r.todo = req[p].todo /\ r.top = top
    BY <2>1 DEF Request
  <2>6. Cursor(r, Settled')
    <3> HIDE DEF r
    <3> QED BY <2>1, <2>2, <2>4, <2>5 DEF Cursor, Reached
  <2>7. CASE Known(MessageId[m])
    <3>1. m \in Settled'
      BY <1>g, <2>2, <2>7 DEF Settled
    <3>2. /\ s.acc = r.acc /\ s.copy = r.copy /\ s.op = r.op
          /\ s.todo = r.todo \ {m} /\ s.top = r.top
      BY <2>1 DEF Request
    <3> HIDE DEF r
    <3>3. Cursor(s, Settled')
      <4> HIDE DEF s
      <4> QED BY <2>6, <3>1, <3>2 DEF Cursor, Reached
    <3>4. Cursor(Onward(p, s), Settled') /\ next = Onward(p, s)
      BY <2>1, <2>2, <2>5, <2>7, <3>2, <3>3, CursorIdle, OnwardCursor
    <3> HIDE DEF next, s
    <3> QED BY <1>g, <2>1, <2>3, <3>4, OneCursor
  <2>8. CASE ~Known(MessageId[m])
    <3> DEFINE i == [r EXCEPT !.pc = "insert"]
    <3>1. /\ i.acc = r.acc /\ i.copy = r.copy /\ i.op = r.op
          /\ i.todo = r.todo /\ i.top = r.top
      BY <2>1 DEF Request
    <3>2. next = i
      BY <2>8
    <3> HIDE DEF r, i, next
    <3>3. Cursor(i, Settled')
      BY <2>6, <3>1, CursorSame
    <3> QED BY <1>g, <2>1, <2>3, <3>2, <3>3, OneCursor
  <2> QED BY <2>7, <2>8
<1>11. ASSUME NEW p \in Process, Insert(p) PROVE CursorInv'
  <2>1. PICK m \in First(req[p].todo): \E j \in MatchJob(m):
        LET next == [req[p] EXCEPT !.todo = @ \ {m}, !.doc = Len(inbound) + 1]
        IN  /\ inbound' = Append(inbound, [mail |-> m, status |-> "pending", job |-> j,
                                           by |-> p, auto |-> req[p].copy.auto_apply])
            /\ req' = [req EXCEPT ![p] = IF req[p].copy.auto_apply /\ MailEvent[m] # "other"
                                         THEN [next EXCEPT !.pc = "load"] ELSE Onward(p, next)]
    BY <1>11 DEF Insert
  <2> DEFINE s == [req[p] EXCEPT !.todo = @ \ {m}, !.doc = Len(inbound) + 1]
             then == IF req[p].copy.auto_apply /\ MailEvent[m] # "other"
                     THEN [s EXCEPT !.pc = "load"] ELSE Onward(p, s)
  <2>2. Cursor(req[p], Settled') /\ req[p] \in Request /\ account' = account
    BY <1>11, <1>a DEF Insert
  <2>3. m \in Mail /\ req[p].acc \in Account
    BY <2>2 DEF First, Request
  <2>4. m \in Settled'
    <3>1. Len(inbound) + 1 \in Doc' /\ inbound'[Len(inbound) + 1].mail = m
      BY <2>1, SoundParts DEF Doc
    <3>2. Known(MessageId[m])'
      BY <3>1 DEF Known
    <3> QED BY <2>3, <3>2 DEF Settled
  <2>5. /\ s.acc = req[p].acc /\ s.copy = req[p].copy /\ s.op = req[p].op
        /\ s.todo = req[p].todo \ {m} /\ s.top = req[p].top
    BY <2>2 DEF Request
  <2>6. Cursor(s, Settled')
    <3> HIDE DEF s
    <3> QED BY <2>2, <2>4, <2>5 DEF Cursor, Reached
  <2>7. Cursor([s EXCEPT !.pc = "load"], Settled')
    <3> DEFINE l == [s EXCEPT !.pc = "load"]
    <3>1. l.acc = s.acc /\ l.copy = s.copy /\ l.op = s.op /\ l.todo = s.todo /\ l.top = s.top
      BY <2>2 DEF Request
    <3> HIDE DEF l, s
    <3>2. Cursor(l, Settled')
      BY <2>6, <3>1, CursorSame
    <3> QED BY <3>2 DEF l
  <2>8. Cursor(Onward(p, s), Settled')
    BY <2>3, <2>5, <2>6, CursorIdle, OnwardCursor
  <2>9. req' = [req EXCEPT ![p] = then] /\ Cursor(then, Settled')
    BY <2>1, <2>7, <2>8
  <2> HIDE DEF then
  <2> QED BY <1>g, <2>2, <2>9, OneCursor
<1>12. ASSUME NEW p \in Process, LoadMessage(p) PROVE CursorInv'
  <2> PICK j, s: req' = [req EXCEPT ![p].pc = "effect", ![p].job = j, ![p].seen = s]
    BY <1>12 DEF LoadMessage
  <2> DEFINE r == [req[p] EXCEPT !.pc = "effect", !.job = j, !.seen = s]
  <2>1. /\ r.acc = req[p].acc /\ r.copy = req[p].copy /\ r.op = req[p].op
        /\ r.todo = req[p].todo /\ r.top = req[p].top
    BY <1>a DEF Request
  <2>2. req' = [req EXCEPT ![p] = r] /\ account' = account
    BY <1>12 DEF LoadMessage
  <2> HIDE DEF r
  <2> QED BY <1>a, <1>g, <2>1, <2>2, CursorSame, OneCursor
<1>13. ASSUME NEW p \in Process, CreateJob(p) PROVE CursorInv'
  <2> PICK j: req' = [req EXCEPT ![p].pc = "mark", ![p].job = j]
    BY <1>13 DEF CreateJob
  <2> DEFINE r == [req[p] EXCEPT !.pc = "mark", !.job = j]
  <2>1. /\ r.acc = req[p].acc /\ r.copy = req[p].copy /\ r.op = req[p].op
        /\ r.todo = req[p].todo /\ r.top = req[p].top
    BY <1>a DEF Request
  <2>2. req' = [req EXCEPT ![p] = r] /\ account' = account
    BY <1>13 DEF CreateJob
  <2> HIDE DEF r
  <2> QED BY <1>a, <1>g, <2>1, <2>2, CursorSame, OneCursor
<1>14. ASSUME NEW p \in Process, SaveJob(p) \/ SkipJob(p) \/ Remind(p) PROVE CursorInv'
  <2>1. account' = account
    BY <1>14 DEF SaveJob, SkipJob, Remind
  <2>2. PICK pc \in {"remind", "mark"}: Go(p, pc)
    BY <1>14 DEF SaveJob, SkipJob, Remind
  <2> DEFINE r == [req[p] EXCEPT !.pc = pc]
  <2>3. /\ r.acc = req[p].acc /\ r.copy = req[p].copy /\ r.op = req[p].op
        /\ r.todo = req[p].todo /\ r.top = req[p].top
    BY <1>a DEF Request
  <2>4. req' = [req EXCEPT ![p] = r]
    BY <2>2 DEF Go
  <2> HIDE DEF r
  <2> QED BY <1>a, <1>g, <2>1, <2>3, <2>4, CursorSame, OneCursor
<1>15. ASSUME NEW p \in Process, MarkApplied(p) PROVE CursorInv'
  <2>1. account' = account /\ req' = [req EXCEPT ![p] = Onward(p, req[p])]
    BY <1>15 DEF MarkApplied
  <2>2. Cursor(Onward(p, req[p]), Settled')
    BY <1>a, OnwardCursor DEF Request
  <2> QED BY <1>g, <2>1, <2>2, OneCursor
<1>16. CASE InboxNext
  BY <1>16, <1>1, <1>2, <1>3, <1>4, <1>5, <1>6, <1>7, <1>8, <1>9, <1>10, <1>11, <1>12, <1>13,
     <1>14, <1>15 DEF InboxNext
<1>17. CASE UNCHANGED inboxVars
  BY <1>0, <1>17 DEF inboxVars
<1> QED BY <1>16, <1>17

(* How a request comes to its insertion, and to the handling of a mail.    *)
Kept(r, s) == /\ s.acc = r.acc /\ s.copy = r.copy /\ s.op = r.op /\ s.top = r.top
              /\ s.todo = r.todo /\ s.doc = r.doc /\ (r.raced => s.raced)
Reaches(q) ==
    \/ req'[q].pc = req[q].pc /\ Kept(req[q], req'[q])
    \/ req'[q].pc \in {"idle", "connect", "look", "edit"}
    \/ req'[q].pc \in Handling /\ req[q].pc \in Handling /\ Kept(req[q], req'[q])
    \/ /\ Look(q) /\ req'[q].pc = "insert" /\ req'[q].todo = req[q].todo
       /\ \A m \in First(req[q].todo): ~Known(MessageId[m])
       /\ req'[q].acc = req[q].acc /\ req'[q].op = req[q].op /\ req'[q].raced = req[q].raced
    \/ /\ Insert(q) /\ req'[q].pc = "load" /\ req'[q].doc = Len(inbound) + 1
       /\ req'[q].acc = req[q].acc /\ req'[q].op = req[q].op /\ req'[q].top = req[q].top
       /\ req'[q].raced = req[q].raced
       /\ inbound'[Len(inbound) + 1].mail \in First(req[q].todo)
       /\ req'[q].todo = req[q].todo \ {inbound'[Len(inbound) + 1].mail}
    \/ req'[q].pc = "load" /\ req'[q].op = "hand"

LEMMA Uniform ==
  ASSUME InboxSound, InboxLocals, NEW p \in Process, NEW m \in First(req[p].todo)
  PROVE  \A n \in First(req[p].todo): n = m
<1>1. req[p].todo \subseteq Mail /\ \A n \in req[p].todo: MailAccount[n] = req[p].acc
  BY SoundParts DEF InboxLocals, Local, Request
<1>2. \A n \in First(req[p].todo): MailUid[n] = MailUid[m] /\ n \in Mail /\ MailAccount[n] = MailAccount[m]
  BY <1>1, InboxConstants DEF First
<1>3. m \in Mail
  BY <1>2
<1> QED BY <1>2, <1>3, InboxAssumption DEF InboxAssumption

LEMMA OneReaches ==
  ASSUME InboxSound, NEW p \in Process, NEW r, req' = [req EXCEPT ![p] = r],
         r = req'[p] => Reaches(p)
  PROVE  \A q \in Process: Reaches(q)
BY DEF InboxSound, Reaches, Kept

LEMMA Reaching ==
  ASSUME InboxSound, InboxLocals, [InboxNext]_inboxVars
  PROVE  \A q \in Process: Reaches(q)
<1> USE DEF mailStore
<1>0. ASSUME req' = req PROVE \A q \in Process: Reaches(q)
  BY <1>0 DEF Reaches, Kept
<1>1. ASSUME NEW a \in Account, Deliver(a) \/ DeleteAccount(a) PROVE \A q \in Process: Reaches(q)
  BY <1>0, <1>1 DEF Deliver, DeleteAccount
<1>2. ASSUME NEW d \in Doc, IgnoreMessage(d) PROVE \A q \in Process: Reaches(q)
  BY <1>0, <1>2 DEF IgnoreMessage
<1>3. ASSUME NEW p \in Process, NEW a \in Account, StartSync(p, a)
      PROVE  \A q \in Process: Reaches(q)
  <2> TAKE q \in Process
  <2>1. req'[p].pc = "connect"
    BY <1>3 DEF StartSync, Idle
  <2>2. CASE q = p
    BY <2>1, <2>2 DEF Reaches
  <2>3. CASE q # p
    <3>1. req'[q] = [req[q] EXCEPT !.raced = TRUE] \/ req'[q] = req[q]
      BY <1>3, <2>3 DEF StartSync
    <3>2. req[q] \in Request
      BY SoundParts
    <3> QED BY <3>1, <3>2 DEF Reaches, Kept, Request
  <2> QED BY <2>2, <2>3
<1>4. ASSUME NEW p \in Process,
             \/ \E a \in Account: EditAccount(p, a)
             \/ \E m \in Mail: Ingest(p, m)
             \/ Fetch(p) \/ ConnectNotFound(p) \/ FetchFails(p) \/ FinishSync(p) \/ SaveEdit(p)
             \/ Break(p)
      PROVE  \A q \in Process: Reaches(q)
  <2>1. PICK r: req' = [req EXCEPT ![p] = r]
    BY <1>4 DEF EditAccount, Ingest, Fetch, ConnectNotFound, FetchFails, FinishSync, SaveEdit,
                Break, End
  <2>2. CASE \E a \in Account: EditAccount(p, a)
    <3>1. req'[p].pc = "edit"
      BY <2>2 DEF EditAccount, Idle, InboxSound
    <3> QED BY <2>1, <3>1, OneReaches DEF Reaches
  <2>3. CASE \E m \in Mail: Ingest(p, m)
    <3>1. req'[p].pc = "look"
      BY <2>3 DEF Ingest, Idle, InboxSound
    <3> QED BY <2>1, <3>1, OneReaches DEF Reaches
  <2>4. CASE Fetch(p)
    <3>1. req'[p].pc = "look"
      BY <2>4, SoundParts DEF Fetch, Request, InboxSound
    <3> QED BY <2>1, <3>1, OneReaches DEF Reaches
  <2>5. CASE ConnectNotFound(p) \/ FetchFails(p) \/ FinishSync(p) \/ SaveEdit(p) \/ Break(p)
    <3>1. req'[p].pc = "idle"
      BY <2>5 DEF ConnectNotFound, FetchFails, FinishSync, SaveEdit, Break, End, Idle, InboxSound
    <3> QED BY <2>1, <3>1, OneReaches DEF Reaches
  <2> QED BY <1>4, <2>2, <2>3, <2>4, <2>5
<1>5. ASSUME NEW p \in Process, NEW d \in Doc, ApplyByHand(p, d)
      PROVE  \A q \in Process: Reaches(q)
  <2>1. PICK r: req' = [req EXCEPT ![p] = r]
    BY <1>5 DEF ApplyByHand
  <2>2. req'[p].pc = "load" /\ req'[p].op = "hand"
    BY <1>5 DEF ApplyByHand, Idle, InboxSound
  <2> QED BY <2>1, <2>2, OneReaches DEF Reaches
<1>6. ASSUME NEW p \in Process, Look(p) PROVE \A q \in Process: Reaches(q)
  <2> PICK m \in First(req[p].todo):
        LET r == [req[p] EXCEPT !.top = IF @ < MailUid[m] THEN MailUid[m] ELSE @]
         IN  req' = [req EXCEPT ![p] = IF Known(MessageId[m])
                                       THEN Onward(p, [r EXCEPT !.todo = @ \ {m}])
                                       ELSE [r EXCEPT !.pc = "insert"]]
    BY <1>6 DEF Look
  <2> DEFINE r == [req[p] EXCEPT !.top = IF @ < MailUid[m] THEN MailUid[m] ELSE @]
             s == [r EXCEPT !.todo = @ \ {m}]
  <2>1. CASE Known(MessageId[m])
    <3>1. req' = [req EXCEPT ![p] = Onward(p, s)]
      BY <2>1
    <3>2. Onward(p, s).pc \in {"look", "idle"}
      BY SoundParts DEF Onward, Idle, Request
    <3> DEFINE o == Onward(p, s)
    <3> HIDE DEF o
    <3>3. req' = [req EXCEPT ![p] = o] /\ o.pc \in {"look", "idle"}
      BY <3>1, <3>2 DEF o
    <3>4. req'[p] = o
      BY <3>3 DEF InboxSound
    <3> QED BY <3>3, <3>4, OneReaches DEF Reaches
  <2>2. CASE ~Known(MessageId[m])
    <3> DEFINE i == [r EXCEPT !.pc = "insert"]
    <3>1. req' = [req EXCEPT ![p] = i]
      BY <2>2
    <3>2. /\ i.pc = "insert" /\ i.todo = req[p].todo /\ i.acc = req[p].acc /\ i.op = req[p].op
          /\ i.raced = req[p].raced
      BY SoundParts DEF Request
    <3>3. \A n \in First(req[p].todo): ~Known(MessageId[n])
      BY <2>2, Uniform
    <3> HIDE DEF i
    <3>4. req'[p] = i
      BY <3>1 DEF InboxSound
    <3> QED BY <1>6, <3>1, <3>2, <3>3, <3>4, OneReaches DEF Reaches
  <2> QED BY <2>1, <2>2
<1>7. ASSUME NEW p \in Process, Insert(p) PROVE \A q \in Process: Reaches(q)
  <2>1. PICK m \in First(req[p].todo): \E j \in MatchJob(m):
        LET next == [req[p] EXCEPT !.todo = @ \ {m}, !.doc = Len(inbound) + 1]
        IN  /\ inbound' = Append(inbound, [mail |-> m, status |-> "pending", job |-> j,
                                           by |-> p, auto |-> req[p].copy.auto_apply])
            /\ req' = [req EXCEPT ![p] = IF req[p].copy.auto_apply /\ MailEvent[m] # "other"
                                         THEN [next EXCEPT !.pc = "load"] ELSE Onward(p, next)]
    BY <1>7 DEF Insert
  <2> DEFINE s == [req[p] EXCEPT !.todo = @ \ {m}, !.doc = Len(inbound) + 1]
             l == [s EXCEPT !.pc = "load"]
             then == IF req[p].copy.auto_apply /\ MailEvent[m] # "other" THEN l ELSE Onward(p, s)
  <2>2. req' = [req EXCEPT ![p] = then]
    BY <2>1
  <2>3. inbound'[Len(inbound) + 1].mail = m
    BY <2>1, SoundParts
  <2>4. /\ l.pc = "load" /\ l.doc = Len(inbound) + 1 /\ l.acc = req[p].acc /\ l.op = req[p].op
        /\ l.top = req[p].top /\ l.todo = req[p].todo \ {m} /\ l.raced = req[p].raced
    BY SoundParts DEF Request
  <2>5. Onward(p, s).pc \in {"look", "idle"}
    BY SoundParts DEF Onward, Idle, Request
  <2> HIDE DEF l, s
  <2>6. then = l \/ then.pc \in {"look", "idle"}
    BY <2>5
  <2> HIDE DEF then
  <2>7. req'[p] = then
    BY <2>2 DEF InboxSound
  <2> QED BY <1>7, <2>2, <2>3, <2>4, <2>6, <2>7, OneReaches DEF Reaches
<1>8. ASSUME NEW p \in Process,
             LoadMessage(p) \/ SaveJob(p) \/ CreateJob(p) \/ SkipJob(p) \/ Remind(p)
      PROVE  \A q \in Process: Reaches(q)
  <2>1. req[p].pc \in Handling /\ req[p] \in Request
    BY <1>8, SoundParts DEF LoadMessage, SaveJob, CreateJob, SkipJob, Remind, Handling
  <2>2. PICK r: req' = [req EXCEPT ![p] = r] /\ r.pc \in Handling /\ Kept(req[p], r)
    <3>1. CASE LoadMessage(p)
      <4> PICK j, s: req' = [req EXCEPT ![p].pc = "effect", ![p].job = j, ![p].seen = s]
        BY <3>1 DEF LoadMessage
      <4> DEFINE r == [req[p] EXCEPT !.pc = "effect", !.job = j, !.seen = s]
      <4>1. r.pc \in Handling /\ Kept(req[p], r)
        BY <2>1 DEF Request, Handling, Kept
      <4>2. req' = [req EXCEPT ![p] = r]
        OBVIOUS
      <4> HIDE DEF r
      <4> QED BY <4>1, <4>2
    <3>2. CASE CreateJob(p)
      <4> PICK j \in Job: req' = [req EXCEPT ![p].pc = "mark", ![p].job = j]
        BY <3>2 DEF CreateJob
      <4> DEFINE r == [req[p] EXCEPT !.pc = "mark", !.job = j]
      <4>1. r.pc \in Handling /\ Kept(req[p], r)
        BY <2>1 DEF Request, Handling, Kept
      <4>2. req' = [req EXCEPT ![p] = r]
        OBVIOUS
      <4> HIDE DEF r
      <4> QED BY <4>1, <4>2
    <3>3. CASE SaveJob(p) \/ SkipJob(p) \/ Remind(p)
      <4> PICK pc \in {"remind", "mark"}: Go(p, pc)
        BY <3>3 DEF SaveJob, SkipJob, Remind
      <4> DEFINE r == [req[p] EXCEPT !.pc = pc]
      <4>1. r.pc \in Handling /\ Kept(req[p], r)
        BY <2>1 DEF Request, Handling, Kept
      <4>2. req' = [req EXCEPT ![p] = r]
        BY DEF Go
      <4> HIDE DEF r
      <4> QED BY <4>1, <4>2
    <3> QED BY <1>8, <3>1, <3>2, <3>3
  <2>3. req'[p] = r
    BY <2>2 DEF InboxSound
  <2> QED BY <2>1, <2>2, <2>3, OneReaches DEF Reaches
<1>9. ASSUME NEW p \in Process, MarkApplied(p) PROVE \A q \in Process: Reaches(q)
  <2>1. req' = [req EXCEPT ![p] = Onward(p, req[p])]
    BY <1>9 DEF MarkApplied
  <2>2. Onward(p, req[p]).pc \in {"look", "idle"}
    BY SoundParts DEF Onward, Idle, Request
  <2>3. req'[p] = Onward(p, req[p])
    BY <2>1 DEF InboxSound
  <2> QED BY <2>1, <2>2, <2>3, OneReaches DEF Reaches
<1>10. CASE InboxNext
  BY <1>10, <1>1, <1>2, <1>3, <1>4, <1>5, <1>6, <1>7, <1>8, <1>9 DEF InboxNext
<1>11. CASE UNCHANGED inboxVars
  BY <1>0, <1>11 DEF inboxVars
<1> QED BY <1>10, <1>11

(* A request is moved by its own steps only, StartSync apart.               *)
LEMMA OthersStay ==
  ASSUME InboxSound, NEW q \in Process
  PROVE  \A p \in Process:
        \/ (\E a \in Account: EditAccount(p, a)) \/ (\E m \in Mail: Ingest(p, m))
        \/ (\E d \in Doc: ApplyByHand(p, d))
        \/ SaveEdit(p) \/ ConnectNotFound(p) \/ Fetch(p) \/ FetchFails(p) \/ Look(p)
        \/ Insert(p) \/ FinishSync(p) \/ LoadMessage(p) \/ SaveJob(p) \/ CreateJob(p)
        \/ SkipJob(p) \/ Remind(p) \/ MarkApplied(p) \/ Break(p)
        => p = q \/ req'[q] = req[q]
<1> TAKE p \in Process
<1>0. ASSUME NEW r, req' = [req EXCEPT ![p] = r] PROVE p = q \/ req'[q] = req[q]
  BY <1>0 DEF InboxSound
<1>1. (\E a \in Account: EditAccount(p, a)) => \E r: req' = [req EXCEPT ![p] = r]
  BY DEF EditAccount
<1>2. (\E m \in Mail: Ingest(p, m)) => \E r: req' = [req EXCEPT ![p] = r]
  BY DEF Ingest
<1>3. (\E d \in Doc: ApplyByHand(p, d)) => \E r: req' = [req EXCEPT ![p] = r]
  BY DEF ApplyByHand
<1>4. SaveEdit(p) \/ ConnectNotFound(p) \/ FetchFails(p) \/ FinishSync(p) \/ Break(p)
        => \E r: req' = [req EXCEPT ![p] = r]
  BY DEF SaveEdit, ConnectNotFound, FetchFails, FinishSync, Break, End
<1>5. SaveJob(p) \/ SkipJob(p) \/ Remind(p) => \E r: req' = [req EXCEPT ![p] = r]
  BY DEF SaveJob, SkipJob, Remind, Go
<1>6. Fetch(p) \/ LoadMessage(p) \/ CreateJob(p) => \E r: req' = [req EXCEPT ![p] = r]
  BY DEF Fetch, LoadMessage, CreateJob
<1>7. Look(p) \/ Insert(p) \/ MarkApplied(p) => \E r: req' = [req EXCEPT ![p] = r]
  BY DEF Look, Insert, MarkApplied
<1> QED BY <1>0, <1>1, <1>2, <1>3, <1>4, <1>5, <1>6, <1>7

(* How a request leaves the handling of a mail.                            *)
LEMMA Leaving ==
  ASSUME InboxSound, InboxLocals, [InboxNext]_inboxVars, NEW q \in Process, req[q].pc \in Handling
  PROVE  \/ req'[q].pc \in Handling /\ Kept(req[q], req'[q])
         \/ MarkApplied(q) \/ Break(q)
<1> DEFINE Goal == \/ req'[q].pc \in Handling /\ Kept(req[q], req'[q])
                   \/ MarkApplied(q) \/ Break(q)
<1> USE DEF mailStore
<1>0. ASSUME req'[q] = req[q] PROVE Goal
  BY <1>0 DEF Kept
<1>1. ASSUME NEW p \in Process, NEW a \in Account, StartSync(p, a) PROVE Goal
  <2>1. q # p
    BY <1>1 DEF StartSync, Handling
  <2>2. req'[q] = [req[q] EXCEPT !.raced = TRUE] \/ req'[q] = req[q]
    BY <1>1, <2>1 DEF StartSync
  <2> QED BY <2>2, SoundParts DEF Kept, Request
<1>3. ASSUME \/ \E a \in Account: EditAccount(q, a)
             \/ \E m \in Mail: Ingest(q, m)
             \/ \E d \in Doc: ApplyByHand(q, d)
             \/ SaveEdit(q) \/ ConnectNotFound(q) \/ Fetch(q) \/ FetchFails(q) \/ Look(q)
             \/ Insert(q) \/ FinishSync(q)
      PROVE  FALSE
  BY <1>3 DEF EditAccount, Ingest, ApplyByHand, SaveEdit, ConnectNotFound, Fetch, FetchFails,
              Look, Insert, FinishSync, Handling
<1>4. ASSUME \/ LoadMessage(q) \/ SaveJob(q) \/ CreateJob(q) \/ SkipJob(q) \/ Remind(q)
      PROVE  Goal
  <2>1. Reaches(q)
    BY Reaching
  <2>2. req'[q].pc \in {"effect", "remind", "mark"}
    <3>1. CASE LoadMessage(q)
      BY <3>1, SoundParts DEF LoadMessage, InboxSound, Request
    <3>2. CASE CreateJob(q)
      BY <3>2, SoundParts DEF CreateJob, InboxSound, Request
    <3>3. CASE SaveJob(q) \/ SkipJob(q) \/ Remind(q)
      <4> PICK pc \in {"remind", "mark"}: Go(q, pc)
        BY <3>3 DEF SaveJob, SkipJob, Remind
      <4> QED BY SoundParts DEF Go, InboxSound, Request
    <3> QED BY <1>4, <3>1, <3>2, <3>3
  <2> QED BY <2>1, <2>2 DEF Reaches, Handling
<1>5. ASSUME \/ \E a \in Account: Deliver(a) \/ DeleteAccount(a)
             \/ \E d \in Doc: IgnoreMessage(d)
             \/ UNCHANGED inboxVars
      PROVE  req' = req
  BY <1>5 DEF Deliver, DeleteAccount, IgnoreMessage, inboxVars
<1> QED BY <1>0, <1>1, <1>3, <1>4, <1>5, OthersStay DEF InboxNext

LEMMA MailsAdded ==
  ASSUME InboxSound, InboxLocals, [InboxNext]_inboxVars
  PROVE  \/ Doc' = Doc
         \/ \E p \in Process:
              /\ Insert(p) /\ req'[p].pc # "insert"
              /\ Doc' = Doc \union {Len(inbound) + 1}
              /\ inbound'[Len(inbound) + 1].by = p
              /\ inbound'[Len(inbound) + 1].mail \in First(req[p].todo)
              /\ \/ inbound'[Len(inbound) + 1].auto = FALSE
                 \/ MailEvent[inbound'[Len(inbound) + 1].mail] = "other"
                 \/ /\ req'[p].pc = "load" /\ req'[p].doc = Len(inbound) + 1
                    /\ req'[p].op = req[p].op
<1> USE DEF mailStore
<1>1. ASSUME NEW p \in Process, Insert(p)
      PROVE  /\ Insert(p) /\ req'[p].pc # "insert"
             /\ Doc' = Doc \union {Len(inbound) + 1}
             /\ inbound'[Len(inbound) + 1].by = p
             /\ inbound'[Len(inbound) + 1].mail \in First(req[p].todo)
             /\ \/ inbound'[Len(inbound) + 1].auto = FALSE
                \/ MailEvent[inbound'[Len(inbound) + 1].mail] = "other"
                \/ /\ req'[p].pc = "load" /\ req'[p].doc = Len(inbound) + 1
                   /\ req'[p].op = req[p].op
  <2>1. PICK m \in First(req[p].todo): \E j \in MatchJob(m):
        LET next == [req[p] EXCEPT !.todo = @ \ {m}, !.doc = Len(inbound) + 1]
        IN  /\ inbound' = Append(inbound, [mail |-> m, status |-> "pending", job |-> j,
                                           by |-> p, auto |-> req[p].copy.auto_apply])
            /\ req' = [req EXCEPT ![p] = IF req[p].copy.auto_apply /\ MailEvent[m] # "other"
                                         THEN [next EXCEPT !.pc = "load"] ELSE Onward(p, next)]
    BY <1>1 DEF Insert
  <2> DEFINE s == [req[p] EXCEPT !.todo = @ \ {m}, !.doc = Len(inbound) + 1]
             l == [s EXCEPT !.pc = "load"]
             auto == req[p].copy.auto_apply
             then == IF auto /\ MailEvent[m] # "other" THEN l ELSE Onward(p, s)
             new == inbound'[Len(inbound) + 1]
  <2>2. req' = [req EXCEPT ![p] = then]
    BY <2>1
  <2>3. new.mail = m /\ new.by = p /\ new.auto = auto /\ Len(inbound') = Len(inbound) + 1
    BY <2>1, SoundParts
  <2>4. Doc' = Doc \union {Len(inbound) + 1}
    BY <2>3, SoundParts DEF Doc
  <2>5. l.pc = "load" /\ l.doc = Len(inbound) + 1 /\ l.op = req[p].op
    BY SoundParts DEF Request
  <2>6. Onward(p, s).pc \in {"look", "idle"}
    BY SoundParts DEF Onward, Idle, Request
  <2>7. req[p].copy.auto_apply \in BOOLEAN
    BY SoundParts DEF Request, InboxAccount
  <2> HIDE DEF l, s, new
  <2>8. IF auto /\ MailEvent[m] # "other" THEN then = l ELSE then.pc \in {"look", "idle"}
    BY <2>6
  <2> HIDE DEF then
  <2>9. req'[p] = then
    BY <2>2 DEF InboxSound
  <2> QED BY <1>1, <2>3, <2>4, <2>5, <2>7, <2>8, <2>9 DEF new
<1>2. ASSUME ~\E p \in Process: Insert(p) PROVE Doc' = Doc
  <2>1. ASSUME NEW d \in Doc, IgnoreMessage(d) PROVE Len(inbound') = Len(inbound)
    BY <2>1, SoundParts DEF IgnoreMessage
  <2>2. ASSUME NEW p \in Process, MarkApplied(p) PROVE Len(inbound') = Len(inbound)
    BY <2>2, SoundParts DEF MarkApplied
  <2>3. CASE UNCHANGED inboxVars
    BY <2>3 DEF inboxVars, Doc
  <2>4. ASSUME InboxNext, ~\E d \in Doc: IgnoreMessage(d), ~\E p \in Process: MarkApplied(p)
        PROVE  inbound' = inbound
    BY <1>2, <2>4 DEF InboxNext, Deliver, DeleteAccount, StartSync, EditAccount, Ingest, ApplyByHand,
                SaveEdit, ConnectNotFound, Fetch, FetchFails, Look, FinishSync, LoadMessage,
                SaveJob, CreateJob, SkipJob, Remind, Break
  <2> QED BY <2>1, <2>2, <2>3, <2>4 DEF Doc
<1> QED BY <1>1, <1>2

(* A mail is stored once for each request: none that stored a mail comes   *)
(* to the insertion of one with the same Message-ID.                       *)
StoredInv ==
    /\ StoredOncePerRequest
    /\ \A p \in Process: req[p].pc = "insert" =>
         \A m \in First(req[p].todo), d \in Doc:
           MessageId[inbound[d].mail] = MessageId[m] => inbound[d].by # p

LEMMA StoredInit == InboxInit => StoredInv
BY DEF InboxInit, StoredInv, StoredOncePerRequest, Doc, Idle

LEMMA StoredStep ==
  InboxSound /\ InboxLocals /\ StoredInv /\ [InboxNext]_inboxVars => StoredInv'
<1> SUFFICES ASSUME InboxSound, InboxLocals, StoredInv, [InboxNext]_inboxVars PROVE StoredInv'
  OBVIOUS
<1>1. \A d \in Doc: d \in Doc' /\ inbound'[d].mail = inbound[d].mail /\ inbound'[d].by = inbound[d].by
  BY MailsKept
<1>2. StoredOncePerRequest'
  <2>1. CASE Doc' = Doc
    BY <1>1, <2>1 DEF StoredInv, StoredOncePerRequest
  <2>2. ASSUME NEW p \in Process, Insert(p), Doc' = Doc \union {Len(inbound) + 1},
               inbound'[Len(inbound) + 1].by = p,
               inbound'[Len(inbound) + 1].mail \in First(req[p].todo)
        PROVE  StoredOncePerRequest'
    <3>1. req[p].pc = "insert"
      BY <2>2 DEF Insert
    <3>2. \A d \in Doc:
            MessageId[inbound'[d].mail] = MessageId[inbound'[Len(inbound) + 1].mail]
              => inbound'[d].by # p
      BY <1>1, <2>2, <3>1 DEF StoredInv
    <3> QED BY <1>1, <2>2, <3>2 DEF StoredInv, StoredOncePerRequest
  <2> QED BY <2>1, <2>2, MailsAdded
<1>3. ASSUME NEW q \in Process, req'[q].pc = "insert", NEW m \in First(req'[q].todo), NEW d \in Doc',
             MessageId[inbound'[d].mail] = MessageId[m]
      PROVE  inbound'[d].by # q
  <2>1. d \in Doc \/ inbound'[d].by # q
    BY <1>3, MailsAdded
  <2>2. CASE d \in Doc
    <3>1. \/ req[q].pc = "insert" /\ req[q].todo = req'[q].todo
          \/ req[q].todo = req'[q].todo /\ ~Known(MessageId[m])
      BY <1>3, Reaching DEF Reaches, Kept, Handling
    <3> QED BY <1>1, <1>3, <2>2, <3>1 DEF StoredInv, Known
  <2> QED BY <2>1, <2>2
<1> QED BY <1>2, <1>3 DEF StoredInv, First

(* A mail to be applied automatically waits only for the one that stored   *)
(* it, and is not an old one taken up again by hand.                       *)
PendingInv ==
    \A d \in Doc:
      (inbound[d].status = "pending" /\ inbound[d].auto /\ MailEvent[inbound[d].mail] # "other")
        => \/ inbound[d].mail \in history.broken
           \/ LET r == req[inbound[d].by] IN r.doc = d /\ r.pc \in Handling /\ r.op # "hand"

LEMMA PendingImplies == PendingInv => PendingIsHeld
BY DEF PendingInv, PendingIsHeld, Handling

LEMMA PendingInit == InboxInit => PendingInv
BY DEF InboxInit, PendingInv, Doc

LEMMA PendingStep ==
  InboxSound /\ InboxLocals /\ PendingInv /\ [InboxNext]_inboxVars => PendingInv'
<1> SUFFICES ASSUME InboxSound, InboxLocals, PendingInv, [InboxNext]_inboxVars, NEW d \in Doc',
                    inbound'[d].status = "pending", inbound'[d].auto,
                    MailEvent[inbound'[d].mail] # "other"
             PROVE  \/ inbound'[d].mail \in history'.broken
                    \/ LET r == req'[inbound'[d].by]
                       IN  r.doc = d /\ r.pc \in Handling /\ r.op # "hand"
  BY DEF PendingInv, Handling
<1>1. CASE d \in Doc
  <2>1. /\ inbound'[d].mail = inbound[d].mail /\ inbound'[d].by = inbound[d].by
        /\ inbound[d].auto /\ inbound[d].status = "pending"
        /\ history.broken \subseteq history'.broken
    BY <1>1, MailsKept
  <2> DEFINE q == inbound[d].by
  <2>2. q \in Process
    BY <1>1, SoundParts DEF InboundMail
  <2>3. CASE inbound[d].mail \in history.broken
    BY <2>1, <2>3
  <2>4. CASE req[q].doc = d /\ req[q].pc \in Handling /\ req[q].op # "hand"
    <3>1. CASE req'[q].pc \in Handling /\ Kept(req[q], req'[q])
      BY <2>1, <2>4, <3>1 DEF Kept
    <3>2. CASE MarkApplied(q)
      <4>1. inbound' = [inbound EXCEPT ![d].status = "applied", ![d].job = req[q].job]
        BY <2>4, <3>2 DEF MarkApplied
      <4>2. inbound[d] \in InboundMail
        BY <1>1, SoundParts
      <4>3. inbound'[d].status = "applied"
        BY <1>1, <4>1, <4>2, SoundParts DEF Doc, InboundMail
      <4> QED BY <4>3
    <3>3. CASE Break(q)
      <4>1. history' = [history EXCEPT !.broken = @ \union {inbound[d].mail}]
        BY <2>4, <3>3 DEF Break, Handling
      <4> QED BY <2>1, <4>1 DEF InboxSound
    <3> QED BY <2>2, <2>4, <3>1, <3>2, <3>3, Leaving
  <2> QED BY <1>1, <2>1, <2>3, <2>4 DEF PendingInv
<1>2. CASE d \notin Doc
  <2>1. PICK p \in Process:
          /\ Insert(p) /\ d = Len(inbound) + 1 /\ inbound'[d].by = p
          /\ req'[p].pc = "load" /\ req'[p].doc = d /\ req'[p].op = req[p].op
    BY <1>2, MailsAdded
  <2>2. req[p].op \in {"sync", "ingest"}
    BY <2>1 DEF Insert, InboxLocals, Local
  <2> QED BY <2>1, <2>2 DEF Handling
<1> QED BY <1>1, <1>2

(* A running synchronisation was running before, or is begun by this step. *)
Syncs(q) == req[q].pc # "idle" /\ req[q].op = "sync"

LEMMA SyncGoesOn ==
  ASSUME InboxSound, InboxLocals, [InboxNext]_inboxVars, NEW q \in Process, Syncs(q)'
  PROVE  \/ /\ Syncs(q)
            /\ req'[q].acc = req[q].acc /\ req'[q].copy = req[q].copy
            /\ req[q].raced => req'[q].raced
         \/ \E a \in Account: StartSync(q, a)
<1> DEFINE Goal == \/ /\ Syncs(q)
                      /\ req'[q].acc = req[q].acc /\ req'[q].copy = req[q].copy
                      /\ req[q].raced => req'[q].raced
                   \/ \E a \in Account: StartSync(q, a)
<1> USE DEF mailStore
<1>0. ASSUME req'[q] = req[q] PROVE Goal
  BY <1>0 DEF Syncs
<1>1. ASSUME NEW p \in Process, NEW a \in Account, StartSync(p, a) PROVE Goal
  <2>1. CASE p = q
    BY <1>1, <2>1
  <2>2. CASE p # q
    <3>1. req'[q] = [req[q] EXCEPT !.raced = TRUE] \/ req'[q] = req[q]
      BY <1>1, <2>2 DEF StartSync
    <3> QED BY <3>1, SoundParts DEF Syncs, Request
  <2> QED BY <2>1, <2>2
<1>2. ASSUME \/ \E a \in Account: EditAccount(q, a)
             \/ \E m \in Mail: Ingest(q, m)
             \/ \E d \in Doc: ApplyByHand(q, d)
      PROVE  req'[q].op # "sync"
  <2>1. CASE \E a \in Account: EditAccount(q, a)
    BY <2>1 DEF EditAccount, Idle, InboxSound
  <2>2. CASE \E m \in Mail: Ingest(q, m)
    BY <2>2 DEF Ingest, Idle, InboxSound
  <2>3. CASE \E d \in Doc: ApplyByHand(q, d)
    BY <2>3 DEF ApplyByHand, Idle, InboxSound
  <2> QED BY <1>2, <2>1, <2>2, <2>3
<1>3. ASSUME SaveEdit(q) \/ ConnectNotFound(q) \/ FetchFails(q) \/ FinishSync(q) \/ Break(q)
      PROVE  req'[q].pc = "idle"
  BY <1>3 DEF ConnectNotFound, FetchFails, FinishSync, SaveEdit, Break, End, Idle, InboxSound
<1>4. ASSUME NEW r, req' = [req EXCEPT ![q] = r], req[q].pc # "idle", r.acc = req[q].acc,
             r.copy = req[q].copy, r.op = req[q].op, r.raced = req[q].raced
      PROVE  Goal
  <2>1. req'[q] = r
    BY <1>4 DEF InboxSound
  <2> QED BY <1>4, <2>1 DEF Syncs
<1>5. ASSUME NEW r, req' = [req EXCEPT ![q] = Onward(q, r)], req[q].pc # "idle", r.acc = req[q].acc,
             r.copy = req[q].copy, r.op = req[q].op, r.raced = req[q].raced, r \in Request
      PROVE  Goal
  <2>1. CASE r.op = "sync"
    <3> DEFINE s == [r EXCEPT !.pc = "look"]
    <3>1. req' = [req EXCEPT ![q] = s] /\ s.acc = r.acc /\ s.copy = r.copy /\ s.op = r.op
          /\ s.raced = r.raced
      BY <1>5, <2>1 DEF Onward, Request
    <3> HIDE DEF s
    <3> QED BY <1>4, <1>5, <3>1
  <2>2. CASE r.op # "sync"
    <3>1. req'[q].pc = "idle"
      BY <1>5, <2>2 DEF Onward, Idle, InboxSound
    <3> QED BY <3>1 DEF Syncs
  <2> QED BY <2>1, <2>2
<1>6. CASE Fetch(q) \/ LoadMessage(q) \/ CreateJob(q)
  <2>1. PICK got, pc, j, s:
          \/ req' = [req EXCEPT ![q].pc = "look", ![q].todo = got]
          \/ req' = [req EXCEPT ![q].pc = "effect", ![q].job = j, ![q].seen = s]
          \/ req' = [req EXCEPT ![q].pc = "mark", ![q].job = j]
    BY <1>6 DEF Fetch, LoadMessage, CreateJob
  <2>2. req[q].pc # "idle" /\ req[q] \in Request
    BY <1>6, SoundParts DEF Fetch, LoadMessage, CreateJob
  <2>3. /\ req'[q].acc = req[q].acc /\ req'[q].copy = req[q].copy /\ req'[q].op = req[q].op
        /\ req'[q].raced = req[q].raced
    BY <2>1, <2>2 DEF InboxSound, Request
  <2> QED BY <2>2, <2>3 DEF Syncs
<1>7. CASE SaveJob(q) \/ SkipJob(q) \/ Remind(q)
  <2>1. PICK pc: Go(q, pc)
    BY <1>7 DEF SaveJob, SkipJob, Remind
  <2>2. req[q].pc # "idle"
    BY <1>7 DEF SaveJob, SkipJob, Remind
  <2>3. /\ req'[q].acc = req[q].acc /\ req'[q].copy = req[q].copy /\ req'[q].op = req[q].op
        /\ req'[q].raced = req[q].raced
    BY <2>1, SoundParts DEF Go, InboxSound, Request
  <2> QED BY <2>2, <2>3 DEF Syncs
<1>8. CASE Look(q)
  <2> PICK m \in First(req[q].todo):
        LET r == [req[q] EXCEPT !.top = IF @ < MailUid[m] THEN MailUid[m] ELSE @]
         IN  req' = [req EXCEPT ![q] = IF Known(MessageId[m])
                                       THEN Onward(q, [r EXCEPT !.todo = @ \ {m}])
                                       ELSE [r EXCEPT !.pc = "insert"]]
    BY <1>8 DEF Look
  <2> DEFINE top == IF req[q].top < MailUid[m] THEN MailUid[m] ELSE req[q].top
             r == [req[q] EXCEPT !.top = top]
             s == [r EXCEPT !.todo = @ \ {m}]
             i == [r EXCEPT !.pc = "insert"]
  <2>1. req[q] \in Request /\ req[q].pc # "idle" /\ req[q].todo \subseteq Mail
    BY <1>8, SoundParts DEF Look, Request
  <2>2. top \in Nat
    BY <2>1, InboxConstants DEF First, Request
  <2>3. req' = [req EXCEPT ![q] = Onward(q, s)] \/ req' = [req EXCEPT ![q] = i]
    OBVIOUS
  <2> HIDE DEF top
  <2>4. /\ s \in Request
        /\ s.acc = req[q].acc /\ s.copy = req[q].copy /\ s.op = req[q].op /\ s.raced = req[q].raced
        /\ i.acc = req[q].acc /\ i.copy = req[q].copy /\ i.op = req[q].op /\ i.raced = req[q].raced
    BY <2>1, <2>2 DEF Request
  <2> HIDE DEF s, i
  <2> QED BY <1>4, <1>5, <2>1, <2>3, <2>4
<1>9. CASE Insert(q)
  <2> PICK m \in First(req[q].todo):
        LET next == [req[q] EXCEPT !.todo = @ \ {m}, !.doc = Len(inbound) + 1]
        IN  req' = [req EXCEPT ![q] = IF req[q].copy.auto_apply /\ MailEvent[m] # "other"
                                      THEN [next EXCEPT !.pc = "load"] ELSE Onward(q, next)]
    BY <1>9 DEF Insert
  <2> DEFINE n == Len(inbound) + 1
             s == [req[q] EXCEPT !.todo = @ \ {m}, !.doc = n]
             i == [s EXCEPT !.pc = "load"]
  <2>1. req[q] \in Request /\ req[q].pc # "idle" /\ n \in Nat
    BY <1>9, SoundParts DEF Insert
  <2>2. req' = [req EXCEPT ![q] = Onward(q, s)] \/ req' = [req EXCEPT ![q] = i]
    OBVIOUS
  <2> HIDE DEF n
  <2>3. /\ s \in Request
        /\ s.acc = req[q].acc /\ s.copy = req[q].copy /\ s.op = req[q].op /\ s.raced = req[q].raced
        /\ i.acc = req[q].acc /\ i.copy = req[q].copy /\ i.op = req[q].op /\ i.raced = req[q].raced
    BY <2>1 DEF Request
  <2> HIDE DEF s, i
  <2> QED BY <1>4, <1>5, <2>1, <2>2, <2>3
<1>10. CASE MarkApplied(q)
  <2>1. req' = [req EXCEPT ![q] = Onward(q, req[q])] /\ req[q].pc # "idle"
    BY <1>10 DEF MarkApplied
  <2> QED BY <1>5, <2>1, SoundParts
<1>11. ASSUME \/ \E a \in Account: Deliver(a) \/ DeleteAccount(a)
              \/ \E d \in Doc: IgnoreMessage(d)
              \/ UNCHANGED inboxVars
       PROVE  req' = req
  BY <1>11 DEF Deliver, DeleteAccount, IgnoreMessage, inboxVars
<1>12. req'[q].op = "sync" /\ req'[q].pc # "idle"
  BY DEF Syncs
<1> HIDE DEF Goal
<1>13. ASSUME NEW p \in Process,
              \/ (\E a \in Account: EditAccount(p, a)) \/ (\E m \in Mail: Ingest(p, m))
              \/ (\E d \in Doc: ApplyByHand(p, d))
              \/ SaveEdit(p) \/ ConnectNotFound(p) \/ Fetch(p) \/ FetchFails(p) \/ Look(p)
              \/ Insert(p) \/ FinishSync(p) \/ LoadMessage(p) \/ SaveJob(p) \/ CreateJob(p)
              \/ SkipJob(p) \/ Remind(p) \/ MarkApplied(p) \/ Break(p)
       PROVE  Goal
  <2>1. CASE p # q
    BY <1>0, <1>13, <2>1, OthersStay
  <2>2. CASE p = q
    BY <1>2, <1>3, <1>6, <1>7, <1>8, <1>9, <1>10, <1>12, <1>13, <2>2 DEF Goal
  <2> QED BY <2>1, <2>2
<1>14. (\E p \in Process, a \in Account: StartSync(p, a)) \/ req' = req \/ Goal
  BY <1>11, <1>13 DEF InboxNext
<1>15. Goal
  BY <1>0, <1>1, <1>14
<1> QED BY <1>15 DEF Goal

(* A synchronisation that nobody's wish overlaps holds what is stored.     *)
Agrees(r, rec) == r.copy.live = rec.live /\ r.copy.auto_apply = rec.auto_apply
SettingInv ==
    /\ UserSettingWins
    /\ \A p \in Process: Syncs(p) => \/ req[p].acc \in history.overlap
                                     \/ Agrees(req[p], account[req[p].acc])

LEMMA SettingInit == InboxInit => SettingInv
<1> SUFFICES ASSUME InboxInit PROVE SettingInv
  OBVIOUS
<1>1. \A p \in Process: req[p].pc = "idle"
  BY DEF InboxInit, Idle
<1>2. \A a \in Account: account[a].live
  BY DEF InboxInit
<1>3. \A a \in Account: history.wish[a] = IF account[a].auto_apply THEN "on" ELSE "off"
  BY DEF InboxInit
<1> QED BY <1>1, <1>2, <1>3 DEF SettingInv, UserSettingWins, Syncs

(* Nothing is asked of an account, and what it says is kept.               *)
LEMMA NothingAsked ==
  ASSUME InboxSound, InboxLocals, SettingInv, [InboxNext]_inboxVars,
         history'.wish = history.wish, history'.overlap = history.overlap,
         \A a \in Account: \/ a \in history.overlap
                           \/ /\ account'[a].live = account[a].live
                              /\ account'[a].auto_apply = account[a].auto_apply
  PROVE  SettingInv'
<1>1. UserSettingWins'
  BY DEF SettingInv, UserSettingWins
<1>2. ASSUME NEW q \in Process, Syncs(q)'
      PROVE  req'[q].acc \in history'.overlap \/ Agrees(req'[q], account'[req'[q].acc])
  <2>1. ASSUME NEW a \in Account, StartSync(q, a)
        PROVE  Agrees(req'[q], account'[req'[q].acc])
    BY <2>1 DEF StartSync, mailStore, Idle, Agrees
  <2>2. ASSUME Syncs(q), req'[q].acc = req[q].acc, req'[q].copy = req[q].copy
        PROVE  req'[q].acc \in history'.overlap \/ Agrees(req'[q], account'[req'[q].acc])
    BY <2>2, SoundParts DEF SettingInv, Agrees, Request
  <2> QED BY <1>2, <2>1, <2>2, SyncGoesOn
<1> QED BY <1>1, <1>2 DEF SettingInv, Agrees, Syncs

(* The user asks something of an account, and it is stored at once.        *)
LEMMA SomethingAsked ==
  ASSUME InboxSound, InboxLocals, SettingInv, [InboxNext]_inboxVars,
         ~\E q \in Process, b \in Account: StartSync(q, b),
         NEW a \in Account, NEW what \in Setting, Asked(a, what),
         \A b \in Account \ {a}: account'[b] = account[b],
         what = IF ~account'[a].live THEN "deleted"
                ELSE IF account'[a].auto_apply THEN "on" ELSE "off"
  PROVE  SettingInv'
<1>1. /\ history'.wish = [history.wish EXCEPT ![a] = what]
      /\ history.overlap \subseteq history'.overlap
      /\ Syncing(a) # {} => a \in history'.overlap
  BY DEF Asked, InboxSound
<1>2. UserSettingWins'
  BY <1>1 DEF SettingInv, UserSettingWins, InboxSound
<1>3. ASSUME NEW q \in Process, Syncs(q)'
      PROVE  req'[q].acc \in history'.overlap \/ Agrees(req'[q], account'[req'[q].acc])
  <2>1. Syncs(q) /\ req'[q].acc = req[q].acc /\ req'[q].copy = req[q].copy
    BY <1>3, SyncGoesOn
  <2>2. CASE req[q].acc = a
    BY <1>1, <2>1, <2>2 DEF Syncing, Syncs
  <2>3. CASE req[q].acc # a
    BY <1>1, <2>1, <2>3, SoundParts DEF SettingInv, Agrees, Request
  <2> QED BY <2>2, <2>3
<1> QED BY <1>2, <1>3 DEF SettingInv, Agrees, Syncs

LEMMA SettingStep ==
  InboxSound /\ InboxLocals /\ SettingInv /\ [InboxNext]_inboxVars => SettingInv'
<1> SUFFICES ASSUME InboxSound, InboxLocals, SettingInv, [InboxNext]_inboxVars PROVE SettingInv'
  OBVIOUS
<1> USE DEF mailStore
<1>1. ASSUME NEW a \in Account, DeleteAccount(a) PROVE SettingInv'
  <2>1. Asked(a, "deleted") /\ account' = [account EXCEPT ![a].live = FALSE] /\ req' = req
    BY <1>1 DEF DeleteAccount
  <2>2. ~account'[a].live /\ \A b \in Account \ {a}: account'[b] = account[b]
    BY <2>1 DEF InboxSound, InboxAccount
  <2>3. ~\E q \in Process, b \in Account: StartSync(q, b)
    <3> SUFFICES ASSUME NEW q \in Process, NEW b \in Account, StartSync(q, b) PROVE FALSE
      OBVIOUS
    <3>1. req[q].pc = "idle" /\ req'[q].pc = "connect"
      BY DEF StartSync, Idle
    <3> QED BY <2>1, <3>1
  <2>4. "deleted" \in Setting
    BY DEF Setting
  <2> QED BY <2>1, <2>2, <2>3, <2>4, SomethingAsked
<1>2. ASSUME NEW p \in Process, SaveEdit(p) PROVE SettingInv'
  <2> DEFINE a == req[p].acc
  <2>1. PICK on \in BOOLEAN: /\ account' = [account EXCEPT ![a] = [req[p].copy EXCEPT !.auto_apply = on]]
                             /\ Asked(a, IF on THEN "on" ELSE "off")
    BY <1>2 DEF SaveEdit
  <2>2. req[p].copy.live /\ req[p].copy \in InboxAccount /\ a \in Account
    BY <1>2, SoundParts DEF SaveEdit, InboxLocals, Local, Request
  <2>3. /\ account'[a].live /\ account'[a].auto_apply = on
        /\ \A b \in Account \ {a}: account'[b] = account[b]
    <3>1. [req[p].copy EXCEPT !.auto_apply = on].live /\ [req[p].copy EXCEPT !.auto_apply = on].auto_apply = on
      BY <2>2 DEF InboxAccount
    <3> QED BY <2>1, <2>2, <3>1 DEF InboxSound
  <2>4. ~\E q \in Process, b \in Account: StartSync(q, b)
    <3> SUFFICES ASSUME NEW q \in Process, NEW b \in Account, StartSync(q, b) PROVE FALSE
      OBVIOUS
    <3>1. req[q].pc = "idle" /\ req'[q].pc = "connect"
      BY DEF StartSync, Idle
    <3>2. req[p].pc = "edit" /\ req' = [req EXCEPT ![p] = Idle(a)]
      BY <1>2 DEF SaveEdit, End
    <3> QED BY <3>1, <3>2 DEF Idle, InboxSound
  <2>5. (IF on THEN "on" ELSE "off") \in Setting
    BY DEF Setting
  <2> HIDE DEF a
  <2> QED BY <2>1, <2>2, <2>3, <2>4, <2>5, SomethingAsked
<1>3. ASSUME NEW p \in Process, FetchFails(p) \/ FinishSync(p) PROVE SettingInv'
  <2>1. Syncs(p) /\ req[p] \in Request
    BY <1>3, SoundParts DEF FetchFails, FinishSync, Syncs, InboxLocals, Local
  <2>2. PICK rec: /\ account' = [account EXCEPT ![req[p].acc] = rec]
                  /\ rec.live = req[p].copy.live /\ rec.auto_apply = req[p].copy.auto_apply
    <3>1. CASE FetchFails(p)
      BY <3>1 DEF FetchFails, SaveAccount
    <3>2. CASE FinishSync(p)
      <4> DEFINE rec == [req[p].copy EXCEPT !.last_uid = req[p].top]
      <4>1. account' = [account EXCEPT ![req[p].acc] = rec]
        BY <3>2 DEF FinishSync, SaveAccount
      <4>2. rec.live = req[p].copy.live /\ rec.auto_apply = req[p].copy.auto_apply
        BY <2>1 DEF Request, InboxAccount
      <4> HIDE DEF rec
      <4> QED BY <4>1, <4>2
    <3> QED BY <1>3, <3>1, <3>2
  <2>3. history' = history
    BY <1>3 DEF FetchFails, FinishSync
  <2>4. \A a \in Account: account'[a] = IF a = req[p].acc THEN rec ELSE account[a]
    BY <2>2 DEF InboxSound
  <2>5. req[p].acc \in history.overlap \/ Agrees(req[p], account[req[p].acc])
    BY <2>1 DEF SettingInv
  <2> QED BY <2>2, <2>3, <2>4, <2>5, NothingAsked DEF Agrees
<1>4. ASSUME account' = account, history'.wish = history.wish, history'.overlap = history.overlap
      PROVE  SettingInv'
  BY <1>4, NothingAsked
<1>5. ASSUME InboxNext, ~\E a \in Account: DeleteAccount(a),
             ~\E p \in Process: SaveEdit(p) \/ FetchFails(p) \/ FinishSync(p)
      PROVE  SettingInv'
  <2>1. account' = account
    BY <1>5 DEF InboxNext, Deliver, IgnoreMessage, StartSync, EditAccount, Ingest, ApplyByHand,
                ConnectNotFound, Fetch, Look, Insert, LoadMessage, SaveJob, CreateJob, SkipJob,
                Remind, MarkApplied, Break
  <2>2. CASE \E p \in Process: Fetch(p)
    BY <1>4, <2>1, <2>2 DEF Fetch, InboxSound
  <2>3. CASE \E p \in Process: SaveJob(p)
    BY <1>4, <2>1, <2>3 DEF SaveJob, InboxSound
  <2>4. CASE \E p \in Process: Break(p)
    BY <1>4, <2>1, <2>4 DEF Break, InboxSound
  <2>5. CASE history' = history
    BY <1>4, <2>1, <2>5
  <2> QED BY <1>5, <2>2, <2>3, <2>4, <2>5
          DEF InboxNext, Deliver, IgnoreMessage, StartSync, EditAccount, Ingest, ApplyByHand,
              ConnectNotFound, Look, Insert, LoadMessage, CreateJob, SkipJob, Remind, MarkApplied
<1>6. CASE UNCHANGED inboxVars
  BY <1>4, <1>6 DEF inboxVars
<1> QED BY <1>1, <1>2, <1>3, <1>5, <1>6

(* The mail a request works on.                                            *)
Hand(q) == inbound[req[q].doc].mail

LEMMA SetByChanges ==
  ASSUME InboxSound, [InboxNext]_inboxVars, NEW j \in Job, NEW n \in history'.setBy[j]
  PROVE  n \in history.setBy[j] \/ \E q \in Process: SaveJob(q) /\ req[q].op = "sync" /\ n = Hand(q)
<1> USE DEF mailStore
<1>1. ASSUME NEW q \in Process, SaveJob(q)
      PROVE  n \in history.setBy[j] \/ (req[q].op = "sync" /\ n = Hand(q))
  <2> DEFINE e == MailEvent[Hand(q)]
             S == IF e = "jd" THEN history.setBy[req[q].job]
                  ELSE IF req[q].op = "sync" THEN {Hand(q)} ELSE {}
  <2>1. history' = [history EXCEPT !.setBy[req[q].job] = S]
    BY <1>1 DEF SaveJob, Hand
  <2>2. S = history.setBy[req[q].job] \/ S = {} \/ (S = {Hand(q)} /\ req[q].op = "sync")
    OBVIOUS
  <2> HIDE DEF S
  <2>3. history'.setBy[j] = IF j = req[q].job THEN S ELSE history.setBy[j]
    BY <2>1 DEF InboxSound
  <2> HIDE DEF e
  <2> QED BY <2>2, <2>3
<1>2. \A a \in Account, what \in Setting: Asked(a, what) => history'.setBy = history.setBy
  BY DEF Asked, InboxSound
<1>3. \A a \in Account: DeleteAccount(a) => history'.setBy = history.setBy
  BY <1>2 DEF DeleteAccount, Setting
<1>4. \A p \in Process: SaveEdit(p) => history'.setBy = history.setBy
  BY DEF SaveEdit, Asked, InboxSound
<1>5. \A p \in Process: Fetch(p) => history'.setBy = history.setBy
  BY DEF Fetch, InboxSound
<1>6. \A p \in Process: Break(p) => history'.setBy = history.setBy
  BY DEF Break, InboxSound
<1>7. CASE UNCHANGED inboxVars
  BY <1>7 DEF inboxVars
<1>8. CASE InboxNext
  BY <1>1, <1>3, <1>4, <1>5, <1>6, <1>8
     DEF InboxNext, Deliver, StartSync, EditAccount, Ingest, ApplyByHand, ConnectNotFound,
         FetchFails, Look, Insert, FinishSync, LoadMessage, CreateJob, SkipJob, Remind,
         MarkApplied, IgnoreMessage
<1> QED BY <1>7, <1>8

(* Which mail may set a job's status after which.                          *)
Alone(p) == Syncs(p) /\ ~req[p].raced
Older(m, n) == MailAccount[m] = MailAccount[n] /\ MailUid[m] < MailUid[n]
SetByAny(n) == \E j \in Job: n \in history.setBy[j]

SetBySettled == \A n, m \in Mail: SetByAny(n) /\ Older(m, n) => m \in Settled
AloneIsAlone == \A p, q \in Process: Alone(p) /\ Syncs(q) /\ req[q].acc = req[p].acc => q = p
InOrder ==
    \A p \in Process: Syncs(p) /\ req[p].pc \in Handling =>
      /\ MailAccount[Hand(p)] = req[p].acc /\ MailUid[Hand(p)] <= req[p].top
      /\ \A m \in req[p].todo: MailUid[Hand(p)] < MailUid[m]
InsertsYield ==
    \A p \in Process: Alone(p) /\ req[p].pc = "insert" =>
      \A m \in First(req[p].todo), n \in Mail: SetByAny(n) /\ Older(m, n) => m \in history.missed
HandledYields ==
    \A p \in Process: Alone(p) /\ req[p].pc \in Handling =>
      \A n \in Mail: SetByAny(n) /\ Older(Hand(p), n) => Hand(p) \in history.missed
OlderInv == SetBySettled /\ AloneIsAlone /\ InOrder /\ InsertsYield /\ HandledYields

LEMMA OlderInit == InboxInit => OlderInv
BY DEF InboxInit, OlderInv, SetBySettled, AloneIsAlone, InOrder, InsertsYield, HandledYields, SetByAny,
       Alone, Syncs, Idle

LEMMA OlderImplies ==
  ASSUME InboxSound, OlderInv, NEW p \in Process, SaveJob(p), req[p].op = "sync",
         NEW n \in history.setBy[req[p].job],
         MailAccount[n] = MailAccount[Hand(p)], MailUid[Hand(p)] < MailUid[n]
  PROVE  req[p].raced \/ Hand(p) \in history.missed
<1>1. Syncs(p) /\ req[p].pc \in Handling /\ req[p].job \in Job
  BY SoundParts DEF SaveJob, Syncs, Handling, Request
<1>2. n \in Mail /\ SetByAny(n)
  BY <1>1 DEF InboxSound, SetByAny
<1> QED BY <1>1, <1>2 DEF OlderInv, HandledYields, Alone, Older

(* A mail that a synchronisation has just saved a status by.               *)
LEMMA NewlySet ==
  ASSUME InboxSound, [InboxNext]_inboxVars, NEW n \in Mail, SetByAny(n)'
  PROVE  SetByAny(n) \/ \E q \in Process: /\ SaveJob(q) /\ Syncs(q) /\ n = Hand(q)
                                          /\ req[q].pc \in Handling
<1>1. PICK j \in Job: n \in history'.setBy[j]
  BY DEF SetByAny
<1>2. n \in history.setBy[j] \/ \E q \in Process: SaveJob(q) /\ req[q].op = "sync" /\ n = Hand(q)
  BY <1>1, SetByChanges
<1>3. \A q \in Process: SaveJob(q) => req[q].pc = "effect"
  BY DEF SaveJob
<1> QED BY <1>2, <1>3 DEF SetByAny, Syncs, Handling

LEMMA OlderStep ==
  InboxSound /\ InboxLocals /\ CursorInv /\ OlderInv /\ [InboxNext]_inboxVars => OlderInv'
<1> SUFFICES ASSUME InboxSound, InboxLocals, CursorInv, OlderInv, [InboxNext]_inboxVars
             PROVE  OlderInv'
  OBVIOUS
<1> USE DEF mailStore
<1>0. \A q \in Process: req[q].pc \in Handling => Hand(q) \in Mail
  BY SoundParts DEF Hand, InboundMail
<1>a. \A p \in Process: Alone(p)' => \/ Alone(p) /\ req'[p].acc = req[p].acc
                                     \/ \E a \in Account: StartSync(p, a)
  BY SyncGoesOn DEF Alone, Syncs
<1>b. \A p \in Process: (\E a \in Account: StartSync(p, a)) => req'[p].pc = "connect"
  <2> SUFFICES ASSUME NEW p \in Process, NEW a \in Account, StartSync(p, a)
               PROVE  req'[p].pc = "connect"
    OBVIOUS
  <2> QED BY DEF StartSync, Idle
<1>c. \A p \in Process: req[p].pc \in Handling /\ req'[p].doc = req[p].doc => Hand(p)' = Hand(p)
  BY MailsKept, SoundParts DEF Hand
<1>1. SetBySettled'
  <2> SUFFICES ASSUME NEW n \in Mail, NEW m \in Mail, SetByAny(n)', Older(m, n)
               PROVE  m \in Settled'
    BY DEF SetBySettled, Older
  <2>1. CASE SetByAny(n)
    BY <2>1, SettledGrows DEF OlderInv, SetBySettled
  <2>2. ASSUME NEW q \in Process, Syncs(q), n = Hand(q), req[q].pc \in Handling
        PROVE  m \in Settled'
    <3>1. /\ MailAccount[n] = req[q].acc /\ MailUid[n] <= req[q].top
          /\ \A x \in req[q].todo: MailUid[n] < MailUid[x]
      BY <2>2 DEF OlderInv, InOrder
    <3>2. MailUid[m] \in Nat /\ MailUid[n] \in Nat /\ req[q].top \in Nat
      BY InboxConstants, SoundParts DEF Request
    <3>3. Reached(req[q], m) /\ m \notin req[q].todo
      BY <3>1, <3>2 DEF Older, Reached
    <3>4. m \in Settled
      BY <2>2, <3>1, <3>3 DEF CursorInv, Cursor, Older, Syncs
    <3> QED BY <3>4, SettledGrows
  <2> QED BY <2>1, <2>2, NewlySet
<1>2. AloneIsAlone'
  <2> SUFFICES ASSUME NEW p \in Process, NEW q \in Process, Alone(p)', Syncs(q)',
                      req'[q].acc = req'[p].acc, q # p
               PROVE  FALSE
    BY DEF AloneIsAlone, Alone, Syncs
  <2>1. ASSUME NEW a \in Account, StartSync(p, a) PROVE FALSE
    <3>1. Syncing(a) = {} /\ req'[p].acc = a
      BY <2>1 DEF StartSync, Idle, Alone
    <3>2. req'[q] = req[q]
      BY <2>1, <3>1 DEF StartSync
    <3> QED BY <3>1, <3>2 DEF Syncing, Syncs
  <2>2. ASSUME Alone(p), req'[p].acc = req[p].acc PROVE FALSE
    <3>1. ASSUME NEW a \in Account, StartSync(q, a) PROVE FALSE
      <4>1. req'[q].acc = a
        BY <3>1 DEF StartSync, Idle
      <4>2. p \in Syncing(a)
        BY <2>2, <4>1 DEF Syncing, Alone, Syncs
      <4>3. req'[p] = [req[p] EXCEPT !.raced = TRUE]
        BY <3>1, <4>2 DEF StartSync
      <4>4. req'[p].raced
        BY <4>3, SoundParts DEF Request
      <4> QED BY <4>4 DEF Alone
    <3>2. Syncs(q) /\ req'[q].acc = req[q].acc
      BY <3>1, SyncGoesOn
    <3> QED BY <2>2, <3>2 DEF OlderInv, AloneIsAlone
  <2> QED BY <1>a, <2>1, <2>2
<1>3. InOrder'
  <2> SUFFICES ASSUME NEW p \in Process, Syncs(p)', req'[p].pc \in Handling
               PROVE  /\ MailAccount[Hand(p)'] = req'[p].acc /\ MailUid[Hand(p)'] <= req'[p].top
                      /\ \A m \in req'[p].todo: MailUid[Hand(p)'] < MailUid[m]
    BY DEF InOrder, Handling, Hand, Syncs
  <2>1. \/ req[p].pc \in Handling /\ Kept(req[p], req'[p])
        \/ /\ Insert(p) /\ req'[p].doc = Len(inbound) + 1
           /\ req'[p].acc = req[p].acc /\ req'[p].top = req[p].top
           /\ inbound'[Len(inbound) + 1].mail \in First(req[p].todo)
           /\ req'[p].todo = req[p].todo \ {inbound'[Len(inbound) + 1].mail}
    BY Reaching DEF Reaches, Handling, Syncs
  <2>2. CASE req[p].pc \in Handling /\ Kept(req[p], req'[p])
    <3>1. Syncs(p) /\ Hand(p)' = Hand(p)
      BY <1>c, <2>2 DEF Kept, Syncs, Handling
    <3> QED BY <2>2, <3>1 DEF OlderInv, InOrder, Kept
  <2>3. CASE /\ Insert(p) /\ req'[p].doc = Len(inbound) + 1
             /\ req'[p].acc = req[p].acc /\ req'[p].top = req[p].top
             /\ inbound'[Len(inbound) + 1].mail \in First(req[p].todo)
             /\ req'[p].todo = req[p].todo \ {inbound'[Len(inbound) + 1].mail}
    <3> DEFINE x == inbound'[Len(inbound) + 1].mail
    <3>1. Hand(p)' = x /\ x \in First(req[p].todo) /\ req'[p].todo = req[p].todo \ {x}
      BY <2>3 DEF Hand
    <3>2. req[p].todo \subseteq Mail /\ req[p].pc = "insert" /\ Local(req[p])
      BY <2>3, SoundParts DEF Insert, InboxLocals, Request
    <3> HIDE DEF x
    <3>3. x \in req[p].todo /\ MailAccount[x] = req[p].acc /\ MailUid[x] <= req[p].top
      BY <3>1, <3>2 DEF Local, First
    <3>4. ASSUME NEW m \in req[p].todo \ {x} PROVE MailUid[x] < MailUid[m]
      <4>1. MailUid[x] <= MailUid[m] /\ MailAccount[m] = MailAccount[x]
        BY <3>1, <3>2, <3>3 DEF First, Local
      <4>2. m \in Mail /\ x \in Mail /\ MailUid[x] \in Nat /\ MailUid[m] \in Nat
        BY <3>2, <3>3, InboxConstants
      <4>3. MailUid[x] # MailUid[m]
        BY <4>1, <4>2, InboxAssumption DEF InboxAssumption
      <4> QED BY <4>1, <4>2, <4>3
    <3> QED BY <2>3, <3>1, <3>3, <3>4
  <2> QED BY <2>1, <2>2, <2>3
<1>4. InsertsYield'
  <2> SUFFICES ASSUME NEW p \in Process, Alone(p)', req'[p].pc = "insert",
                      NEW m \in First(req'[p].todo), NEW n \in Mail, SetByAny(n)', Older(m, n)
               PROVE  m \in history'.missed
    BY DEF InsertsYield, Older, First, Alone, Syncs
  <2>1. Alone(p) /\ req'[p].acc = req[p].acc
    BY <1>a, <1>b
  <2>2. m \in Mail /\ MailAccount[m] = req[p].acc
    BY SoundParts, <2>1, LocalsStep, InboxSoundStep DEF InboxLocals, Local, First, InboxSound, Request
  <2>3. CASE req[p].pc = "insert" /\ Kept(req[p], req'[p])
    <3>1. m \in First(req[p].todo)
      BY <2>3 DEF Kept
    <3>2. ASSUME NEW q \in Process, Syncs(q), n = Hand(q), req[q].pc \in Handling PROVE FALSE
      <4>1. MailAccount[n] = req[q].acc
        BY <3>2 DEF OlderInv, InOrder
      <4>2. req[q].acc = req[p].acc
        BY <2>2, <4>1 DEF Older
      <4> QED BY <2>1, <2>3, <3>2, <4>2 DEF OlderInv, AloneIsAlone, Handling
    <3>3. SetByAny(n)
      BY <3>2, NewlySet
    <3> QED BY <2>1, <2>3, <3>1, <3>3, MailsKept DEF OlderInv, InsertsYield
  <2>4. CASE /\ Look(p) /\ req'[p].todo = req[p].todo
             /\ \A x \in First(req[p].todo): ~Known(MessageId[x])
    <3>1. history' = history
      BY <2>4 DEF Look
    <3>2. SetByAny(n)
      BY <3>1 DEF SetByAny
    <3>3. m \in Settled
      BY <2>2, <3>2 DEF OlderInv, SetBySettled
    <3> QED BY <2>4, <3>1, <3>3 DEF Settled
  <2> QED BY <2>3, <2>4, Reaching DEF Reaches, Handling
<1>5. HandledYields'
  <2> SUFFICES ASSUME NEW p \in Process, Alone(p)', req'[p].pc \in Handling,
                      NEW n \in Mail, SetByAny(n)', Older(Hand(p)', n)
               PROVE  Hand(p)' \in history'.missed
    BY DEF HandledYields, Older, Handling, Alone, Syncs, Hand
  <2>1. Alone(p) /\ req'[p].acc = req[p].acc
    BY <1>a, <1>b DEF Handling
  <2>2. CASE req[p].pc \in Handling /\ Kept(req[p], req'[p])
    <3>1. Hand(p)' = Hand(p)
      BY <1>c, <2>2 DEF Kept
    <3>2. ASSUME NEW q \in Process, Syncs(q), n = Hand(q), req[q].pc \in Handling PROVE FALSE
      <4>1. MailAccount[n] = req[q].acc /\ MailAccount[Hand(p)] = req[p].acc
        BY <2>1, <2>2, <3>2 DEF OlderInv, InOrder, Alone
      <4>2. q = p
        BY <2>1, <3>1, <3>2, <4>1 DEF OlderInv, AloneIsAlone, Older
      <4>3. MailUid[n] \in Nat
        BY InboxConstants
      <4> QED BY <3>1, <3>2, <4>2, <4>3 DEF Older
    <3>3. SetByAny(n)
      BY <3>2, NewlySet
    <3> QED BY <2>1, <2>2, <3>1, <3>3, MailsKept DEF OlderInv, HandledYields
  <2>3. CASE /\ Insert(p) /\ req'[p].doc = Len(inbound) + 1
             /\ inbound'[Len(inbound) + 1].mail \in First(req[p].todo)
    <3>1. Hand(p)' \in First(req[p].todo) /\ history' = history /\ req[p].pc = "insert"
      BY <2>3 DEF Hand, Insert
    <3>2. SetByAny(n)
      BY <3>1 DEF SetByAny
    <3> QED BY <2>1, <3>1, <3>2 DEF OlderInv, InsertsYield
  <2> QED BY <2>2, <2>3, Reaching DEF Reaches, Handling, Alone, Syncs
<1> QED BY <1>1, <1>2, <1>3, <1>4, <1>5 DEF OlderInv

(***************************************************************************)
(* The theorems of the inbox.                                              *)
(***************************************************************************)
InboxInv == /\ InboxSound /\ InboxLocals /\ CursorInv /\ StoredInv /\ PendingInv /\ SettingInv
            /\ OlderInv

LEMMA InboxInvariant == InboxSpec => []InboxInv
<1>1. InboxInit => InboxInv
  BY InboxSoundInit, LocalsInit, CursorInit, StoredInit, PendingInit, SettingInit, OlderInit
     DEF InboxInv
<1>2. InboxInv /\ [InboxNext]_inboxVars => InboxInv'
  BY InboxSoundStep, LocalsStep, CursorStep, StoredStep, PendingStep, SettingStep, OlderStep
     DEF InboxInv
<1> QED BY <1>1, <1>2, PTL DEF InboxSpec

(* Accounts, mails, jobs and requests keep their types, and a request that *)
(* works on a stored mail holds one that exists: nothing removes a mail.   *)
THEOREM InboxTypeCorrect == InboxSpec => []InboxTypes
<1>1. InboxInv => InboxTypes
  BY SoundIsTyped DEF InboxInv
<1> QED BY <1>1, InboxInvariant, PTL

(* sync_account never moves a cursor past a mail that is not stored, except *)
(* one its own fetch left out: for any mailboxes and any number of         *)
(* synchronisations, edits and crashes at the same time.                   *)
THEOREM CursorSafe == InboxSpec => []CursorPassesStoredMail
<1>1. InboxInv => CursorPassesStoredMail
  BY CursorImplies DEF InboxInv
<1> QED BY <1>1, InboxInvariant, PTL

(* One request never stores two mails with one Message-ID: the look-up     *)
(* before each insertion is enough for everything but overlapping requests. *)
THEOREM StoredOnceEach == InboxSpec => []StoredOncePerRequest
<1>1. InboxInv => StoredOncePerRequest
  BY DEF InboxInv, StoredInv
<1> QED BY <1>1, InboxInvariant, PTL

(* A mail stored to be applied automatically is applied by the request that *)
(* stored it, or that request raised: no other way to leave it pending.    *)
THEOREM PendingHeld == InboxSpec => []PendingIsHeld
<1>1. InboxInv => PendingIsHeld
  BY PendingImplies DEF InboxInv
<1> QED BY <1>1, InboxInvariant, PTL

(* The whole-document saves of a synchronisation take back a setting or a  *)
(* deletion only when it was asked for while a synchronisation ran.        *)
THEOREM SettingHolds == InboxSpec => []UserSettingWins
<1>1. InboxInv => UserSettingWins
  BY DEF InboxInv, SettingInv
<1> QED BY <1>1, InboxInvariant, PTL

(* A synchronisation that runs alone applies the mails of its account in   *)
(* the order of their uids: no older mail takes a job's status back.       *)
THEOREM OlderYields == InboxSpec => OlderMailYields
<1> DEFINE A == \A p \in Process:
         (SaveJob(p) /\ req[p].op = "sync" /\ MailEvent[inbound[req[p].doc].mail] # "jd")
           => LET m == inbound[req[p].doc].mail IN
              \A n \in history.setBy[req[p].job]:
                (MailAccount[n] = MailAccount[m] /\ MailUid[m] < MailUid[n])
                  => req[p].raced \/ m \in history.missed
<1>1. InboxInv => A
  BY OlderImplies DEF InboxInv, Hand
<1>2. InboxInv /\ [InboxNext]_inboxVars => [A]_inboxVars
  BY <1>1
<1> QED BY <1>2, InboxInvariant, PTL DEF InboxSpec, OlderMailYields

(***************************************************************************)
(* The job board.                                                          *)
(***************************************************************************)
LEMMA Statuses ==
  /\ {"new", "matched", "applying", "approved", "tracked", "ignored", "applied"} \subseteq BoardStatus
  /\ "fetched" \in DOMAIN Columns
  /\ \A column \in DOMAIN Columns: TargetFor(column) \subseteq BoardStatus /\ TargetFor(column) # {}
<1> DEFINE C == DOMAIN Columns
<1>1. C = {"fetched", "queued", "applied", "interview", "shortlisted"}
  BY DEF Columns
<1>2. \A column \in C: Columns[column] \subseteq BoardStatus
  BY DEF BoardStatus
<1>3. {"new", "matched", "tracked"} \subseteq Columns["fetched"] /\ "applied" \in Columns["applied"]
      /\ {"applying", "approved"} \subseteq Columns["queued"] /\ "interview" \in Columns["interview"]
      /\ "shortlisted" \in Columns["shortlisted"]
  BY DEF Columns
<1>4. "ignored" \in BoardStatus
  BY DEF BoardStatus, Hidden
<1>5. {"new", "matched", "applying", "approved", "tracked", "ignored", "applied", "interview",
       "shortlisted"} \subseteq BoardStatus
  BY <1>1, <1>2, <1>3, <1>4
<1>6. \A column \in C: TargetFor(column) \subseteq BoardStatus /\ TargetFor(column) # {}
  BY <1>1, <1>5 DEF TargetFor
<1> QED BY <1>1, <1>5, <1>6

ActiveIn(apps, j) == {a \in BoardApp: apps[j][a] = "active"}

(* What a running request holds: a version of the board that was reached,  *)
(* a status to write, and a move back to "fetched" knows of every active   *)
(* application of its job: the one it is cancelling, or one it left.       *)
Taken(r, apps) ==
    r.op = "move" /\ r.column = "fetched" =>
      /\ r.pc \notin {"queue", "queueJob", "requeue", "view", "touch"}
      /\ r.pc \in {"cancelGet", "cancelSave"} => ActiveIn(apps, r.job) \subseteq r.left \union {r.app}
      /\ r.pc \in {"cancelJob", "approve", "read", "save"} => ActiveIn(apps, r.job) \subseteq r.left
Targeted(r) ==
    r.pc \in {"cancel", "cancelGet", "cancelSave", "cancelJob", "approve", "read", "save"} => r.to # {}
Good(r, saves, apps) ==
    r \in BoardRecord /\ r.at <= saves /\ Targeted(r) /\ Taken(r, apps)

Applications == [BoardJob -> [BoardApp -> {"none", "active", "ended"}]]

BoardInv ==
    /\ boardJob \in [BoardJob -> BoardStatus]
    /\ boardApp \in Applications
    /\ boardSaves \in 0..MaxSaves /\ boardCache \in {NoList} \union 0..boardSaves
    /\ boardReq \in [BoardRequest -> BoardRecord]
    /\ \A p \in BoardRequest: Good(boardReq[p], boardSaves, boardApp)
    /\ boardSeen \in [announced: 0..boardSaves, late: BOOLEAN]
    /\ ListShowsMoves

LEMMA FreshGood ==
  ASSUME NEW op \in {"list", "move", "mark", "patch", "get"}, NEW j \in BoardJob, NEW saves \in Nat,
         NEW apps
  PROVE  Good(Fresh(op, j), saves, apps)
<1> DEFINE r == Fresh(op, j)
<1>1. r.pc = "idle" /\ r.at = 0
  BY DEF Fresh
<1>2. r \in BoardRecord
  BY Statuses DEF Fresh, BoardRecord, BoardPC
<1> HIDE DEF r
<1>3. Good(r, saves, apps)
  BY <1>1, <1>2 DEF Good, Taken, Targeted
<1> QED BY <1>3 DEF r

LEMMA BoardInvInit == BoardInit => BoardInv
<1> SUFFICES ASSUME BoardInit PROVE BoardInv
  OBVIOUS
<1>1. \A p \in BoardRequest: Good(boardReq[p], 0, boardApp)
  BY FreshGood DEF BoardInit
<1>2. boardReq \in [BoardRequest -> BoardRecord]
  BY <1>1 DEF BoardInit, Good
<1>3. boardJob \in [BoardJob -> BoardStatus]
  BY Statuses DEF BoardInit
<1>4. boardApp \in Applications
  BY DEF BoardInit, Applications
<1> QED BY <1>1, <1>2, <1>3, <1>4, BoardAssumption
        DEF BoardInit, BoardInv, ListShowsMoves, NoList, BoardAssumption

LEMMA BoardParts ==
  ASSUME BoardInv, NEW p \in BoardRequest
  PROVE  /\ boardReq[p] \in BoardRecord /\ Good(boardReq[p], boardSaves, boardApp)
         /\ boardReq[p].at \in Nat /\ boardReq[p].job \in BoardJob /\ boardReq[p].copy \in BoardStatus
         /\ boardReq[p].to \subseteq BoardStatus /\ boardReq[p].left \subseteq BoardApp
         /\ boardSaves \in Nat
BY DEF BoardInv, BoardRecord, Good

(* Saves only add up, and a request stays good while fewer applications of *)
(* its job are active.                                                     *)
LEMMA GoodStays ==
  ASSUME NEW r, NEW n \in Nat, NEW m \in Nat, n <= m, NEW apps, NEW next, Good(r, n, apps),
         \A j \in BoardJob: ActiveIn(next, j) \subseteq ActiveIn(apps, j)
  PROVE  Good(r, m, next)
<1>1. r \in BoardRecord /\ r.at \in Nat /\ r.job \in BoardJob /\ r.at <= n
  BY DEF Good, BoardRecord
<1>2. r.at <= m
  BY <1>1
<1>3. Taken(r, next)
  BY <1>1 DEF Good, Taken
<1> QED BY <1>1, <1>2, <1>3 DEF Good

LEMMA OneGood ==
  ASSUME BoardInv, NEW p \in BoardRequest, NEW r, boardReq' = [boardReq EXCEPT ![p] = r],
         boardSaves' \in Nat, boardSaves <= boardSaves',
         \A j \in BoardJob: ActiveIn(boardApp', j) \subseteq ActiveIn(boardApp, j),
         Good(r, boardSaves', boardApp')
  PROVE  /\ boardReq' \in [BoardRequest -> BoardRecord]
         /\ \A q \in BoardRequest: Good(boardReq'[q], boardSaves', boardApp')
<1>1. \A q \in BoardRequest: Good(boardReq[q], boardSaves, boardApp) /\ boardSaves \in Nat
  BY BoardParts
<1>2. \A q \in BoardRequest: Good(boardReq[q], boardSaves', boardApp')
  BY <1>1, GoodStays
<1>3. \A q \in BoardRequest: boardReq'[q] = IF q = p THEN r ELSE boardReq[q]
  BY DEF BoardInv
<1>4. r \in BoardRecord
  BY DEF Good
<1> QED BY <1>2, <1>3, <1>4 DEF BoardInv

LEMMA MarkedSaves ==
  ASSUME BoardInv, NEW j \in BoardJob, NEW status \in BoardStatus, NEW requests,
         Write(j, status, requests)
  PROVE  /\ boardJob' \in [BoardJob -> BoardStatus] /\ boardSaves' \in 0..MaxSaves
         /\ boardSaves' = boardSaves + 1 /\ boardReq' = requests /\ boardSaves \in Nat
BY BoardAssumption DEF BoardAssumption, BoardInv, Write

LEMMA BoardMoved ==
  ASSUME BoardInv, NEW p \in BoardRequest, NEW r, boardReq' = [boardReq EXCEPT ![p] = r],
         UNCHANGED <<boardJob, boardSaves, boardCache, boardSeen>>,
         boardApp' \in Applications,
         \A j \in BoardJob: ActiveIn(boardApp', j) \subseteq ActiveIn(boardApp, j),
         Good(r, boardSaves, boardApp')
  PROVE  BoardInv'
<1>1. boardSaves' = boardSaves /\ boardSaves \in Nat
  BY BoardParts
<1>2. Good(r, boardSaves', boardApp')
  BY <1>1
<1>3. /\ boardReq' \in [BoardRequest -> BoardRecord]
      /\ \A q \in BoardRequest: Good(boardReq'[q], boardSaves', boardApp')
  <2>1. boardSaves' \in Nat /\ boardSaves <= boardSaves'
    BY <1>1
  <2> QED BY <1>2, <2>1, OneGood
<1> QED BY <1>3 DEF BoardInv, ListShowsMoves

(* A request that goes on, keeping its record but for the place it is at.  *)
LEMMA Goes ==
  ASSUME NEW r \in BoardRecord, NEW pc \in BoardPC
  PROVE  LET n == [r EXCEPT !.pc = pc] IN
         /\ n \in BoardRecord /\ n.pc = pc /\ n.op = r.op /\ n.column = r.column /\ n.job = r.job
         /\ n.to = r.to /\ n.at = r.at /\ n.left = r.left /\ n.app = r.app
BY DEF BoardRecord

(* A request that marks or patches a job holds the status it will save.    *)
LEMMA ReadGood ==
  ASSUME NEW op \in {"mark", "patch"}, NEW j \in BoardJob, NEW to \in BoardStatus,
         NEW saves \in Nat, NEW apps
  PROVE  Good([Fresh(op, j) EXCEPT !.pc = "read", !.to = {to}], saves, apps)
<1> DEFINE r == [Fresh(op, j) EXCEPT !.pc = "read", !.to = {to}]
<1>1. r.op = op /\ r.pc = "read" /\ r.at = 0 /\ r.to = {to}
  BY DEF Fresh
<1>2. r \in BoardRecord
  <2>1. Fresh(op, j) \in BoardRecord
    BY FreshGood DEF Good
  <2>2. "read" \in BoardPC
    BY DEF BoardPC
  <2> QED BY <2>1, <2>2 DEF BoardRecord
<1> HIDE DEF r
<1>3. Good(r, saves, apps)
  BY <1>1, <1>2 DEF Good, Taken, Targeted
<1> QED BY <1>3 DEF r

(* The steps that begin a request or go on with one, and save nothing.     *)
BoardBegins(p) ==
    \/ ListMisses(p)
    \/ \E j \in BoardJob: \/ Mark(p, j) \/ Patch(p, j) \/ Get(p, j)
                          \/ \E column \in MoveColumns: Move(p, j, column)
BoardGoesOn(p) ==
    \/ ListLoads(p) \/ ListNotStored(p) \/ Read(p) \/ View(p)
    \/ FindActive(p) \/ CancelGet(p) \/ CancelJob(p) \/ InvalidateFails(p)

LEMMA BoardBegun ==
  ASSUME BoardInv, NEW p \in BoardRequest, BoardBegins(p)
  PROVE  BoardInv'
<1> DEFINE old == boardReq[p]
<1>1. old.job \in BoardJob /\ boardSaves \in Nat
  BY BoardParts
<1>2. UNCHANGED <<boardJob, boardApp, boardSaves, boardCache, boardSeen>>
  BY DEF BoardBegins, ListMisses, Mark, Patch, Get, Move, Stays
<1>3. \A op \in {"list", "move", "mark", "patch", "get"}: \A j \in BoardJob:
         Fresh(op, j) \in BoardRecord
  BY FreshGood, <1>1 DEF Good
<1>4. \E r: boardReq' = [boardReq EXCEPT ![p] = r] /\ Good(r, boardSaves, boardApp)
  <2>1. CASE ListMisses(p)
    <3> DEFINE r == [Fresh("list", old.job) EXCEPT !.pc = "load"]
    <3>1. r.op = "list" /\ r.pc = "load" /\ r.at = 0
      BY DEF Fresh
    <3>2. r \in BoardRecord
      <4>1. Fresh("list", old.job) \in BoardRecord /\ "load" \in BoardPC
        BY <1>1, <1>3 DEF BoardPC
      <4> QED BY <4>1, Goes
    <3>3. boardReq' = [boardReq EXCEPT ![p] = r]
      BY <2>1 DEF ListMisses
    <3> HIDE DEF r
    <3>4. Good(r, boardSaves, boardApp)
      BY <1>1, <3>1, <3>2 DEF Good, Taken, Targeted
    <3> QED BY <3>3, <3>4
  <2>2. ASSUME NEW j \in BoardJob, Mark(p, j) \/ Patch(p, j)
        PROVE  \E r: boardReq' = [boardReq EXCEPT ![p] = r] /\ Good(r, boardSaves, boardApp)
    <3>1. CASE Mark(p, j)
      <4> PICK to \in {"tracked", "ignored"}:
             boardReq' = [boardReq EXCEPT ![p] = [Fresh("mark", j) EXCEPT !.pc = "read", !.to = {to}]]
        BY <3>1 DEF Mark
      <4>1. to \in BoardStatus
        BY Statuses
      <4>2. Good([Fresh("mark", j) EXCEPT !.pc = "read", !.to = {to}], boardSaves, boardApp)
        BY <1>1, <4>1, ReadGood
      <4> QED BY <4>2
    <3>2. CASE Patch(p, j)
      <4> PICK to \in Patchable:
             boardReq' = [boardReq EXCEPT ![p] = [Fresh("patch", j) EXCEPT !.pc = "read", !.to = {to}]]
        BY <3>2 DEF Patch
      <4>1. to \in BoardStatus
        BY BoardAssumption DEF BoardAssumption
      <4>2. Good([Fresh("patch", j) EXCEPT !.pc = "read", !.to = {to}], boardSaves, boardApp)
        BY <1>1, <4>1, ReadGood
      <4> QED BY <4>2
    <3> QED BY <2>2, <3>1, <3>2
  <2>3. ASSUME NEW j \in BoardJob, Get(p, j)
        PROVE  \E r: boardReq' = [boardReq EXCEPT ![p] = r] /\ Good(r, boardSaves, boardApp)
    <3> DEFINE r == [Fresh("get", j) EXCEPT !.pc = "view"]
    <3>1. r.op = "get" /\ r.pc = "view" /\ r.at = 0
      BY DEF Fresh
    <3>2. r \in BoardRecord
      <4>1. Fresh("get", j) \in BoardRecord /\ "view" \in BoardPC
        BY <1>3 DEF BoardPC
      <4> QED BY <4>1, Goes
    <3>3. boardReq' = [boardReq EXCEPT ![p] = r]
      BY <2>3 DEF Get
    <3> HIDE DEF r
    <3>4. Good(r, boardSaves, boardApp)
      BY <1>1, <3>1, <3>2 DEF Good, Taken, Targeted
    <3> QED BY <3>3, <3>4
  <2>4. ASSUME NEW j \in BoardJob, NEW column \in MoveColumns, Move(p, j, column)
        PROVE  \E r: boardReq' = [boardReq EXCEPT ![p] = r] /\ Good(r, boardSaves, boardApp)
    <3> DEFINE from == ColumnFor(boardJob[j])
               pc == CASE ShouldQueueApply(from, column) -> "queue"
                       [] column = "fetched" -> "cancel"
                       [] OTHER -> "read"
               r == [Fresh("move", j) EXCEPT !.column = column, !.to = TargetFor(column), !.pc = pc]
    <3>1. column \in DOMAIN Columns /\ TargetFor(column) \subseteq BoardStatus /\ TargetFor(column) # {}
      BY Statuses, BoardAssumption DEF BoardAssumption
    <3>2. /\ pc \in {"queue", "cancel", "read"}
          /\ column = "fetched" => pc = "cancel"
      BY DEF ShouldQueueApply
    <3>3. boardReq' = [boardReq EXCEPT ![p] = r]
      BY <2>4 DEF Move
    <3> HIDE DEF pc
    <3>4. r \in BoardRecord
      <4>1. Fresh("move", j) \in BoardRecord
        BY <1>3
      <4>2. pc \in BoardPC
        BY <3>2 DEF BoardPC
      <4> QED BY <3>1, <4>1, <4>2 DEF BoardRecord
    <3>5. r.pc = pc /\ r.column = column /\ r.to = TargetFor(column) /\ r.at = 0
      BY DEF Fresh
    <3> HIDE DEF r
    <3>6. Good(r, boardSaves, boardApp)
      BY <1>1, <3>1, <3>2, <3>4, <3>5 DEF Good, Taken, Targeted
    <3> QED BY <3>3, <3>6
  <2> QED BY <2>1, <2>2, <2>3, <2>4 DEF BoardBegins
<1> QED BY <1>2, <1>4, BoardMoved DEF BoardInv

LEMMA BoardGone ==
  ASSUME BoardInv, NEW p \in BoardRequest, BoardGoesOn(p)
  PROVE  BoardInv'
<1> DEFINE old == boardReq[p]
<1>1. /\ Good(old, boardSaves, boardApp) /\ old \in BoardRecord
      /\ old.at \in Nat /\ old.job \in BoardJob /\ boardSaves \in Nat /\ old.left \subseteq BoardApp
  BY BoardParts
<1>2. UNCHANGED <<boardJob, boardApp, boardSaves, boardCache, boardSeen>>
  BY DEF BoardGoesOn, ListLoads, ListNotStored, Read, View, FindActive, CancelGet, CancelJob,
         InvalidateFails, Stays
<1>3. Good(Fresh("list", old.job), boardSaves, boardApp)
  BY FreshGood, <1>1
<1>4. ASSUME NEW pc \in {"drop", "delete", "read", "save", "approve", "cancelSave"}
      PROVE  pc \in BoardPC
  BY DEF BoardPC
<1>5. \E r: boardReq' = [boardReq EXCEPT ![p] = r] /\ Good(r, boardSaves, boardApp)
  <2>1. CASE ListLoads(p)
    <3> DEFINE r == [old EXCEPT !.pc = "fill", !.at = boardSaves]
    <3>1. r \in BoardRecord
      BY <1>1 DEF BoardRecord, BoardPC
    <3>2. r.pc = "fill" /\ r.at = boardSaves
      BY <1>1 DEF BoardRecord
    <3>3. boardReq' = [boardReq EXCEPT ![p] = r]
      BY <2>1 DEF ListLoads
    <3> HIDE DEF r
    <3>4. Good(r, boardSaves, boardApp)
      BY <1>1, <3>1, <3>2 DEF Good, Taken, Targeted
    <3> QED BY <3>3, <3>4
  <2>2. CASE ListNotStored(p) \/ InvalidateFails(p)
    BY <2>2, <1>3 DEF ListNotStored, InvalidateFails, BoardEnd
  <2>3. CASE Read(p)
    <3> DEFINE r == [old EXCEPT !.pc = "save"]
    <3>1. /\ r \in BoardRecord /\ r.pc = "save" /\ r.op = old.op /\ r.column = old.column
          /\ r.job = old.job /\ r.to = old.to /\ r.at = old.at /\ r.left = old.left
      BY <1>1, <1>4, Goes
    <3>2. boardReq' = [boardReq EXCEPT ![p] = r] /\ old.pc = "read"
      BY <2>3 DEF Read, BoardGo
    <3> HIDE DEF r
    <3>3. Good(r, boardSaves, boardApp)
      BY <1>1, <3>1, <3>2 DEF Good, Taken, Targeted
    <3> QED BY <3>2, <3>3
  <2>4. CASE View(p)
    <3> DEFINE r1 == [old EXCEPT !.pc = "drop"]
               r2 == [old EXCEPT !.pc = "touch", !.copy = boardJob[old.job]]
    <3>1. \/ boardReq' = [boardReq EXCEPT ![p] = Fresh("list", old.job)]
          \/ boardReq' = [boardReq EXCEPT ![p] = r1]
          \/ boardReq' = [boardReq EXCEPT ![p] = r2]
      BY <2>4 DEF View, AfterSave
    <3>2. /\ r1 \in BoardRecord /\ r1.pc = "drop" /\ r1.at = old.at
      BY <1>1, <1>4, Goes
    <3>3. r2 \in BoardRecord /\ r2.pc = "touch" /\ r2.at = old.at /\ r2.op = old.op /\ r2.column = old.column
      BY <1>1 DEF BoardRecord, BoardPC, BoardInv
    <3>4. old.pc = "view"
      BY <2>4 DEF View
    <3> HIDE DEF r1, r2
    <3>5. Good(r1, boardSaves, boardApp)
      BY <1>1, <3>2 DEF Good, Taken, Targeted
    <3>6. Good(r2, boardSaves, boardApp)
      BY <1>1, <3>3, <3>4 DEF Good, Taken, Targeted
    <3> QED BY <1>3, <3>1, <3>5, <3>6
  <2>5. CASE FindActive(p)
    <3> DEFINE active == ActiveApps(old.job)
    <3>1. active = ActiveIn(boardApp, old.job) /\ old.pc = "cancel" /\ active \subseteq BoardApp
      BY <2>5 DEF ActiveApps, ActiveIn, FindActive
    <3>2. CASE active = {}
      <4> DEFINE r == [old EXCEPT !.pc = "read"]
      <4>1. /\ r \in BoardRecord /\ r.pc = "read" /\ r.op = old.op /\ r.column = old.column
            /\ r.job = old.job /\ r.to = old.to /\ r.at = old.at /\ r.left = old.left
        BY <1>1, <1>4, Goes
      <4>2. boardReq' = [boardReq EXCEPT ![p] = r]
        BY <2>5, <3>2 DEF FindActive, BoardGo
      <4> HIDE DEF r
      <4>3. Good(r, boardSaves, boardApp)
        BY <1>1, <3>1, <3>2, <4>1 DEF Good, Taken, Targeted
      <4> QED BY <4>2, <4>3
    <3>3. CASE active # {}
      <4>1. PICK a \in active:
               boardReq' = [boardReq EXCEPT ![p].pc = "cancelGet", ![p].app = a, ![p].left = active \ {a}]
        BY <2>5, <3>3 DEF FindActive
      <4> DEFINE rest == active \ {a}
                 r == [old EXCEPT !.pc = "cancelGet", !.app = a, !.left = rest]
      <4>2. boardReq' = [boardReq EXCEPT ![p] = r]
        BY <4>1
      <4>3. a \in BoardApp /\ rest \in SUBSET BoardApp /\ active \subseteq rest \union {a}
            /\ "cancelGet" \in BoardPC
        BY <3>1 DEF BoardPC
      <4> HIDE DEF rest, active
      <4>4. /\ r \in BoardRecord /\ r.pc = "cancelGet" /\ r.op = old.op /\ r.column = old.column
            /\ r.job = old.job /\ r.to = old.to /\ r.at = old.at /\ r.left = rest /\ r.app = a
        BY <1>1, <4>3 DEF BoardRecord
      <4> HIDE DEF r
      <4>5. Taken(r, boardApp)
        BY <3>1, <4>3, <4>4 DEF Taken
      <4>6. Good(r, boardSaves, boardApp)
        BY <1>1, <3>1, <4>4, <4>5 DEF Good, Targeted
      <4> QED BY <4>2, <4>6
    <3> QED BY <3>2, <3>3
  <2>6. CASE CancelGet(p)
    <3> DEFINE r == [old EXCEPT !.pc = "cancelSave"]
    <3>1. /\ r \in BoardRecord /\ r.pc = "cancelSave" /\ r.op = old.op /\ r.column = old.column
          /\ r.job = old.job /\ r.to = old.to /\ r.at = old.at /\ r.left = old.left /\ r.app = old.app
      BY <1>1, <1>4, Goes
    <3>2. /\ boardReq' = [boardReq EXCEPT ![p] = r] \/ boardReq' = [boardReq EXCEPT ![p] = Fresh("list", old.job)]
          /\ old.pc = "cancelGet"
      BY <2>6 DEF CancelGet, BoardGo, BoardEnd
    <3> HIDE DEF r
    <3>3. Good(r, boardSaves, boardApp)
      BY <1>1, <3>1, <3>2 DEF Good, Taken, Targeted
    <3> QED BY <1>3, <3>2, <3>3
  <2>7. CASE CancelJob(p)
    <3> DEFINE pc == IF boardJob[old.job] = "applying" THEN "approve" ELSE "read"
               r == [old EXCEPT !.pc = pc]
    <3>1. pc \in {"approve", "read"}
      OBVIOUS
    <3>2. boardReq' = [boardReq EXCEPT ![p] = r] /\ old.pc = "cancelJob"
      BY <2>7 DEF CancelJob, BoardGo
    <3> HIDE DEF pc
    <3>3. /\ r \in BoardRecord /\ r.pc = pc /\ r.op = old.op /\ r.column = old.column
          /\ r.job = old.job /\ r.to = old.to /\ r.at = old.at /\ r.left = old.left
      BY <1>1, <1>4, <3>1, Goes
    <3> HIDE DEF r
    <3>4. Good(r, boardSaves, boardApp)
      BY <1>1, <3>1, <3>2, <3>3 DEF Good, Taken, Targeted
    <3> QED BY <3>2, <3>4
  <2> QED BY <2>1, <2>2, <2>3, <2>4, <2>5, <2>6, <2>7 DEF BoardGoesOn
<1> QED BY <1>2, <1>5, BoardMoved DEF BoardInv

(* An application ends: the one a request cancels, or elsewhere.           *)
LEMMA Ends ==
  ASSUME BoardInv, NEW j \in BoardJob, NEW a, boardApp' = [boardApp EXCEPT ![j][a] = "ended"]
  PROVE  /\ boardApp' \in Applications
         /\ \A i \in BoardJob: ActiveIn(boardApp', i) \subseteq ActiveIn(boardApp, i)
         /\ ActiveIn(boardApp', j) \subseteq ActiveIn(boardApp, j) \ {a}
<1>1. boardApp \in Applications
  BY DEF BoardInv
<1>2. \A i \in BoardJob: \A b \in BoardApp:
         boardApp'[i][b] = IF i = j /\ b = a THEN "ended" ELSE boardApp[i][b]
  BY <1>1 DEF Applications
<1>3. boardApp' \in Applications
  BY <1>1 DEF Applications
<1> QED BY <1>2, <1>3 DEF ActiveIn

LEMMA BoardEnded ==
  ASSUME BoardInv, NEW p \in BoardRequest, CancelSave(p)
  PROVE  BoardInv'
<1> DEFINE old == boardReq[p]
           rest == old.left \ {old.app}
           r == [old EXCEPT !.pc = "cancelJob", !.left = rest, !.app = NoBoardApp]
<1>1. /\ Good(old, boardSaves, boardApp) /\ old \in BoardRecord /\ old.pc = "cancelSave"
      /\ old.at \in Nat /\ old.job \in BoardJob /\ boardSaves \in Nat /\ rest \subseteq BoardApp
  BY BoardParts DEF CancelSave
<1>2. /\ boardReq' = [boardReq EXCEPT ![p] = r]
      /\ boardApp' = [boardApp EXCEPT ![old.job][old.app] = "ended"]
      /\ UNCHANGED <<boardJob, boardSaves, boardCache, boardSeen>>
  BY DEF CancelSave, Stays
<1>3. /\ boardApp' \in Applications
      /\ \A i \in BoardJob: ActiveIn(boardApp', i) \subseteq ActiveIn(boardApp, i)
      /\ ActiveIn(boardApp', old.job) \subseteq ActiveIn(boardApp, old.job) \ {old.app}
  BY <1>1, <1>2, Ends
<1>4. old.op = "move" /\ old.column = "fetched"
        => ActiveIn(boardApp, old.job) \subseteq old.left \union {old.app}
  BY <1>1 DEF Good, Taken
<1>5. old.op = "move" /\ old.column = "fetched" => ActiveIn(boardApp', old.job) \subseteq rest
  BY <1>3, <1>4
<1>6. "cancelJob" \in BoardPC /\ old.to # {}
  BY <1>1 DEF BoardPC, Good, Targeted
<1> HIDE DEF rest
<1>7. /\ r \in BoardRecord /\ r.pc = "cancelJob" /\ r.op = old.op /\ r.column = old.column
      /\ r.job = old.job /\ r.to = old.to /\ r.at = old.at /\ r.left = rest
  BY <1>1, <1>6 DEF BoardRecord
<1> HIDE DEF r
<1>8. Taken(r, boardApp')
  BY <1>5, <1>7 DEF Taken
<1>9. Good(r, boardSaves, boardApp')
  BY <1>1, <1>6, <1>7, <1>8 DEF Good, Targeted
<1> QED BY <1>2, <1>3, <1>9, BoardMoved

(* An application becomes active, and every move back of its job is told.  *)
LEMMA Activates ==
  ASSUME BoardInv, NEW j \in BoardJob, NEW a \in BoardApp,
         NEW requests \in [BoardRequest -> BoardRecord],
         \A q \in BoardRequest: Good(requests[q], boardSaves, boardApp),
         Activate(j, a, requests), UNCHANGED <<boardJob, boardSaves, boardCache, boardSeen>>
  PROVE  BoardInv'
<1>1. boardApp \in Applications
  BY DEF BoardInv
<1>2. boardApp' \in Applications
  BY <1>1 DEF Activate, Applications
<1>3. \A i \in BoardJob: ActiveIn(boardApp', i) \subseteq
                           IF i = j THEN ActiveIn(boardApp, i) \union {a} ELSE ActiveIn(boardApp, i)
  BY <1>1 DEF Activate, Applications, ActiveIn
<1>4. ASSUME NEW q \in BoardRequest
      PROVE  boardReq'[q] \in BoardRecord /\ Good(boardReq'[q], boardSaves', boardApp')
  <2> DEFINE old == requests[q]
             told == TakesBack(old) /\ old.job = j
             left == IF told THEN old.left \union {a} ELSE old.left
             r == [old EXCEPT !.left = left]
  <2>1. /\ Good(old, boardSaves, boardApp) /\ old \in BoardRecord /\ old.left \subseteq BoardApp
        /\ old.job \in BoardJob
    BY DEF BoardRecord
  <2>2. boardReq'[q] = r
    <3>1. old = [old EXCEPT !.left = old.left]
      BY <2>1 DEF BoardRecord
    <3> QED BY <3>1 DEF Activate
  <2>3. left \subseteq BoardApp /\ old.left \subseteq left /\ (told => a \in left)
    BY <2>1
  <2> HIDE DEF left
  <2>4. /\ r \in BoardRecord /\ r.pc = old.pc /\ r.op = old.op /\ r.column = old.column
        /\ r.job = old.job /\ r.to = old.to /\ r.at = old.at /\ r.left = left /\ r.app = old.app
    BY <2>1, <2>3 DEF BoardRecord
  <2> HIDE DEF r
  <2>5. Taken(r, boardApp')
    <3> SUFFICES ASSUME r.op = "move", r.column = "fetched" PROVE Taken(r, boardApp')
      BY DEF Taken
    <3>1. old.op = "move" /\ old.column = "fetched" /\ Taken(old, boardApp)
      BY <2>1, <2>4 DEF Good
    <3>2. CASE old.pc \in {"cancelGet", "cancelSave", "cancelJob", "approve", "read", "save"}
      <4>1. TakesBack(old)
        BY <3>1, <3>2 DEF TakesBack
      <4>2. CASE old.job = j
        <5>1. a \in left
          BY <2>3, <4>1, <4>2
        <5> QED BY <1>3, <2>1, <2>3, <2>4, <3>1, <3>2, <4>2, <5>1 DEF Taken
      <4>3. CASE old.job # j
        BY <1>3, <2>1, <2>3, <2>4, <3>1, <3>2, <4>3 DEF Taken
      <4> QED BY <4>2, <4>3
    <3>3. CASE old.pc \notin {"cancelGet", "cancelSave", "cancelJob", "approve", "read", "save"}
      BY <2>4, <3>1, <3>3 DEF Taken
    <3> QED BY <3>2, <3>3
  <2>6. Good(r, boardSaves, boardApp')
    BY <2>1, <2>4, <2>5 DEF Good, Targeted
  <2> QED BY <2>2, <2>4, <2>6
<1>5. boardReq' \in [BoardRequest -> BoardRecord]
  <2>1. boardReq' = [q \in BoardRequest |-> boardReq'[q]]
    BY DEF Activate
  <2> QED BY <1>4, <2>1
<1> QED BY <1>2, <1>4, <1>5 DEF BoardInv, ListShowsMoves

LEMMA BoardActivated ==
  ASSUME BoardInv, \/ \E p \in BoardRequest: Queue(p) \/ Requeue(p)
                   \/ \E j \in BoardJob: \E a \in BoardApp: AppWritten(j, a)
  PROVE  BoardInv'
<1>1. ASSUME NEW p \in BoardRequest, Queue(p) PROVE BoardInv'
  <2> DEFINE old == boardReq[p]
  <2>1. /\ Good(old, boardSaves, boardApp) /\ old \in BoardRecord /\ old.pc = "queue"
        /\ old.at \in Nat /\ old.job \in BoardJob /\ boardSaves \in Nat
    BY <1>1, BoardParts DEF Queue
  <2>2. UNCHANGED <<boardJob, boardSaves, boardCache, boardSeen>>
    BY <1>1 DEF Queue, Stays
  <2>3. ASSUME NEW pc \in {"queueJob", "requeue"}, NEW a \in BoardApp \union {NoBoardApp}
        PROVE  Good([old EXCEPT !.app = a, !.pc = pc], boardSaves, boardApp)
    <3> DEFINE r == [old EXCEPT !.app = a, !.pc = pc]
    <3>1. pc \in BoardPC
      BY DEF BoardPC
    <3>2. /\ r \in BoardRecord /\ r.pc = pc /\ r.op = old.op /\ r.column = old.column
          /\ r.at = old.at
      BY <2>1, <3>1 DEF BoardRecord
    <3> HIDE DEF r
    <3>3. Good(r, boardSaves, boardApp)
      BY <2>1, <3>2 DEF Good, Taken, Targeted
    <3> QED BY <3>3 DEF r
  <2>4. CASE \E a \in ActiveApps(old.job):
               /\ boardReq' = [boardReq EXCEPT
                     ![p].app = a,
                     ![p].pc = IF boardJob[old.job] = "applying" THEN "requeue" ELSE "queueJob"]
               /\ UNCHANGED boardApp
    <3>1. PICK a \in BoardApp: \E pc \in {"queueJob", "requeue"}:
             boardReq' = [boardReq EXCEPT ![p] = [old EXCEPT !.app = a, !.pc = pc]]
      BY <2>4 DEF ActiveApps
    <3>2. \E r: boardReq' = [boardReq EXCEPT ![p] = r] /\ Good(r, boardSaves, boardApp)
      BY <2>3, <3>1
    <3>3. UNCHANGED boardApp /\ boardApp \in Applications
      BY <2>4 DEF BoardInv
    <3>4. /\ boardApp' \in Applications
          /\ \A j \in BoardJob: ActiveIn(boardApp', j) \subseteq ActiveIn(boardApp, j)
      BY <3>3
    <3>5. PICK r: boardReq' = [boardReq EXCEPT ![p] = r] /\ Good(r, boardSaves, boardApp')
      BY <3>2, <3>3
    <3> QED BY <2>2, <3>4, <3>5, BoardMoved
  <2>5. CASE \E a \in BoardApp: Activate(old.job, a, [boardReq EXCEPT ![p].pc = "queueJob"])
    <3> DEFINE r == [old EXCEPT !.pc = "queueJob"]
               requests == [boardReq EXCEPT ![p] = r]
    <3>1. PICK a \in BoardApp: Activate(old.job, a, requests)
      BY <2>5
    <3>2. Good(r, boardSaves, boardApp)
      <4>1. "queueJob" \in BoardPC
        BY DEF BoardPC
      <4>2. /\ r \in BoardRecord /\ r.pc = "queueJob" /\ r.op = old.op /\ r.column = old.column
            /\ r.at = old.at
        BY <2>1, <4>1, Goes
      <4> HIDE DEF r
      <4> QED BY <2>1, <4>2 DEF Good, Taken, Targeted
    <3> HIDE DEF r
    <3>3. /\ requests \in [BoardRequest -> BoardRecord]
          /\ \A q \in BoardRequest: Good(requests[q], boardSaves, boardApp)
      <4>1. r \in BoardRecord
        BY <3>2 DEF Good
      <4> QED BY <3>2, <4>1 DEF BoardInv
    <3> HIDE DEF requests
    <3> QED BY <2>1, <2>2, <3>1, <3>3, Activates
  <2> QED BY <1>1, <2>4, <2>5 DEF Queue
<1>2. ASSUME NEW p \in BoardRequest, Requeue(p) PROVE BoardInv'
  <2> DEFINE old == boardReq[p]
             seen == [old EXCEPT !.pc = "view", !.app = NoBoardApp]
  <2>1. /\ Good(old, boardSaves, boardApp) /\ old \in BoardRecord /\ old.pc = "requeue"
        /\ old.at \in Nat /\ old.job \in BoardJob /\ boardSaves \in Nat
    BY <1>2, BoardParts DEF Requeue
  <2>2. UNCHANGED <<boardJob, boardSaves, boardCache, boardSeen>>
    BY <1>2 DEF Requeue, Stays
  <2>3. Good(seen, boardSaves, boardApp)
    <3>1. "view" \in BoardPC
      BY DEF BoardPC
    <3>2. /\ seen \in BoardRecord /\ seen.pc = "view" /\ seen.op = old.op /\ seen.column = old.column
          /\ seen.at = old.at
      BY <2>1, <3>1 DEF BoardRecord
    <3> HIDE DEF seen
    <3> QED BY <2>1, <3>2 DEF Good, Taken, Targeted
  <2>4. Good(Fresh("list", old.job), boardSaves, boardApp)
    BY <2>1, FreshGood
  <2> HIDE DEF seen
  <2>5. PICK next \in {seen, Fresh("list", old.job)}:
          \/ old.app \in BoardApp /\ Activate(old.job, old.app, [boardReq EXCEPT ![p] = next])
          \/ boardReq' = [boardReq EXCEPT ![p] = next] /\ UNCHANGED boardApp
    BY <1>2 DEF Requeue, seen
  <2>6. Good(next, boardSaves, boardApp)
    BY <2>3, <2>4
  <2>7. CASE boardReq' = [boardReq EXCEPT ![p] = next] /\ UNCHANGED boardApp
    BY <2>2, <2>6, <2>7, BoardMoved DEF BoardInv
  <2>8. CASE old.app \in BoardApp /\ Activate(old.job, old.app, [boardReq EXCEPT ![p] = next])
    <3> DEFINE requests == [boardReq EXCEPT ![p] = next]
    <3>1. /\ requests \in [BoardRequest -> BoardRecord]
          /\ \A q \in BoardRequest: Good(requests[q], boardSaves, boardApp)
      <4>1. next \in BoardRecord
        BY <2>6 DEF Good
      <4> QED BY <2>6, <4>1 DEF BoardInv
    <3>2. Activate(old.job, old.app, requests)
      BY <2>8
    <3> HIDE DEF requests
    <3> QED BY <2>1, <2>2, <2>8, <3>1, <3>2, Activates
  <2> QED BY <2>5, <2>7, <2>8
<1>3. ASSUME NEW j \in BoardJob, NEW a \in BoardApp, AppWritten(j, a) PROVE BoardInv'
  <2>1. UNCHANGED <<boardJob, boardSaves, boardCache, boardSeen>>
    BY <1>3 DEF AppWritten, Stays
  <2>2. CASE Activate(j, a, boardReq)
    BY <2>1, <2>2, Activates DEF BoardInv
  <2>3. CASE boardApp' = [boardApp EXCEPT ![j][a] = "ended"] /\ UNCHANGED boardReq
    <3>1. /\ boardApp' \in Applications
          /\ \A i \in BoardJob: ActiveIn(boardApp', i) \subseteq ActiveIn(boardApp, i)
      BY <2>3, Ends
    <3>2. boardSaves \in Nat /\ boardSaves <= boardSaves
      BY BoardAssumption DEF BoardInv, BoardAssumption
    <3>3. \A q \in BoardRequest: Good(boardReq[q], boardSaves, boardApp')
      BY <3>1, <3>2, GoodStays DEF BoardInv
    <3> QED BY <2>1, <2>3, <3>1, <3>3 DEF BoardInv, ListShowsMoves
  <2> QED BY <1>3, <2>2, <2>3 DEF AppWritten
<1> QED BY <1>1, <1>2, <1>3

(* A save of a job, of a request or elsewhere, when every request stays good. *)
LEMMA BoardSaved ==
  ASSUME BoardInv, NEW j \in BoardJob, NEW status \in BoardStatus,
         NEW requests \in [BoardRequest -> BoardRecord],
         Write(j, status, requests), UNCHANGED <<boardApp, boardCache, boardSeen>>,
         \A q \in BoardRequest: Good(requests[q], boardSaves + 1, boardApp)
  PROVE  BoardInv'
<1>1. /\ boardJob' \in [BoardJob -> BoardStatus] /\ boardSaves' \in 0..MaxSaves
      /\ boardSaves' = boardSaves + 1 /\ boardReq' = requests /\ boardSaves \in Nat
  BY MarkedSaves
<1>2. \A q \in BoardRequest: Good(boardReq'[q], boardSaves', boardApp')
  BY <1>1
<1>3. /\ boardCache' \in {NoList} \union 0..boardSaves'
      /\ boardSeen' \in [announced: 0..boardSaves', late: BOOLEAN]
  <2>1. 0..boardSaves \subseteq 0..boardSaves'
    BY <1>1
  <2> QED BY <2>1 DEF BoardInv
<1> QED BY <1>1, <1>2, <1>3 DEF BoardInv, ListShowsMoves

(* A save of the request itself.                                           *)
LEMMA BoardSavedBy ==
  ASSUME BoardInv, NEW p \in BoardRequest, NEW status \in BoardStatus, NEW r,
         Write(boardReq[p].job, status, [boardReq EXCEPT ![p] = r]),
         UNCHANGED <<boardApp, boardCache, boardSeen>>,
         Good(r, boardSaves + 1, boardApp)
  PROVE  BoardInv'
<1> DEFINE requests == [boardReq EXCEPT ![p] = r]
<1>1. boardReq[p].job \in BoardJob /\ boardSaves \in Nat
  BY BoardParts
<1>2. boardReq' = requests /\ boardSaves' = boardSaves + 1
  BY DEF Write
<1>3. boardSaves' \in Nat /\ boardSaves <= boardSaves' /\ Good(r, boardSaves', boardApp')
  BY <1>1, <1>2
<1>4. /\ requests \in [BoardRequest -> BoardRecord]
      /\ \A q \in BoardRequest: Good(requests[q], boardSaves + 1, boardApp)
  <2>1. \A i \in BoardJob: ActiveIn(boardApp', i) \subseteq ActiveIn(boardApp, i)
    OBVIOUS
  <2>2. /\ boardReq' \in [BoardRequest -> BoardRecord]
        /\ \A q \in BoardRequest: Good(boardReq'[q], boardSaves', boardApp')
    BY <1>2, <1>3, <2>1, OneGood
  <2> QED BY <1>2, <2>2
<1> HIDE DEF requests
<1>5. Write(boardReq[p].job, status, requests)
  BY DEF requests
<1> QED BY <1>1, <1>4, <1>5, BoardSaved

LEMMA BoardSavesKept ==
  ASSUME BoardInv, NEW p \in BoardRequest, Approve(p) \/ QueueJob(p) \/ Touch(p) \/ Save(p)
  PROVE  BoardInv'
<1> DEFINE old == boardReq[p]
           n == boardSaves + 1
<1>1. /\ Good(old, boardSaves, boardApp) /\ old \in BoardRecord
      /\ old.at \in Nat /\ old.job \in BoardJob /\ boardSaves \in Nat
      /\ old.copy \in BoardStatus /\ old.to \subseteq BoardStatus
  BY BoardParts
<1>2. Good(Fresh("list", old.job), n, boardApp)
  BY FreshGood, <1>1
<1>3. UNCHANGED <<boardApp, boardCache, boardSeen>>
  BY DEF Approve, QueueJob, Touch, Save, Stays
<1>4. n \in Nat /\ boardSaves <= n /\ n <= n /\ old.at <= n
  BY <1>1 DEF Good
<1>5. "read" \in BoardPC /\ "drop" \in BoardPC /\ "requeue" \in BoardPC
  BY DEF BoardPC
<1>6. CASE Approve(p)
  <2> DEFINE r == [old EXCEPT !.pc = "read"]
  <2>1. /\ r \in BoardRecord /\ r.pc = "read" /\ r.op = old.op /\ r.column = old.column
        /\ r.job = old.job /\ r.to = old.to /\ r.at = old.at /\ r.left = old.left
    BY <1>1, <1>5, Goes
  <2>2. Write(old.job, "approved", [boardReq EXCEPT ![p] = r]) /\ old.pc = "approve"
    BY <1>6 DEF Approve
  <2> HIDE DEF r, n
  <2>3. Good(r, n, boardApp)
    BY <1>1, <1>4, <2>1, <2>2 DEF Good, Taken, Targeted
  <2>4. "approved" \in BoardStatus
    BY Statuses
  <2> QED BY <1>3, <2>2, <2>3, <2>4, BoardSavedBy DEF n
<1>7. CASE QueueJob(p)
  <2> DEFINE r == [old EXCEPT !.pc = "requeue", !.at = n]
  <2>1. Write(old.job, "applying", [boardReq EXCEPT ![p] = r]) /\ old.pc = "queueJob"
    BY <1>7 DEF QueueJob
  <2> HIDE DEF n
  <2>2. r \in BoardRecord /\ r.pc = "requeue" /\ r.at = n /\ r.op = old.op /\ r.column = old.column
    BY <1>1, <1>4, <1>5 DEF BoardRecord
  <2> HIDE DEF r
  <2>3. Good(r, n, boardApp)
    BY <1>1, <1>4, <2>1, <2>2 DEF Good, Taken, Targeted
  <2>4. "applying" \in BoardStatus
    BY Statuses
  <2> QED BY <1>3, <2>1, <2>3, <2>4, BoardSavedBy DEF n
<1>8. CASE Touch(p)
  <2> DEFINE r == [old EXCEPT !.pc = "drop"]
  <2>1. PICK next \in {r, Fresh("list", old.job)}: Write(old.job, old.copy, [boardReq EXCEPT ![p] = next])
    BY <1>8 DEF Touch, AfterSave
  <2>2. r \in BoardRecord /\ r.pc = "drop" /\ r.at = old.at
    BY <1>1, <1>5, Goes
  <2> HIDE DEF r, n
  <2>3. Good(r, n, boardApp)
    BY <1>4, <2>2 DEF Good, Taken, Targeted
  <2>4. Good(next, n, boardApp)
    BY <1>2, <2>3
  <2> QED BY <1>1, <1>3, <2>1, <2>4, BoardSavedBy DEF n
<1>9. CASE Save(p)
  <2> DEFINE r == [old EXCEPT !.at = n, !.pc = "drop"]
  <2>1. PICK status \in old.to: \E next \in {r, Fresh("list", old.job)}:
           Write(old.job, status, [boardReq EXCEPT ![p] = next])
    <3>1. [old EXCEPT !.at = n].job = old.job
      BY <1>1 DEF BoardRecord
    <3>2. AfterSave([old EXCEPT !.at = n]) \in {r, Fresh("list", old.job)}
      BY <3>1 DEF AfterSave
    <3> QED BY <1>9, <3>2 DEF Save
  <2>2. r \in BoardRecord /\ r.pc = "drop" /\ r.at = n
    <3> HIDE DEF n
    <3> QED BY <1>1, <1>4, <1>5 DEF BoardRecord
  <2> HIDE DEF r, n
  <2>3. Good(r, n, boardApp)
    BY <1>4, <2>2 DEF Good, Taken, Targeted
  <2>4. PICK next \in {r, Fresh("list", old.job)}: Write(old.job, status, [boardReq EXCEPT ![p] = next])
    BY <2>1
  <2>5. Good(next, n, boardApp)
    BY <1>2, <2>3
  <2> QED BY <1>1, <1>3, <2>4, <2>5, BoardSavedBy DEF n
<1> QED BY <1>6, <1>7, <1>8, <1>9

LEMMA BoardStep == BoardInv /\ [BoardNext]_boardVars => BoardInv'
<1> SUFFICES ASSUME BoardInv, [BoardNext]_boardVars PROVE BoardInv'
  OBVIOUS
<1>1. CASE UNCHANGED boardVars
  BY <1>1 DEF boardVars, BoardInv, ListShowsMoves
<1>2. CASE CacheExpires
  BY <1>2 DEF CacheExpires, BoardInv, ListShowsMoves
<1>3. ASSUME NEW j \in BoardJob, JobWritten(j) PROVE BoardInv'
  <2>1. PICK status \in BoardStatus: Write(j, status, boardReq)
    BY <1>3, BoardAssumption DEF JobWritten, BoardAssumption
  <2>2. UNCHANGED <<boardApp, boardCache, boardSeen>>
    BY <1>3 DEF JobWritten, Stays
  <2>3. boardReq \in [BoardRequest -> BoardRecord] /\ boardSaves \in Nat
    BY BoardAssumption DEF BoardInv, BoardAssumption
  <2>4. \A q \in BoardRequest: Good(boardReq[q], boardSaves + 1, boardApp)
    BY <2>3, GoodStays DEF BoardInv
  <2> QED BY <2>1, <2>2, <2>3, <2>4, BoardSaved
<1>4. ASSUME NEW p \in BoardRequest, ListFills(p) \/ Scan(p) \/ Delete(p) PROVE BoardInv'
  <2> DEFINE old == boardReq[p]
             fresh == Fresh("list", old.job)
             going == [old EXCEPT !.pc = "delete"]
  <2>1. /\ old.job \in BoardJob /\ old.at \in Nat /\ old.at <= boardSaves /\ boardSaves \in Nat
        /\ old \in BoardRecord
    BY BoardParts DEF Good
  <2>2. /\ boardReq' = [boardReq EXCEPT ![p] = fresh] \/ boardReq' = [boardReq EXCEPT ![p] = going]
        /\ UNCHANGED <<boardJob, boardApp, boardSaves>>
    BY <1>4 DEF ListFills, Scan, Delete, Invalidated, BoardEnd, BoardGo
  <2>3. Good(fresh, boardSaves, boardApp)
    BY <2>1, FreshGood
  <2>4. Good(going, boardSaves, boardApp)
    <3>1. "delete" \in BoardPC
      BY DEF BoardPC
    <3>2. going \in BoardRecord /\ going.pc = "delete" /\ going.at = old.at
      BY <2>1, <3>1, Goes
    <3> HIDE DEF going
    <3> QED BY <2>1, <3>2 DEF Good, Taken, Targeted
  <2> HIDE DEF fresh, going
  <2>5. /\ boardReq' \in [BoardRequest -> BoardRecord]
        /\ \A q \in BoardRequest: Good(boardReq'[q], boardSaves', boardApp')
    <3>1. PICK r \in {fresh, going}: boardReq' = [boardReq EXCEPT ![p] = r]
      BY <2>2
    <3>2. boardSaves' \in Nat /\ boardSaves <= boardSaves' /\ Good(r, boardSaves', boardApp')
      BY <2>1, <2>2, <2>3, <2>4
    <3>3. \A i \in BoardJob: ActiveIn(boardApp', i) \subseteq ActiveIn(boardApp, i)
      BY <2>2
    <3> QED BY <3>1, <3>2, <3>3, OneGood
  <2>6. boardSeen.announced \in 0..boardSaves /\ boardSeen.late \in BOOLEAN
        /\ boardSeen \in [announced: 0..boardSaves, late: BOOLEAN]
    BY DEF BoardInv
  <2>7. /\ boardCache' \in {NoList} \union 0..boardSaves
        /\ boardSeen' \in [announced: 0..boardSaves, late: BOOLEAN]
        /\ boardCache' = NoList \/ boardCache' >= boardSeen'.announced \/ boardSeen'.late
    <3>1. CASE ListFills(p)
      <4> DEFINE late == old.at < boardSeen.announced
      <4>1. /\ boardCache' = old.at /\ boardSeen' \in [announced: 0..boardSaves, late: BOOLEAN]
            /\ boardSeen'.announced = boardSeen.announced /\ boardSeen'.late = late
        <5>1. boardCache' = old.at /\ boardSeen' = [boardSeen EXCEPT !.late = late]
          BY <3>1 DEF ListFills
        <5>2. late \in BOOLEAN
          OBVIOUS
        <5> HIDE DEF late
        <5> QED BY <2>6, <5>1, <5>2
      <4> QED BY <2>1, <2>6, <4>1
    <3>2. CASE Invalidated(p) /\ boardCache' = NoList
      BY <2>1, <2>6, <3>2 DEF Invalidated
    <3>3. CASE UNCHANGED <<boardCache, boardSeen>>
      BY <3>3 DEF BoardInv, ListShowsMoves
    <3>4. Scan(p) \/ Delete(p) => \/ Invalidated(p) /\ boardCache' = NoList
                                  \/ UNCHANGED <<boardCache, boardSeen>>
      BY DEF Scan, Delete
    <3> QED BY <1>4, <3>1, <3>2, <3>3, <3>4
  <2> QED BY <2>2, <2>5, <2>7 DEF BoardInv, ListShowsMoves
<1>5. ASSUME NEW p \in BoardRequest,
             BoardBegins(p) \/ BoardGoesOn(p) \/ CancelSave(p)
               \/ Approve(p) \/ QueueJob(p) \/ Touch(p) \/ Save(p)
      PROVE  BoardInv'
  BY <1>5, BoardBegun, BoardGone, BoardEnded, BoardSavesKept
<1> QED BY <1>1, <1>2, <1>3, <1>4, <1>5, BoardActivated DEF BoardNext, BoardBegins, BoardGoesOn

(***************************************************************************)
(* The theorems of the board.                                              *)
(***************************************************************************)
(* Jobs, cache and requests keep their types, and a request that saves has *)
(* a status to write.                                                      *)
THEOREM BoardTypeCorrect == BoardSpec => []BoardTypes
<1>1. BoardInv => BoardTypes
  BY DEF BoardInv, BoardTypes, Good, Targeted, Applications
<1> QED BY <1>1, BoardInvInit, BoardStep, PTL DEF BoardSpec

(* The cached list of the board shows every save its request invalidated   *)
(* the list for, unless a list loaded before was stored after that: for    *)
(* any number of requests, jobs and saves.                                 *)
THEOREM MovesShown == BoardSpec => []ListShowsMoves
<1>1. BoardInv => ListShowsMoves
  BY DEF BoardInv
<1> QED BY <1>1, BoardInvInit, BoardStep, PTL DEF BoardSpec

(* move_to_column("fetched") saves the job only once the application that  *)
(* it found is not active, nor any other of the job but those that were    *)
(* active beside it or became so since: for any number of applications.    *)
THEOREM TakenBack == BoardSpec => TakenBackIsCancelled
<1> DEFINE A == \A p \in BoardRequest:
         (Save(p) /\ TakesBack(boardReq[p]))
           => ActiveApps(boardReq[p].job) \subseteq boardReq[p].left
<1>1. BoardInv => A
  <2> SUFFICES ASSUME BoardInv, NEW p \in BoardRequest, Save(p), TakesBack(boardReq[p])
               PROVE  ActiveApps(boardReq[p].job) \subseteq boardReq[p].left
    OBVIOUS
  <2>1. Taken(boardReq[p], boardApp) /\ boardReq[p].pc = "save"
        /\ boardReq[p].op = "move" /\ boardReq[p].column = "fetched"
    BY DEF BoardInv, Good, Save, TakesBack
  <2> QED BY <2>1 DEF Taken, ActiveIn, ActiveApps
<1>2. BoardInv /\ [BoardNext]_boardVars => [A]_boardVars
  BY <1>1
<1> QED BY <1>2, BoardInvInit, BoardStep, PTL DEF BoardSpec, TakenBackIsCancelled

(***************************************************************************)
(* The intake of postings.                                                 *)
(***************************************************************************)
StoredJob == [posting: Posting, src: Source, by: Intake, match: {"held", "published", "failed"},
              status: {"new", "applied", "duplicate"}]
IntakeRecord == [pc: IntakePC, src: Source, todo: SUBSET Posting, job: Nat, item: SUBSET Posting]

(* What a running request holds.                                           *)
Holds(r) ==
    /\ r \in IntakeRecord
    /\ r.pc # "idle" => \E x \in Posting: r.item = {x}
    /\ r.pc \in {"remember", "publish"} => r.job \in Stored
    /\ r.pc = "ext" => r.src = "portal"
    /\ r.pc = "mark" => r.src = "extension"

(* What DedupeService answered, of the jobs the request itself has stored: *)
(* nobody else stores them, so the answer holds until the insertion.       *)
Distinct(r, c, y) ==
    LET x == stored[c].posting
    IN  /\ Url[x] = Url[y] /\ Url[x] # NoUrl => r.src = "extension" /\ Hash[x] # Hash[y]
        /\ (r.pc = "insert" /\ r.src = "portal") => ExtId[x] # ExtId[y]
Answered(p, r) ==
    r.pc \in {"ext", "insert"} =>
      \A c \in Stored: stored[c].by = p => \A y \in r.item: Distinct(r, c, y)

IntakeInv ==
    /\ stored \in Seq(StoredJob)
    /\ begun \in 0..MaxIntakes /\ bloom \subseteq {Hash[x]: x \in Posting}
    /\ intake \in [Intake -> IntakeRecord]
    /\ \A p \in Intake: Holds(intake[p]) /\ Answered(p, intake[p])
    /\ StoredOnce /\ StoredIsPublished

LEMMA RestHolds == Holds(Resting) /\ \A p: Answered(p, Resting)
BY DEF Holds, Answered, Resting, IntakeRecord, IntakePC, Source

LEMMA IntakeInvInit == IntakeInit => IntakeInv
<1> SUFFICES ASSUME IntakeInit PROVE IntakeInv
  OBVIOUS
<1>1. stored = <<>> /\ stored \in Seq(StoredJob) /\ Stored = {}
  BY DEF IntakeInit, Stored
<1>2. \A p \in Intake: intake[p] = Resting
  BY DEF IntakeInit
<1>3. intake \in [Intake -> IntakeRecord]
  BY RestHolds DEF IntakeInit, Holds
<1>4. 0 \in 0..MaxIntakes
  BY IntakeAssumption DEF IntakeAssumption
<1> QED BY <1>1, <1>2, <1>3, <1>4, RestHolds
        DEF IntakeInit, IntakeInv, StoredOnce, StoredIsPublished

LEMMA FurtherHolds ==
  ASSUME NEW old \in IntakeRecord, NEW r \in Further(old)
  PROVE  Holds(r) /\ r.pc \in {"idle", "bloom"}
<1>1. CASE r = Resting
  BY <1>1, RestHolds DEF Resting
<1>2. CASE \E x \in old.todo: r = [old EXCEPT !.pc = "bloom", !.item = {x}, !.todo = @ \ {x}, !.job = 0]
  <2>1. PICK x \in old.todo: r = [old EXCEPT !.pc = "bloom", !.item = {x}, !.todo = @ \ {x}, !.job = 0]
    BY <1>2
  <2>2. x \in Posting
    BY DEF IntakeRecord
  <2>3. r \in IntakeRecord /\ r.pc = "bloom" /\ r.item = {x}
    BY <2>1, <2>2 DEF IntakeRecord, IntakePC
  <2> QED BY <2>2, <2>3 DEF Holds
<1> QED BY <1>1, <1>2 DEF Further

LEMMA IntakeParts ==
  ASSUME IntakeInv, NEW p \in Intake
  PROVE  /\ intake[p] \in IntakeRecord /\ Holds(intake[p]) /\ Answered(p, intake[p])
         /\ intake[p].pc \in IntakePC /\ intake[p].src \in Source /\ intake[p].job \in Nat
         /\ intake[p].pc # "idle" => Item(p) \in Posting /\ intake[p].item = {Item(p)}
<1>1. intake[p] \in IntakeRecord /\ Holds(intake[p]) /\ Answered(p, intake[p])
  BY DEF IntakeInv
<1>2. intake[p].pc \in IntakePC /\ intake[p].src \in Source /\ intake[p].job \in Nat
  BY <1>1 DEF IntakeRecord
<1>3. ASSUME intake[p].pc # "idle" PROVE Item(p) \in Posting /\ intake[p].item = {Item(p)}
  <2>1. PICK x \in Posting: intake[p].item = {x}
    BY <1>1, <1>3 DEF Holds
  <2> QED BY <2>1 DEF Item
<1> QED BY <1>1, <1>2, <1>3

LEMMA StoredParts ==
  ASSUME NEW s \in Seq(StoredJob)
  PROVE  /\ DOMAIN s = 1..Len(s) /\ Len(s) \in Nat
         /\ \A c \in DOMAIN s: /\ s[c] \in StoredJob /\ s[c].posting \in Posting /\ s[c].src \in Source
                               /\ s[c].by \in Intake
<1>1. \A c \in DOMAIN s: s[c] \in StoredJob
  OBVIOUS
<1> QED BY <1>1 DEF StoredJob

(* A step of one request that inserts nothing: the jobs stay who they are, *)
(* and one that the request held for matching it still holds, or no more.  *)
Keeps(p, r) ==
    \A c \in Stored: /\ stored'[c].posting = stored[c].posting /\ stored'[c].src = stored[c].src
                     /\ stored'[c].by = stored[c].by
                     /\ stored'[c].match = "held" =>
                          /\ stored[c].match = "held"
                          /\ stored[c].by = p =>
                               r.pc \in {"remember", "publish"} /\ r.job = intake[p].job

LEMMA IntakeMoved ==
  ASSUME IntakeInv, NEW p \in Intake, NEW r, intake' = [intake EXCEPT ![p] = r],
         Holds(r), Answered(p, r),
         begun' \in 0..MaxIntakes, bloom' \subseteq {Hash[x]: x \in Posting},
         stored' \in Seq(StoredJob), Stored' = Stored, Keeps(p, r)
  PROVE  IntakeInv'
<1> USE DEF Keeps
<1>1. r \in IntakeRecord
  BY DEF Holds
<1>2. \A q \in Intake: intake'[q] = IF q = p THEN r ELSE intake[q]
  BY DEF IntakeInv
<1>3. \A c \in Stored: stored[c].by \in Intake
  BY StoredParts DEF IntakeInv, Stored
<1>5. ASSUME NEW q \in Intake PROVE Holds(intake[q])' /\ Answered(q, intake[q])'
  <2>1. PICK s: s = intake'[q] /\ Holds(s) /\ Answered(q, s)
    BY <1>2 DEF IntakeInv
  <2>2. s = intake'[q] /\ Holds(s)'
    BY <2>1 DEF Holds
  <2>3. Answered(q, s)'
    BY <2>1 DEF Answered, Distinct
  <2>4. Holds(intake[q])'
    BY <2>2 DEF Holds
  <2>5. Answered(q, intake[q])'
    BY <2>2, <2>3 DEF Answered, Distinct
  <2> QED BY <2>4, <2>5
<1>6. StoredOnce'
  <2>1. StoredOnce
    BY DEF IntakeInv
  <2>2. \A c \in Stored: stored'[c].posting = stored[c].posting /\ stored'[c].by = stored[c].by
                        /\ stored'[c].src = stored[c].src
    OBVIOUS
  <2> QED BY <2>1, <2>2 DEF StoredOnce
<1>7. StoredIsPublished'
  BY <1>2, <1>3 DEF IntakeInv, StoredIsPublished
<1>8. intake' \in [Intake -> IntakeRecord]
  BY <1>1 DEF IntakeInv
<1>9. /\ stored' \in Seq(StoredJob) /\ begun' \in 0..MaxIntakes
      /\ bloom' \subseteq {Hash[x]: x \in Posting}
  OBVIOUS
<1> QED BY <1>5, <1>6, <1>7, <1>8, <1>9 DEF IntakeInv

(* The request goes on to another question, posting or end.                *)
LEMMA StepHolds ==
  ASSUME NEW old \in IntakeRecord, Holds(old), old.pc # "idle", NEW pc \in IntakePC,
         pc = "ext" => old.src = "portal", pc = "mark" => old.src = "extension",
         pc \in {"remember", "publish"} => old.pc \in {"remember", "publish"}
  PROVE  LET r == [old EXCEPT !.pc = pc]
         IN  Holds(r) /\ r.pc = pc /\ r.src = old.src /\ r.item = old.item /\ r.job = old.job
BY DEF Holds, IntakeRecord

LEMMA OntoHolds ==
  ASSUME IntakeInv, NEW p \in Intake, Onto(p)
  PROVE  \E r: /\ intake' = [intake EXCEPT ![p] = r]
               /\ Holds(r) /\ r.pc \in {"idle", "bloom"}
BY FurtherHolds, IntakeParts DEF Onto

LEMMA DuplicateHolds ==
  ASSUME IntakeInv, NEW p \in Intake, intake[p].pc # "idle", Duplicate(p)
  PROVE  \E r: /\ intake' = [intake EXCEPT ![p] = r]
               /\ Holds(r) /\ r.pc \in {"idle", "bloom", "mark"}
<1>1. CASE intake[p].src = "portal"
  BY <1>1, OntoHolds DEF Duplicate
<1>2. CASE intake[p].src # "portal"
  <2> DEFINE old == intake[p]
             r == [old EXCEPT !.pc = "mark"]
  <2>1. old \in IntakeRecord /\ Holds(old) /\ old.src = "extension" /\ "mark" \in IntakePC
    BY <1>2, IntakeParts DEF Source, IntakePC
  <2>2. Holds(r) /\ r.pc = "mark"
    BY <2>1, StepHolds
  <2>3. intake' = [intake EXCEPT ![p] = r]
    BY <1>2 DEF Duplicate, Step
  <2> QED BY <2>2, <2>3
<1> QED BY <1>1, <1>2

LEMMA UrlAnswered ==
  ASSUME IntakeInv, NEW p \in Intake, AskDatabase(p), ~Duplicate(p)
  PROVE  \E r: /\ intake' = [intake EXCEPT ![p] = r]
               /\ Holds(r) /\ Answered(p, r)
<1> DEFINE old == intake[p]
           pc == IF old.src = "portal" THEN "ext" ELSE "insert"
           r == [old EXCEPT !.pc = pc]
<1>1. old \in IntakeRecord /\ Holds(old) /\ old.pc = "url" /\ old.item = {Item(p)}
  BY IntakeParts DEF AskDatabase, At
<1>2. intake' = [intake EXCEPT ![p] = r] /\ SameUrl(Item(p)) = {}
  BY DEF AskDatabase, Step
<1>3. pc \in IntakePC /\ pc \in {"ext", "insert"} /\ (pc = "ext" <=> old.src = "portal")
  BY DEF IntakePC
<1> HIDE DEF pc
<1>4. Holds(r) /\ r.pc = pc /\ r.src = old.src /\ r.item = old.item
  BY <1>1, <1>3, StepHolds
<1>5. \A c \in Stored: Url[Item(p)] = NoUrl \/ Url[stored[c].posting] # Url[Item(p)]
  BY <1>2 DEF SameUrl
<1>6. Answered(p, r)
  BY <1>1, <1>3, <1>4, <1>5 DEF Answered, Distinct
<1> QED BY <1>2, <1>4, <1>6

LEMMA ExtAnswered ==
  ASSUME IntakeInv, NEW p \in Intake, AskExternalId(p)
  PROVE  \E r: /\ intake' = [intake EXCEPT ![p] = r]
               /\ Holds(r) /\ Answered(p, r)
<1>1. CASE Onto(p)
  BY <1>1, OntoHolds DEF Answered
<1>2. CASE ~Onto(p)
  <2> DEFINE old == intake[p]
             r == [old EXCEPT !.pc = "insert"]
  <2>1. old \in IntakeRecord /\ Holds(old) /\ old.pc = "ext" /\ old.item = {Item(p)}
        /\ Answered(p, old) /\ "insert" \in IntakePC
    BY IntakeParts DEF AskExternalId, At, IntakePC
  <2>2. intake' = [intake EXCEPT ![p] = r] /\ SameExt(Item(p)) = {}
    BY <1>2 DEF AskExternalId, Step
  <2>3. Holds(r) /\ r.pc = "insert" /\ r.src = old.src /\ r.item = old.item
    BY <2>1, StepHolds
  <2>4. \A c \in Stored: ExtId[stored[c].posting] # ExtId[Item(p)]
    BY <2>2 DEF SameExt
  <2>5. Answered(p, r)
    BY <2>1, <2>3, <2>4 DEF Answered, Distinct
  <2> QED BY <2>2, <2>3, <2>5
<1> QED BY <1>1, <1>2

LEMMA MarkAnswered ==
  ASSUME IntakeInv, NEW p \in Intake, intake[p].pc = "mark", SameHash(Item(p)) = {}, Step(p, "insert")
  PROVE  \E r: /\ intake' = [intake EXCEPT ![p] = r]
               /\ Holds(r) /\ Answered(p, r)
<1> DEFINE old == intake[p]
           r == [old EXCEPT !.pc = "insert"]
<1>1. old \in IntakeRecord /\ Holds(old) /\ old.pc = "mark" /\ old.item = {Item(p)}
      /\ "insert" \in IntakePC
  BY IntakeParts DEF IntakePC
<1>2. intake' = [intake EXCEPT ![p] = r] /\ old.src = "extension"
  BY <1>1 DEF Step, Holds
<1>3. Holds(r) /\ r.pc = "insert" /\ r.src = old.src /\ r.item = old.item
  BY <1>1, StepHolds
<1>4. \A c \in Stored: Hash[stored[c].posting] # Hash[Item(p)]
  BY DEF SameHash
<1>5. Answered(p, r)
  BY <1>1, <1>2, <1>3, <1>4 DEF Answered, Distinct
<1> QED BY <1>2, <1>3, <1>5

(* The steps that leave the stored jobs alone.                             *)
LEMMA Questions ==
  ASSUME IntakeInv, NEW p \in Intake,
         \/ StartFetch(p) \/ StartShare(p) \/ AskBloom(p) \/ BloomFails(p) \/ AskDatabase(p)
         \/ AskExternalId(p) \/ Remember(p)
         \/ MarkDuplicate(p) /\ UNCHANGED stored /\ SameHash(Item(p)) = {}
  PROVE  \E r: /\ intake' = [intake EXCEPT ![p] = r]
               /\ Holds(r) /\ Answered(p, r)
               /\ r.pc \in {"remember", "publish"} =>
                    intake[p].pc = "remember" /\ r.job = intake[p].job
<1> DEFINE old == intake[p]
<1>1. old \in IntakeRecord /\ Holds(old)
  BY IntakeParts
<1>2. CASE StartFetch(p)
  <2>1. PICK found \in SUBSET Posting:
           \E r \in Further([Resting EXCEPT !.todo = found]): intake' = [intake EXCEPT ![p] = r]
    BY <1>2 DEF StartFetch
  <2>2. [Resting EXCEPT !.todo = found] \in IntakeRecord
    BY DEF Resting, IntakeRecord, IntakePC, Source
  <2>3. \A r \in Further([Resting EXCEPT !.todo = found]): Holds(r) /\ r.pc \in {"idle", "bloom"}
    BY <2>2, FurtherHolds
  <2> QED BY <2>1, <2>3 DEF Answered
<1>3. CASE StartShare(p)
  <2>1. PICK x \in Posting: intake' = [intake EXCEPT ![p] =
           [Resting EXCEPT !.pc = "bloom", !.src = "extension", !.item = {x}]]
    BY <1>3 DEF StartShare
  <2> DEFINE r == [Resting EXCEPT !.pc = "bloom", !.src = "extension", !.item = {x}]
  <2>2. Holds(r) /\ r.pc = "bloom"
    BY DEF Resting, Holds, IntakeRecord, IntakePC, Source
  <2> QED BY <2>1, <2>2 DEF Answered
<1>4. ASSUME old.pc \in {"bloom", "url"}, Duplicate(p)
      PROVE  \E r: /\ intake' = [intake EXCEPT ![p] = r]
                   /\ Holds(r) /\ Answered(p, r) /\ r.pc \in {"idle", "bloom", "mark"}
  BY <1>4, DuplicateHolds DEF Answered
<1>5. ASSUME old.pc = "bloom", Step(p, "url")
      PROVE  \E r: /\ intake' = [intake EXCEPT ![p] = r]
                   /\ Holds(r) /\ Answered(p, r) /\ r.pc = "url"
  <2> DEFINE r == [old EXCEPT !.pc = "url"]
  <2>1. "url" \in IntakePC
    BY DEF IntakePC
  <2>2. Holds(r) /\ r.pc = "url"
    BY <1>1, <1>5, <2>1, StepHolds
  <2>3. intake' = [intake EXCEPT ![p] = r]
    BY <1>5 DEF Step
  <2> QED BY <2>2, <2>3 DEF Answered
<1>6. CASE AskBloom(p) \/ BloomFails(p)
  BY <1>4, <1>5, <1>6 DEF AskBloom, BloomFails, At
<1>7. CASE AskDatabase(p)
  <2>1. old.pc = "url"
    BY <1>7 DEF AskDatabase, At
  <2>2. CASE Duplicate(p)
    BY <1>4, <2>1, <2>2
  <2>3. CASE ~Duplicate(p)
    <3>1. PICK r: intake' = [intake EXCEPT ![p] = r] /\ Holds(r) /\ Answered(p, r)
      BY <1>7, <2>3, UrlAnswered
    <3>2. intake' = [intake EXCEPT ![p].pc = IF old.src = "portal" THEN "ext" ELSE "insert"]
      BY <1>7, <2>3 DEF AskDatabase, Step
    <3>3. r.pc \in {"ext", "insert"}
      BY <1>1, <3>1, <3>2 DEF IntakeInv, IntakeRecord
    <3> QED BY <3>1, <3>3
  <2> QED BY <2>2, <2>3
<1>8. CASE AskExternalId(p)
  <2>1. PICK r: intake' = [intake EXCEPT ![p] = r] /\ Holds(r) /\ Answered(p, r)
    BY <1>8, ExtAnswered
  <2>2. r = intake'[p]
    BY <2>1 DEF IntakeInv
  <2>3. CASE Onto(p)
    BY <2>2, <2>3, <2>1, OntoHolds DEF IntakeInv
  <2>4. CASE Step(p, "insert")
    <3>1. r.pc = "insert"
      BY <1>1, <2>2, <2>4 DEF Step, IntakeInv, IntakeRecord
    <3> QED BY <2>1, <3>1
  <2> QED BY <1>8, <2>1, <2>3, <2>4 DEF AskExternalId
<1>9. CASE Remember(p)
  <2> DEFINE r == [old EXCEPT !.pc = "publish"]
  <2>1. "publish" \in IntakePC /\ old.pc = "remember"
    BY <1>9 DEF IntakePC, Remember, At
  <2>2. Holds(r) /\ r.pc = "publish" /\ r.job = old.job
    BY <1>1, <2>1, StepHolds
  <2>3. intake' = [intake EXCEPT ![p] = r]
    BY <1>9 DEF Remember, Step
  <2> QED BY <2>1, <2>2, <2>3 DEF Answered
<1>10. CASE MarkDuplicate(p) /\ UNCHANGED stored /\ SameHash(Item(p)) = {}
  <2>1. old.pc = "mark" /\ Step(p, "insert")
    BY <1>10 DEF MarkDuplicate, At
  <2>2. PICK r: intake' = [intake EXCEPT ![p] = r] /\ Holds(r) /\ Answered(p, r)
    BY <1>10, <2>1, MarkAnswered
  <2>3. r.pc = "insert"
    BY <1>1, <2>1, <2>2 DEF Step, IntakeInv, IntakeRecord
  <2> QED BY <2>2, <2>3
<1> QED BY <1>2, <1>3, <1>6, <1>7, <1>8, <1>9, <1>10

(* A stored job changes its status or what became of its publication.      *)
LEMMA JobChanges ==
  ASSUME IntakeInv, NEW c \in Stored,
         \/ \E s \in {"new", "applied", "duplicate"}: stored' = [stored EXCEPT ![c].status = s]
         \/ \E m \in {"published", "failed"}: stored' = [stored EXCEPT ![c].match = m]
  PROVE  /\ stored' \in Seq(StoredJob) /\ Stored' = Stored
         /\ \A d \in Stored: /\ stored'[d].posting = stored[d].posting /\ stored'[d].src = stored[d].src
                             /\ stored'[d].by = stored[d].by
                             /\ stored'[d].match = "held" => stored[d].match = "held"
         /\ (\E m \in {"published", "failed"}: stored' = [stored EXCEPT ![c].match = m])
              => stored'[c].match # "held"
<1>1. stored \in Seq(StoredJob) /\ stored[c] \in StoredJob
  BY StoredParts DEF IntakeInv, Stored
<1>2. PICK d: /\ stored' = [stored EXCEPT ![c] = d]
              /\ \/ \E s \in {"new", "applied", "duplicate"}: d = [stored[c] EXCEPT !.status = s]
                 \/ \E m \in {"published", "failed"}: d = [stored[c] EXCEPT !.match = m]
              /\ (\E m \in {"published", "failed"}: stored' = [stored EXCEPT ![c].match = m])
                   => \E m \in {"published", "failed"}: d = [stored[c] EXCEPT !.match = m]
  <2>1. ASSUME NEW s \in {"new", "applied", "duplicate"}, stored' = [stored EXCEPT ![c].status = s]
        PROVE  stored'[c] = [stored[c] EXCEPT !.status = s] /\ stored' = [stored EXCEPT ![c] = stored'[c]]
    BY <2>1, <1>1 DEF Stored
  <2>2. ASSUME NEW m \in {"published", "failed"}, stored' = [stored EXCEPT ![c].match = m]
        PROVE  stored'[c] = [stored[c] EXCEPT !.match = m] /\ stored' = [stored EXCEPT ![c] = stored'[c]]
    BY <2>2, <1>1 DEF Stored
  <2> WITNESS stored'[c]
  <2> QED BY <2>1, <2>2
<1>3. /\ d \in StoredJob /\ d.posting = stored[c].posting /\ d.src = stored[c].src
      /\ d.by = stored[c].by /\ (d.match = "held" => stored[c].match = "held")
  BY <1>1, <1>2 DEF StoredJob
<1>4. stored' \in Seq(StoredJob) /\ Stored' = Stored
  <2>1. [stored EXCEPT ![c] = d] \in Seq(StoredJob) /\ DOMAIN [stored EXCEPT ![c] = d] = Stored
    BY <1>1, <1>3 DEF Stored
  <2> QED BY <1>2, <2>1 DEF Stored
<1>5. stored'[c] = d /\ \A e \in Stored: e # c => stored'[e] = stored[e]
  BY <1>1, <1>2 DEF Stored
<1>6. (\E m \in {"published", "failed"}: d = [stored[c] EXCEPT !.match = m]) => d.match # "held"
  BY <1>1 DEF StoredJob
<1> QED BY <1>2, <1>3, <1>4, <1>5, <1>6

(* The insertion: what DedupeService answered holds for the new job.       *)
LEMMA InsertKept ==
  ASSUME IntakeInv, NEW p \in Intake, InsertJob(p)
  PROVE  IntakeInv'
<1> DEFINE old == intake[p]
           n == Len(stored) + 1
           r == [old EXCEPT !.pc = "remember", !.job = n]
           d == [posting |-> Item(p), src |-> old.src, by |-> p, status |-> "new", match |-> "held"]
<1>1. /\ old \in IntakeRecord /\ Holds(old) /\ Answered(p, old) /\ old.pc = "insert"
      /\ old.item = {Item(p)} /\ Item(p) \in Posting /\ old.src \in Source
  BY IntakeParts DEF InsertJob, At
<1>2. /\ stored' = Append(stored, d) /\ intake' = [intake EXCEPT ![p] = r]
      /\ UNCHANGED <<bloom, begun>>
  BY DEF InsertJob
<1>3. /\ Stored = 1..Len(stored) /\ Len(stored) \in Nat
      /\ \A c \in Stored: stored[c].by \in Intake /\ c # n /\ c \in Int
  BY StoredParts DEF IntakeInv, Stored
<1>4. d \in StoredJob
  BY <1>1 DEF StoredJob
<1>5. /\ d.posting = Item(p) /\ d.src = old.src /\ d.by = p
  OBVIOUS
<1> HIDE DEF d
<1>6. stored' \in Seq(StoredJob) /\ Len(stored') = n
  BY <1>2, <1>4 DEF IntakeInv
<1>7. /\ Stored' = Stored \union {n} /\ stored'[n] = d
      /\ \A c \in Stored: stored'[c] = stored[c]
  <2>1. Stored' = 1..n
    BY <1>6, StoredParts DEF Stored
  <2>2. 1..n = 1..Len(stored) \union {n}
    BY <1>3
  <2>3. stored'[n] = d /\ \A c \in 1..Len(stored): stored'[c] = stored[c]
    BY <1>2 DEF IntakeInv
  <2> QED BY <1>3, <2>1, <2>2, <2>3
<1>8. n \in Nat /\ n \in Stored'
  BY <1>3, <1>7
<1> HIDE DEF n
<1>9. r \in IntakeRecord /\ r.pc = "remember" /\ r.job = n /\ r.item = old.item
  BY <1>1, <1>8 DEF IntakeRecord, IntakePC
<1> HIDE DEF r
<1>10. \A q \in Intake: intake'[q] = IF q = p THEN r ELSE intake[q]
  BY <1>2 DEF IntakeInv
<1>11. intake' \in [Intake -> IntakeRecord]
  BY <1>2, <1>9 DEF IntakeInv
<1>12. ASSUME NEW q \in Intake PROVE Holds(intake[q])' /\ Answered(q, intake[q])'
  <2>1. CASE q = p
    BY <1>1, <1>8, <1>9, <1>10, <2>1 DEF Answered, Holds
  <2>2. CASE q # p
    <3>1. Holds(intake[q]) /\ Answered(q, intake[q]) /\ intake'[q] = intake[q]
      BY <1>10, <2>2 DEF IntakeInv
    <3>2. Holds(intake[q])'
      BY <1>7, <3>1 DEF Holds
    <3>3. Answered(q, intake[q])'
      BY <1>5, <1>7, <2>2, <3>1 DEF Answered, Distinct
    <3> QED BY <3>2, <3>3
  <2> QED BY <2>1, <2>2
<1>13. StoredOnce'
  <2>1. \A c \in Stored: stored[c].by = p =>
           /\ Url[stored[c].posting] = Url[Item(p)] /\ Url[stored[c].posting] # NoUrl =>
                old.src = "extension" /\ Hash[stored[c].posting] # Hash[Item(p)]
           /\ old.src = "portal" => ExtId[stored[c].posting] # ExtId[Item(p)]
    BY <1>1 DEF Answered, Distinct
  <2>3. ASSUME NEW c \in Stored, stored[c].by = p
        PROVE  LET x == stored[c].posting
                   y == d.posting
               IN  /\ Url[x] = Url[y] /\ Url[x] # NoUrl => d.src = "extension" /\ Hash[x] # Hash[y]
                   /\ ExtId[x] = ExtId[y] => d.src = "extension"
    BY <1>1, <1>5, <2>1, <2>3 DEF Source
  <2>4. \A c \in Stored: c < n
    BY <1>3 DEF n
  <2>5. \A c, e \in Stored': c < e => c \in Stored /\ (e \in Stored \/ e = n)
    BY <1>3, <1>7, <2>4 DEF n
  <2> QED BY <1>5, <1>7, <2>3, <2>5 DEF StoredOnce, IntakeInv
<1>14. StoredIsPublished'
  <2>1. ASSUME NEW c \in Stored, stored[c].match = "held" PROVE stored[c].by # p
    BY <1>1, <2>1 DEF IntakeInv, StoredIsPublished
  <2> QED BY <1>3, <1>5, <1>7, <1>9, <1>10, <2>1 DEF StoredIsPublished, IntakeInv
<1> QED BY <1>2, <1>6, <1>11, <1>12, <1>13, <1>14 DEF IntakeInv

LEMMA IntakeStep == IntakeInv /\ [IntakeNext]_intakeVars => IntakeInv'
<1> SUFFICES ASSUME IntakeInv, [IntakeNext]_intakeVars PROVE IntakeInv'
  OBVIOUS
<1>1. CASE UNCHANGED intakeVars
  BY <1>1 DEF intakeVars, IntakeInv, Stored, Holds, Answered, Distinct, StoredOnce, StoredIsPublished
<1>2. begun \in 0..MaxIntakes /\ bloom \subseteq {Hash[x]: x \in Posting} /\ stored \in Seq(StoredJob)
  BY DEF IntakeInv
<1>3. ASSUME NEW p \in Intake,
             \/ StartFetch(p) \/ StartShare(p) \/ AskBloom(p) \/ BloomFails(p) \/ AskDatabase(p)
             \/ AskExternalId(p) \/ Remember(p)
             \/ MarkDuplicate(p) /\ UNCHANGED stored /\ SameHash(Item(p)) = {}
      PROVE  IntakeInv'
  <2>1. stored' = stored
    BY <1>3 DEF StartFetch, StartShare, AskBloom, BloomFails, AskDatabase, AskExternalId, Remember
  <2>2. begun' \in 0..MaxIntakes
    <3>1. Begins \/ begun' = begun
      BY <1>3 DEF StartFetch, StartShare, AskBloom, BloomFails, AskDatabase, AskExternalId, Remember,
                  MarkDuplicate
    <3>2. MaxIntakes \in Nat
      BY IntakeAssumption DEF IntakeAssumption
    <3> QED BY <1>2, <3>1, <3>2 DEF Begins
  <2>3. bloom' \subseteq {Hash[x]: x \in Posting}
    <3>1. CASE Remember(p)
      BY <1>2, <3>1, IntakeParts DEF Remember, At
    <3> QED BY <1>2, <1>3, <3>1
         DEF StartFetch, StartShare, AskBloom, BloomFails, AskDatabase, AskExternalId, MarkDuplicate
  <2>4. PICK r: /\ intake' = [intake EXCEPT ![p] = r]
                /\ Holds(r) /\ Answered(p, r)
                /\ r.pc \in {"remember", "publish"} =>
                     intake[p].pc = "remember" /\ r.job = intake[p].job
    BY <1>3, Questions
  <2>5. ASSUME NEW c \in Stored, stored[c].match = "held", stored[c].by = p
        PROVE  r.pc \in {"remember", "publish"} /\ r.job = intake[p].job
    <3>1. intake[p].pc \in {"remember", "publish"}
      BY <2>5 DEF IntakeInv, StoredIsPublished
    <3>2. Remember(p)
      BY <1>3, <3>1 DEF StartFetch, StartShare, AskBloom, BloomFails, AskDatabase, AskExternalId,
                        MarkDuplicate, At
    <3>3. intake' = [intake EXCEPT ![p].pc = "publish"]
      BY <3>2 DEF Remember, Step
    <3>4. r = [intake[p] EXCEPT !.pc = "publish"]
      BY <2>4, <3>3 DEF IntakeInv
    <3>5. r.pc = "publish" /\ r.job = intake[p].job
      BY <3>4, IntakeParts DEF IntakeRecord
    <3> QED BY <3>5
  <2>6. stored' \in Seq(StoredJob) /\ Stored' = Stored
    BY <1>2, <2>1 DEF Stored
  <2>7. Keeps(p, r)
    BY <2>1, <2>5 DEF Keeps
  <2> QED BY <2>2, <2>3, <2>4, <2>6, <2>7, IntakeMoved
<1>4. ASSUME NEW p \in Intake, NEW c \in Stored, NEW r, UNCHANGED <<bloom, begun>>,
             intake' = [intake EXCEPT ![p] = r], Holds(r), r.pc \in {"idle", "bloom"},
             \/ /\ intake[p].pc = "mark"
                /\ \E s \in {"new", "applied", "duplicate"}: stored' = [stored EXCEPT ![c].status = s]
             \/ /\ c = intake[p].job
                /\ \E m \in {"published", "failed"}: stored' = [stored EXCEPT ![c].match = m]
      PROVE  IntakeInv'
  <2>1. /\ stored' \in Seq(StoredJob) /\ Stored' = Stored
        /\ \A d \in Stored: /\ stored'[d].posting = stored[d].posting /\ stored'[d].src = stored[d].src
                            /\ stored'[d].by = stored[d].by
                            /\ stored'[d].match = "held" => stored[d].match = "held"
        /\ (\E m \in {"published", "failed"}: stored' = [stored EXCEPT ![c].match = m])
             => stored'[c].match # "held"
    BY <1>4, JobChanges
  <2>2. ASSUME NEW d \in Stored, stored'[d].match = "held", stored[d].by = p PROVE FALSE
    <3>1. intake[p].pc \in {"remember", "publish"} /\ intake[p].job = d
      BY <2>1, <2>2 DEF IntakeInv, StoredIsPublished
    <3> QED BY <1>4, <2>1, <2>2, <3>1
  <2>3. Answered(p, r)
    BY <1>4 DEF Answered
  <2>4. Keeps(p, r)
    <3>1. \A d \in Stored: stored'[d].match = "held" => stored[d].match = "held" /\ stored[d].by # p
      BY <2>1, <2>2
    <3> QED BY <2>1, <3>1 DEF Keeps
  <2>5. begun' \in 0..MaxIntakes /\ bloom' \subseteq {Hash[x]: x \in Posting}
    BY <1>2, <1>4
  <2>6. intake' = [intake EXCEPT ![p] = r] /\ Holds(r)
    BY <1>4
  <2>7. stored' \in Seq(StoredJob) /\ Stored' = Stored
    BY <2>1
  <2> QED BY <2>3, <2>4, <2>5, <2>6, <2>7, IntakeMoved
<1>5. ASSUME NEW p \in Intake,
             MarkDuplicate(p) /\ ~(UNCHANGED stored /\ SameHash(Item(p)) = {})
      PROVE  IntakeInv'
  <2>1. PICK c \in SameHash(Item(p)): /\ stored' = [stored EXCEPT ![c].status = "duplicate"]
                                      /\ intake' = [intake EXCEPT ![p] = Resting]
    BY <1>5 DEF MarkDuplicate
  <2>2. intake[p].pc = "mark" /\ UNCHANGED <<bloom, begun>>
    BY <1>5 DEF MarkDuplicate, At
  <2>3. c \in Stored /\ Resting.pc = "idle"
    BY DEF SameHash, Resting
  <2> QED BY <1>4, <2>1, <2>2, <2>3, RestHolds
<1>6. ASSUME NEW p \in Intake, Publish(p) \/ PublishJobFails(p) PROVE IntakeInv'
  <2>1. intake[p].job \in Stored
    BY <1>6, IntakeParts DEF Publish, PublishJobFails, At, Holds
  <2>2. \E m \in {"published", "failed"}: stored' = [stored EXCEPT ![intake[p].job].match = m]
    BY <1>6 DEF Publish, PublishJobFails
  <2>3. PICK r: intake' = [intake EXCEPT ![p] = r] /\ Holds(r) /\ r.pc \in {"idle", "bloom"}
    <3>1. Resting.pc = "idle"
      BY DEF Resting
    <3> QED BY <1>6, <3>1, OntoHolds, RestHolds DEF Publish, PublishJobFails
  <2>4. UNCHANGED <<bloom, begun>>
    BY <1>6 DEF Publish, PublishJobFails
  <2> QED BY <1>4, <2>1, <2>2, <2>3, <2>4
<1>7. ASSUME NEW p \in Intake, Dies(p) PROVE IntakeInv'
  <2>1. intake' = [intake EXCEPT ![p] = Resting] /\ UNCHANGED <<bloom, begun>> /\ Resting.pc = "idle"
    BY <1>7 DEF Dies, Resting
  <2>2. CASE intake[p].pc \in {"remember", "publish"}
    <3>1. intake[p].job \in Stored
      BY <2>2, IntakeParts DEF Holds
    <3>2. stored' = [stored EXCEPT ![intake[p].job].match = "failed"]
      BY <1>7, <2>2 DEF Dies
    <3> QED BY <1>4, <2>1, <3>1, <3>2, RestHolds
  <2>3. CASE intake[p].pc \notin {"remember", "publish"}
    <3>1. stored' = stored /\ Stored' = Stored
      BY <1>7, <2>3 DEF Dies, Stored
    <3>2. \A c \in Stored: stored[c].match = "held" => stored[c].by # p
      BY <2>3 DEF IntakeInv, StoredIsPublished
    <3>3. Keeps(p, Resting)
      BY <3>1, <3>2 DEF Keeps
    <3> QED BY <1>2, <2>1, <3>1, <3>3, RestHolds, IntakeMoved
  <2> QED BY <2>2, <2>3
<1>8. ASSUME NEW c \in Stored, Submitted(c) PROVE IntakeInv'
  <2> DEFINE p == stored[c].by
  <2>1. stored' = [stored EXCEPT ![c].status = "applied"] /\ UNCHANGED <<bloom, intake, begun>>
    BY <1>8 DEF Submitted
  <2>2. p \in Intake
    BY StoredParts DEF IntakeInv, Stored
  <2>3. /\ stored' \in Seq(StoredJob) /\ Stored' = Stored
        /\ \A d \in Stored: /\ stored'[d].posting = stored[d].posting /\ stored'[d].src = stored[d].src
                            /\ stored'[d].by = stored[d].by
                            /\ stored'[d].match = "held" => stored[d].match = "held"
    BY <2>1, JobChanges
  <2> HIDE DEF p
  <2>4. intake' = [intake EXCEPT ![p] = intake[p]] /\ Holds(intake[p]) /\ Answered(p, intake[p])
    BY <2>1, <2>2, IntakeParts DEF IntakeInv
  <2>5. \A d \in Stored: stored'[d].match = "held" /\ stored[d].by = p => intake[p].pc \in {"remember", "publish"}
    BY <2>3 DEF IntakeInv, StoredIsPublished
  <2> DEFINE r == intake[p]
  <2>6. Keeps(p, r)
    BY <2>3, <2>5 DEF Keeps
  <2>7. intake' = [intake EXCEPT ![p] = r] /\ Holds(r) /\ Answered(p, r)
    BY <2>4
  <2>8. begun' \in 0..MaxIntakes /\ bloom' \subseteq {Hash[x]: x \in Posting}
    BY <1>2, <2>1
  <2> HIDE DEF r
  <2> QED BY <2>2, <2>3, <2>6, <2>7, <2>8, IntakeMoved
<1> QED BY <1>1, <1>3, <1>5, <1>6, <1>7, <1>8, InsertKept DEF IntakeNext

(***************************************************************************)
(* The theorems of the intake.                                             *)
(***************************************************************************)
(* Jobs and requests keep their types, and a request past its insertion    *)
(* holds the job it stored.                                                *)
THEOREM IntakeTypeCorrect == IntakeSpec => []IntakeTypes
<1>1. IntakeInv => IntakeTypes
  <2> SUFFICES ASSUME IntakeInv PROVE IntakeTypes
    OBVIOUS
  <2>1. \A c \in Stored: stored[c] \in StoredJob
    BY StoredParts DEF IntakeInv, Stored
  <2>2. \A p \in Intake: /\ intake[p].pc # "idle" => intake[p].item # {}
                         /\ intake[p].pc \in {"remember", "publish"} => intake[p].job \in Stored
    BY DEF IntakeInv, Holds
  <2> QED BY <2>1, <2>2 DEF IntakeInv, IntakeTypes, StoredJob, IntakeRecord
<1> QED BY <1>1, IntakeInvInit, IntakeStep, PTL DEF IntakeSpec

(* One request stores one posting, one link and one portal id once, with   *)
(* the exceptions StoredOnce names: what DedupeService answered still      *)
(* holds, of the request's own jobs, when it inserts.                      *)
THEOREM StoredByOneOnce == IntakeSpec => []StoredOnce
<1>1. IntakeInv => StoredOnce
  BY DEF IntakeInv
<1> QED BY <1>1, IntakeInvInit, IntakeStep, PTL DEF IntakeSpec

(* A stored job is published for matching, refused by the broker, cut off  *)
(* by a crash, or in the hands of the request that stored it.              *)
THEOREM StoredPublished == IntakeSpec => []StoredIsPublished
<1>1. IntakeInv => StoredIsPublished
  BY DEF IntakeInv
<1> QED BY <1>1, IntakeInvInit, IntakeStep, PTL DEF IntakeSpec

(***************************************************************************)
(* The three parts together.                                               *)
(***************************************************************************)
LEMMA RecordsImplement == RecordsSpec => InboxSpec /\ BoardSpec /\ IntakeSpec
<1>1. RecordsInit => InboxInit /\ BoardInit /\ IntakeInit
  BY DEF RecordsInit
<1>2. [RecordsNext]_<<inboxVars, boardVars, intakeVars, part>> =>
        [InboxNext]_inboxVars /\ [BoardNext]_boardVars /\ [IntakeNext]_intakeVars
  BY DEF RecordsNext
<1> QED BY <1>1, <1>2, PTL DEF RecordsSpec, InboxSpec, BoardSpec, IntakeSpec

(* The records keep their types in every part, so what is proved of a part *)
(* holds in the specification the run checks.                              *)
THEOREM RecordsTyped == RecordsSpec => []RecordTypes
<1>1. InboxTypes /\ BoardTypes /\ IntakeTypes => RecordTypes
  BY DEF RecordTypes
<1> QED BY <1>1, RecordsImplement, InboxTypeCorrect, BoardTypeCorrect, IntakeTypeCorrect, PTL

=============================================================================
