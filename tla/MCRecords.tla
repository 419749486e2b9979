----------------------------- MODULE MCRecords -----------------------------
(* Three parts that share no state here: the inbox, the job board and the  *)
(* intake of postings.  A behaviour is one of one part, chosen at the start. *)
EXTENDS EmailInbox, JobBoard, JobIntake, TLC

CONSTANTS a1, a2, m1, m2, m3, m4, j1, p1, p2, x1, x2, x3, b1, b2

VARIABLE part

\* three mails of one account, one more than its window holds, and one of another
\* account: it and m1 have one uid and no header.  Each may be pasted by hand too.
MCMailAccount == [m \in Mail |-> IF m = m4 THEN a2 ELSE a1]
MCMailUid == [m \in Mail |-> CASE m \in {m1, m4} -> 1 [] m = m2 -> 2 [] OTHER -> 3]
MCHeader == [m \in Mail |-> IF m \in {m1, m4} THEN NoHeader ELSE m]
MCMailEvent == [m \in Mail |-> CASE m = m1 -> "interview" [] m = m2 -> "offer" [] OTHER -> "jd"]
MCNames == [m \in Mail |-> {j1}]

\* x1 and x2 have one portal id in other words; x3 has no link
MCUrl == [x \in Posting |-> IF x = x3 THEN NoUrl ELSE "u"]
MCHash == [x \in Posting |-> x]
MCExtId == [x \in Posting |-> IF x = x3 THEN x3 ELSE x1]

MCSymmetry == Permutations(Process) \union Permutations(BoardApp)

RecordsInit ==
    /\ InboxInit /\ BoardInit /\ IntakeInit
    /\ part \in {"inbox", "board", "intake"}
    /\ req = [p \in Process |-> Idle(a1)] /\ ~account[a2].auto_apply
    /\ part # "inbox" => /\ \A a \in Account: ~account[a].auto_apply
                         /\ \A j \in Job: job[j] = "absent"
    /\ part # "board" => \A j \in BoardJob: boardJob[j] = "new"

RecordsNext ==
    \/ part = "inbox"  /\ InboxNext  /\ UNCHANGED <<boardVars, intakeVars, part>>
    \/ part = "board"  /\ BoardNext  /\ UNCHANGED <<inboxVars, intakeVars, part>>
    \/ part = "intake" /\ IntakeNext /\ UNCHANGED <<inboxVars, boardVars, part>>

RecordsSpec == RecordsInit /\ [][RecordsNext]_<<inboxVars, boardVars, intakeVars, part>>

(* Accounts, mails, jobs, lists, postings and running requests keep their   *)
(* types, in every part.                                                   *)
RecordTypes == InboxTypes /\ BoardTypes /\ IntakeTypes
=============================================================================
