----------------------------- MODULE CookieVault -----------------------------
(***************************************************************************)
(* The cookies of the Workday portal, kept per career site in one          *)
(* document.  An application reads the document, works in browsers that    *)
(* are given the cookies of its site and get newer ones, and at the end    *)
(* saves the whole document with the cookies of its result, while the user *)
(* pastes cookies and changes the account.  Cookies are represented by     *)
(* their age: a number that grows with every browser; 0 is no cookie.      *)
(***************************************************************************)
EXTENDS Integers

CONSTANTS Tenant, Run,
          RunAttempts,  \* attempts of apply_with_retry(): 3 in the code
          MaxAge,       \* bound: browsers and pastes
          MaxChanges    \* bound: changes of the account

ASSUME VaultAssumption == Tenant # {} /\ RunAttempts \in Nat \ {0} /\ {MaxAge, MaxChanges} \subseteq Nat

VARIABLES vault,   \* the saved cookies of each career site
          login,   \* the saved username and password: how often they were changed
          age,     \* the newest cookies
          run,     \* the running applications
          edit     \* the user's running change

vaultVars == <<vault, login, age, run, edit>>

RunRecord == [pc: {"idle", "launch", "browse", "reload", "identity", "persist", "health"},
              own: BOOLEAN, at: Tenant, cookies: [Tenant -> 0..MaxAge], login: 0..MaxChanges,
              try: 1..RunAttempts, live: 0..MaxAge, exported: 0..MaxAge, raced: BOOLEAN]
EditRecord == [pc: {"idle", "paste", "account", "pasting", "clearing"}, login: 0..MaxChanges,
               cookies: [Tenant -> 0..MaxAge]]
Empty == [t \in Tenant |-> 0]
NoEdit == [pc |-> "idle", login |-> 0, cookies |-> Empty]
Still == [pc |-> "idle", own |-> TRUE, at |-> CHOOSE t \in Tenant: TRUE, cookies |-> Empty,
          login |-> 0, try |-> 1, live |-> 0, exported |-> 0, raced |-> FALSE]
RunAt(r, pc) == run[r].pc = pc

(* the copies that others hold of the document are stale now *)
Stale == [r \in Run |-> [run[r] EXCEPT !.raced = run[r].pc # "idle"]]
Saves(r, cookies, next) ==
    /\ vault' = cookies /\ login' = run[r].login
    /\ run' = [Stale EXCEPT ![r] = next]
    /\ UNCHANGED <<age, edit>>

(***************************************************************************)
(* The apply worker.                                                       *)
(***************************************************************************)
(* the portal of the job is Workday itself; or the job leads there, and    *)
(* what was read is for the browser only                                   *)
Begin(r) ==
    /\ RunAt(r, "idle")
    /\ \E t \in Tenant:
         \/ run' = [run EXCEPT ![r] = [Still EXCEPT !.pc = "launch", !.at = t,
                                                    !.cookies = vault, !.login = login]]
         \/ run' = [run EXCEPT ![r] = [Still EXCEPT !.pc = "launch", !.at = t, !.own = FALSE,
                                                    !.raced = TRUE]]
    /\ UNCHANGED <<vault, login, age, edit>>

(* a browser with the cookies of this career site; the site renews them *)
Browse(r) ==
    /\ RunAt(r, "launch") /\ age < MaxAge
    /\ age' = age + 1
    /\ run' = [run EXCEPT ![r].pc = "browse", ![r].live = age + 1]
    /\ UNCHANGED <<vault, login, edit>>

(* the attempt raises; its browser exports the cookies as it closes, or    *)
(* none when it cannot say them any more                                   *)
RunRaises(r) ==
    /\ RunAt(r, "browse") /\ run[r].try < RunAttempts
    /\ \E exported \in {run[r].live, 0}:
         run' = [run EXCEPT ![r].pc = "launch", ![r].exported = exported, ![r].try = @ + 1]
    /\ UNCHANGED <<vault, login, age, edit>>

(* apply() returns: the result takes the cookies exported last, before the *)
(* browser that made it closes                                             *)
RunReturns(r) ==
    /\ RunAt(r, "browse")
    /\ run' = [run EXCEPT ![r] = IF run[r].exported = 0 /\ ~run[r].own THEN Still
                                 ELSE [@ EXCEPT !.pc = IF run[r].own THEN "identity" ELSE "reload"]]
    /\ UNCHANGED <<vault, login, age, edit>>

(* the application crashed or was stopped: nothing is saved *)
RunCrashes(r) ==
    /\ ~RunAt(r, "idle")
    /\ run' = [run EXCEPT ![r] = Still]
    /\ UNCHANGED <<vault, login, age, edit>>

(* the copy is saved with whose session it was, before its cookies *)
SaveIdentity(r) ==
    /\ RunAt(r, "identity")
    /\ Saves(r, run[r].cookies, [run[r] EXCEPT !.pc = "persist"])

(* a job that only led to Workday: the document is read again *)
Reload(r) ==
    /\ RunAt(r, "reload")
    /\ run' = [run EXCEPT ![r].pc = "persist", ![r].cookies = vault, ![r].login = login,
                          ![r].raced = FALSE]
    /\ UNCHANGED <<vault, login, age, edit>>

(* mutant: the cookies of the browser instead of all that are saved *)
MergeNothing(r) == IF run[r].exported = 0 THEN run[r].cookies
                   ELSE [Empty EXCEPT ![run[r].at] = run[r].exported]

(* merge_workday_tenant_cookies(): this career site's are replaced *)
Merge(r) == IF run[r].exported = 0 THEN run[r].cookies
            ELSE [run[r].cookies EXCEPT ![run[r].at] = run[r].exported]

Persisted(r) == [run[r] EXCEPT !.cookies = Merge(r), !.pc = "health"]
Persist(r) ==
    LET next == IF run[r].own THEN Persisted(r) ELSE Still
    IN  /\ RunAt(r, "persist")
        /\ IF run[r].exported # 0 THEN Saves(r, Merge(r), next)
           ELSE run' = [run EXCEPT ![r] = next] /\ UNCHANGED <<vault, login, age, edit>>

(* the save raises, swallowed: the copy holds the cookies all the same *)
PersistFails(r) ==
    /\ RunAt(r, "persist") /\ run[r].exported # 0
    /\ run' = [run EXCEPT ![r] = IF run[r].own THEN Persisted(r) ELSE Still]
    /\ UNCHANGED <<vault, login, age, edit>>

(* the portal's health is counted on the same copy, or not at all *)
SaveHealth(r) ==
    /\ RunAt(r, "health")
    /\ \/ Saves(r, run[r].cookies, Still)
       \/ run' = [run EXCEPT ![r] = Still] /\ UNCHANGED <<vault, login, age, edit>>

(***************************************************************************)
(* PortalService.update(): the user pastes a cookie, which replaces all of *)
(* them, or changes the account, which clears them.  The portal that was   *)
(* read is saved twice: with the new account, then with the new cookies.   *)
(***************************************************************************)
OpenEdit ==
    /\ edit.pc = "idle"
    /\ \E what \in {"paste", "account"}:
         edit' = [pc |-> what, login |-> login, cookies |-> vault]
    /\ UNCHANGED <<vault, login, age, run>>

Edited == IF edit.pc = "account" THEN edit.login + 1 ELSE edit.login

SaveAccount ==
    /\ edit.pc \in {"paste", "account"} /\ Edited \in 0..MaxChanges
    /\ vault' = edit.cookies /\ login' = Edited
    /\ edit' = [pc |-> IF edit.pc = "paste" THEN "pasting" ELSE "clearing", login |-> Edited,
              cookies |-> Empty]
    /\ run' = Stale
    /\ UNCHANGED age

SaveSession(cookies) ==
    /\ vault' = cookies /\ login' = edit.login
    /\ edit' = NoEdit /\ run' = Stale

Paste(t) ==
    /\ edit.pc = "pasting" /\ age < MaxAge
    /\ age' = age + 1
    /\ SaveSession([Empty EXCEPT ![t] = age + 1])

(* a paste that cannot be read is refused after the first save *)
PasteRefused ==
    /\ edit.pc = "pasting"
    /\ edit' = NoEdit
    /\ UNCHANGED <<vault, login, age, run>>

ChangeAccount ==
    /\ edit.pc = "clearing"
    /\ SaveSession(Empty)
    /\ UNCHANGED age

VaultInit ==
    /\ vault = Empty /\ login = 0 /\ age = 0
    /\ run = [r \in Run |-> Still] /\ edit = NoEdit

VaultNext ==
    \/ \E r \in Run: \/ Begin(r) \/ Browse(r) \/ RunRaises(r) \/ RunReturns(r) \/ RunCrashes(r)
                     \/ SaveIdentity(r) \/ Reload(r) \/ Persist(r) \/ PersistFails(r)
                     \/ SaveHealth(r)
    \/ OpenEdit \/ SaveAccount \/ PasteRefused \/ ChangeAccount
    \/ \E t \in Tenant: Paste(t)

VaultSpec == VaultInit /\ [][VaultNext]_vaultVars

(***************************************************************************)
(* Properties.                                                             *)
(***************************************************************************)
VaultTypes ==
    /\ vault \in [Tenant -> 0..MaxAge] /\ age \in 0..MaxAge /\ login \in 0..MaxChanges
    /\ edit \in EditRecord
    /\ run \in [Run -> RunRecord]

(* An application on one career site never changes what is saved of the     *)
(* others or of the account, unless the document was saved by somebody      *)
(* else while it held its copy.                                             *)
OthersKept ==
    [][\A r \in Run: (SaveIdentity(r) \/ Persist(r) \/ SaveHealth(r)) /\ ~run[r].raced =>
         /\ login' = login
         /\ \A t \in Tenant: vault'[t] # vault[t] => t = run[r].at]_vaultVars

(* apply_worker.py: "Persist refreshed session cookies": once the cookies   *)
(* of an application to the portal were saved, those are saved which its    *)
(* last browser held.                                                       *)
RefreshedIsSaved ==
    [][\A r \in Run: Persist(r) /\ run[r].own => vault'[run[r].at] = run[r].live]_vaultVars
=============================================================================
