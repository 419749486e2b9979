----------------------------- MODULE PortalLogin -----------------------------
(***************************************************************************)
(* Signing in to a portal, at the start of every attempt of fetch_jobs()   *)
(* and of apply_with_retry().  The portal is the environment: it takes or  *)
(* rejects the saved cookie, shows its form or a wall, and answers a       *)
(* password with a session, a challenge or nothing.                        *)
(***************************************************************************)
EXTENDS Integers

CONSTANTS LoginAttempts  \* 3 in the code

ASSUME LoginAssumption == LoginAttempts \in Nat \ {0}

VARIABLES account,    \* who signs in where, and for what
          jar,        \* does the browser hold the portal's auth cookie
          shown,      \* the page: a login address, marks of a session, a form, a challenge
          loginPc,    \* where the attempt stands
          tries,      \* number of the attempt
          passwords,  \* history: passwords sent in this call
          faults,     \* history: attempts ended by an error that is no refusal
          identity,   \* was the account's name read from the page
          fetchedBy   \* "nobody", "guest" or "user": how the listings were read

loginVars == <<account, jar, shown, loginPc, tries, passwords, faults, identity, fetchedBy>>

Accounts == [portal: {"linkedin", "indeed", "public", "generic"},
             saved: BOOLEAN,                     \* the vault holds an auth cookie
             username: BOOLEAN, password: BOOLEAN,
             caller: {"fetch", "apply"}]
AuthPortals == {"linkedin", "indeed"}            \* AUTH_COOKIE_NAMES
Shown == [login: BOOLEAN, marks: BOOLEAN, fields: BOOLEAN, challenge: BOOLEAN]

At(pc) == loginPc = pc
Same == UNCHANGED <<account, tries, passwords, faults, fetchedBy>>
LoginGoes(pc) == loginPc' = pc /\ Same /\ UNCHANGED <<jar, shown, identity>>

(* the page changes, and the portal may take its cookie back *)
Loads(pc) ==
    /\ shown' \in Shown /\ jar' \in {jar, FALSE}
    /\ loginPc' = pc
    /\ Same /\ UNCHANGED identity

(* an attempt ends by raising: a new browser with the saved cookies, or the end *)
Again ==
    IF tries < LoginAttempts
    THEN /\ tries' = tries + 1 /\ loginPc' = "open"
         /\ jar' \in {account.saved, FALSE}
         /\ UNCHANGED <<account, shown, passwords, identity, fetchedBy>>
    ELSE /\ loginPc' = "ended"
         /\ UNCHANGED <<account, jar, shown, tries, passwords, identity, fetchedBy>>

(* mutant: a refusal is an error like any other *)
RefusedAgain == Again /\ UNCHANGED faults

(* PortalAuthError: a fetch is not retried, an application is *)
Refused ==
    /\ IF account.caller = "apply" THEN Again
       ELSE loginPc' = "ended" /\ UNCHANGED <<account, jar, shown, tries, passwords, identity, fetchedBy>>
    /\ UNCHANGED faults

Fault ==
    /\ loginPc # "ended"
    /\ faults' = faults + 1
    /\ Again

(* ensure_logged_in(): no challenge, and the auth cookie; where no cookie is *)
(* known to prove a session, marks of one or any cookie do                   *)
Verified == ~shown.challenge /\ IF account.portal \in AuthPortals THEN jar ELSE jar \/ shown.marks

Remembers(pc) ==
    /\ loginPc' = pc
    /\ identity' \in IF account.portal = "linkedin" THEN {identity, TRUE} ELSE {identity}
    /\ Same /\ UNCHANGED <<jar, shown>>

(***************************************************************************)
(* login()                                                                 *)
(***************************************************************************)
OpenPortal ==
    /\ At("open")
    /\ IF account.portal = "public" \/ (account.portal = "generic" /\ ~account.username)
       THEN LoginGoes("returned") ELSE Loads("look")

LinkedInSession ==
    /\ At("look") /\ account.portal = "linkedin"
    /\ \/ /\ jar /\ ~shown.login
          /\ \/ Verified /\ Remembers("returned")
             \/ ~Verified /\ Refused
       \/ ~(jar /\ ~shown.login) /\ shown.marks /\ Verified /\ Remembers("returned")
       \/ ~(jar /\ ~shown.login) /\ ~(shown.marks /\ Verified) /\ Loads("form")

IndeedSession ==
    /\ At("look") /\ account.portal = "indeed"
    /\ \/ shown.marks /\ Verified /\ LoginGoes("returned")
       \/ ~(shown.marks /\ Verified) /\ account.username /\ Loads("fill")
       \/ ~(shown.marks /\ Verified) /\ ~account.username /\
            (IF shown.marks THEN Refused ELSE LoginGoes("returned"))

(* a saved cookie that leads back to the login form was rejected: the     *)
(* password is not tried                                                  *)
LinkedInForm ==
    /\ At("form")
    /\ \/ jar /\ shown.login /\ ~shown.marks /\ Refused
       \/ /\ ~(jar /\ shown.login /\ ~shown.marks)
          /\ IF ~shown.fields /\ shown.challenge THEN Refused
             ELSE IF ~account.username
                  THEN IF shown.marks /\ ~Verified THEN Refused ELSE LoginGoes("returned")
                  ELSE IF ~jar /\ ~shown.fields THEN Refused ELSE LoginGoes("fill")

(* a field or the button is not found *)
FieldMissing ==
    /\ At("fill") /\ account.portal # "generic"
    /\ Refused

SendPassword ==
    /\ At("fill") /\ account.portal # "generic"
    /\ passwords' = passwords + (IF account.password THEN 1 ELSE 0)
    /\ jar' \in BOOLEAN /\ shown' \in Shown /\ loginPc' = "check"
    /\ UNCHANGED <<account, tries, faults, identity, fetchedBy>>

(* the common form of the other portals, whose outcome is not looked at *)
GenericLogin ==
    /\ At("look") /\ account.portal = "generic"
    /\ passwords' \in {passwords, passwords + 1}
    /\ jar' \in BOOLEAN /\ shown' \in Shown /\ loginPc' = "returned"
    /\ UNCHANGED <<account, tries, faults, identity, fetchedBy>>

CheckLogin ==
    /\ At("check")
    /\ IF Verified THEN Remembers("returned") ELSE Refused

(***************************************************************************)
(* What follows in fetch_jobs(); an application goes on as PortalApply says. *)
(***************************************************************************)
CaptchaHook ==
    /\ At("returned")
    /\ \/ account.caller = "fetch" /\ Refused    \* a code or a captcha nobody solved
       \/ Loads(IF account.caller = "fetch" THEN "gate" ELSE "ended")

EnsureLoggedIn ==
    /\ At("gate")
    /\ IF (account.username \/ account.password) /\ ~Verified THEN Refused
       ELSE LoginGoes("search")

ReadListings ==
    /\ At("search")
    /\ fetchedBy' = IF jar THEN "user" ELSE "guest"
    /\ loginPc' = "ended"
    /\ UNCHANGED <<account, jar, shown, tries, passwords, faults, identity>>

LoginInit ==
    /\ account \in Accounts /\ jar \in {account.saved, FALSE}
    /\ shown = [login |-> FALSE, marks |-> FALSE, fields |-> FALSE, challenge |-> FALSE]
    /\ loginPc = "open" /\ tries = 1 /\ passwords = 0 /\ faults = 0
    /\ identity = FALSE /\ fetchedBy = "nobody"

LoginNext ==
    \/ OpenPortal \/ LinkedInSession \/ IndeedSession \/ LinkedInForm \/ FieldMissing
    \/ SendPassword \/ GenericLogin \/ CheckLogin
    \/ CaptchaHook \/ EnsureLoggedIn \/ ReadListings \/ Fault

LoginSpec == LoginInit /\ [][LoginNext]_loginVars

(***************************************************************************)
(* Properties.                                                             *)
(***************************************************************************)
LoginTypes ==
    /\ account \in Accounts /\ shown \in Shown /\ {jar, identity} \subseteq BOOLEAN
    /\ tries \in 1..LoginAttempts /\ {passwords, faults} \subseteq 0..LoginAttempts
    /\ loginPc \in {"open", "look", "form", "fill", "check", "returned", "gate", "search", "ended"}
    /\ fetchedBy \in {"nobody", "guest", "user"}
    /\ fetchedBy # "nobody" => loginPc = "ended" /\ account.caller = "fetch"
    /\ identity => account.portal = "linkedin"
    /\ fetchedBy = "guest" =>
         ~(account.portal \in AuthPortals /\ (account.username \/ account.password))

(* A portal that refused a password is not sent it again by the same fetch: *)
(* only attempts that ended in some other error are repeated.  (Another     *)
(* attempt of an application does send it again.)                           *)
PasswordSentOnce == account.caller = "fetch" => passwords <= 1 + faults
=============================================================================
