----------------------------- MODULE PortalApply -----------------------------
(***************************************************************************)
(* One call of apply_with_retry(): up to three attempts, each in a browser *)
(* of its own, log in, pass the captcha hook and let the adapter of the    *)
(* portal fill and submit the form, on the portal or on the company's site *)
(* it leads to.  The site is the environment: how many pages its form has, *)
(* whether a submission arrives, and what it shows afterwards.  It never   *)
(* shows an application it has not received.                               *)
(***************************************************************************)
EXTENDS Integers, Sequences

CONSTANTS Attempts,     \* 3 in the code
          WizardSteps,  \* 6 (LinkedIn) and 12 (Workday) in the code
          MaxPages      \* bound: pages of a form

ASSUME ApplyAssumption == {Attempts, WizardSteps, MaxPages} \subseteq Nat \ {0}

VARIABLES site,      \* what does not change while the call runs
          driver,    \* the adapter at work
          applyPc,   \* where its attempt stands
          attempt,   \* number of the attempt
          form,      \* the form: page shown, was it answered, loops left
          received,  \* applications the site received, in this call
          result,    \* what the attempt, then the call, returns
          raised     \* history: attempts that raised after the site had received theirs

applyVars == <<site, driver, applyPc, attempt, form, received, result, raised>>

Portals == {"linkedin", "indeed", "workday", "page", "board"}  \* page: Greenhouse, Lever, other
Companies == {"workday", "page"}                                \* where a job's external link leads
Listings == {"linkedin", "indeed"}                              \* they may lead to the company's site
Wizards == {"linkedin", "workday"}                              \* they go from page to page, and ask
                                                                \* whether one has applied already
Pauses == {"needs_input", "needs_otp", "needs_account"}
Results == Pauses \union {"none", "applied", "already", "failed", "raised", "timeout"}

Sites ==
    {s \in [portal: Portals, company: Companies, pages: 1..MaxPages,
            easy: BOOLEAN,      \* the form is on the portal itself
            before: BOOLEAN,    \* the candidate has applied before this call
            candid: BOOLEAN,    \* it always shows that one has applied
            telling: BOOLEAN,   \* the link has "success", "applied", "thank" or "confirmation" in it
            account: BOOLEAN]:  \* a candidate account of the company's Workday is saved
       /\ s.portal \notin Listings => s.easy
       /\ s.easy => s.company = "page"
       /\ s.account => "workday" \in {s.portal, s.company}}

Received == Len(received) > 0 \/ site.before
MaySee == Received
(* mutant: the marks of an application are not looked for *)
MayMissAlways == TRUE

MayMiss == ~(site.candid /\ Received)

(* open: a required list of the page was left without a choice *)
FirstPage == [page |-> 1, asked |-> FALSE, open |-> FALSE, loops |-> WizardSteps]

ApplyGoes(pc) == applyPc' = pc /\ UNCHANGED <<site, driver, attempt, form, received, result, raised>>
Returns(r) ==
    /\ applyPc' = "leave" /\ result' = r
    /\ UNCHANGED <<site, driver, attempt, form, received, raised>>
Lands(d) ==
    /\ driver' = d /\ applyPc' = "landed"
    /\ UNCHANGED <<site, attempt, form, received, result, raised>>

(***************************************************************************)
(* The frame of an attempt.                                                *)
(***************************************************************************)
Launch == applyPc = "launch" /\ ApplyGoes("login")
LoggedIn == applyPc = "login" /\ ApplyGoes("captcha")

(* an unsolved captcha is not looked at; a code nobody can fill in pauses *)
HandleCaptcha ==
    /\ applyPc = "captcha"
    /\ \/ ApplyGoes("open")
       \/ Returns("needs_otp")

(* the screenshot is taken and the browser closed: the call returns *)
LeaveBrowser ==
    /\ applyPc = "leave"
    /\ ApplyGoes("done")

(* mutant: one attempt too many *)
AttemptRaisesMore ==
    /\ applyPc # "done"
    /\ raised' = raised + (IF Len(received) > 0 /\ received[Len(received)].attempt = attempt
                           THEN 1 ELSE 0)
    /\ IF attempt <= Attempts
       THEN /\ attempt' = attempt + 1 /\ applyPc' = "launch" /\ result' = "none"
            /\ driver' = site.portal /\ form' = FirstPage
       ELSE /\ applyPc' = "done" /\ result' = "raised" /\ UNCHANGED <<attempt, driver, form>>
    /\ UNCHANGED <<site, received>>

(* anything raises, up to the closing of the browser: another attempt *)
AttemptRaises ==
    /\ applyPc # "done"
    /\ raised' = raised + (IF Len(received) > 0 /\ received[Len(received)].attempt = attempt
                           THEN 1 ELSE 0)
    /\ IF attempt < Attempts
       THEN /\ attempt' = attempt + 1 /\ applyPc' = "launch" /\ result' = "none"
            /\ driver' = site.portal /\ form' = FirstPage
       ELSE /\ applyPc' = "done" /\ result' = "raised" /\ UNCHANGED <<attempt, driver, form>>
    /\ UNCHANGED <<site, received>>

(* the worker gives up waiting *)
WorkerTimesOut ==
    /\ applyPc # "done"
    /\ applyPc' = "done" /\ result' = "timeout"
    /\ UNCHANGED <<site, driver, attempt, form, received, raised>>

(***************************************************************************)
(* The adapters.                                                           *)
(***************************************************************************)
OpenLinkedIn ==
    /\ applyPc = "open" /\ driver = "linkedin"
    /\ \/ Returns("failed")    \* the session expired, the listing closed, no button
       \/ MaySee /\ Returns("already")
       \/ MayMiss /\ ApplyGoes(IF site.easy THEN "modal" ELSE "follow")

EasyApplyModal ==
    /\ applyPc = "modal"
    /\ \/ MaySee /\ Returns("already")
       \/ MayMiss /\ ApplyGoes("upload")

OpenIndeed ==
    /\ applyPc = "open" /\ driver = "indeed"
    /\ ApplyGoes("follow")

(* click_and_follow(): what the link leads to opens, in a popup or in the  *)
(* page itself, or does not open in time                                   *)
Opens == IF site.easy THEN {FALSE} ELSE BOOLEAN

FollowCompanyLink ==
    /\ applyPc = "follow" /\ driver = "linkedin"
    /\ \E opened \in Opens: IF opened THEN Lands(site.company) ELSE Returns("failed")

(* on Indeed a link that opened nothing counts as its own form *)
FollowIndeedLink ==
    /\ applyPc = "follow" /\ driver = "indeed"
    /\ \E opened \in Opens: IF opened THEN Lands(site.company) ELSE ApplyGoes("upload")

OpenCompany ==
    /\ applyPc = "open" /\ driver \in Companies
    /\ ApplyGoes("landed")

OpenBoard ==
    /\ applyPc = "open" /\ driver = "board"
    /\ ApplyGoes("submit")

LandOnPage ==
    /\ applyPc = "landed" /\ driver = "page"
    /\ ApplyGoes("upload")

(***************************************************************************)
(* Workday asks for an account of this company, and may ask for a code     *)
(* before and after signing in.                                            *)
(***************************************************************************)
LandOnWorkday ==
    /\ applyPc = "landed" /\ driver = "workday"
    /\ \/ MaySee /\ Returns("already")
       \/ Returns("failed")    \* the job is closed
       \/ MayMiss /\ ApplyGoes("code")

HandleVerification ==
    /\ applyPc \in {"code", "codeAgain"}
    /\ \/ Returns("needs_otp")
       \/ ApplyGoes(IF applyPc = "code" THEN "wall" ELSE "wallAgain")

AccountWall ==
    /\ applyPc = "wall"
    /\ \/ ApplyGoes("upload")
       \/ ApplyGoes(IF site.account THEN "signIn" ELSE "codeAgain")

(* a missing field or button is the reason to create the account; whether  *)
(* the site took the password is not looked at                             *)
SignIn ==
    /\ applyPc = "signIn"
    /\ ApplyGoes("codeAgain") \/ ApplyGoes("create")

CreateAccount ==
    /\ applyPc = "create"
    /\ ApplyGoes("codeAgain")

WallStays ==
    /\ applyPc = "wallAgain"
    /\ Returns("needs_account") \/ ApplyGoes("upload")

(* asked before the documents and again before every page *)
WorkdayAsksAgain ==
    /\ applyPc = "upload" /\ driver = "workday"
    /\ \/ MaySee /\ Returns("already")
       \/ Returns("failed")

NotAsked == driver = "workday" => MayMiss

(***************************************************************************)
(* The pages of the form.  LinkedIn and Indeed fill no choices.            *)
(***************************************************************************)
UploadDocuments ==
    /\ applyPc = "upload"
    /\ NotAsked
    /\ ApplyGoes(IF driver \in Listings THEN "text" ELSE "choices")

FillChoices ==
    /\ applyPc = "choices"
    /\ ApplyGoes(IF driver = "workday" THEN "lists" ELSE "text")

(* a list of the country, phone or source kind that takes no choice is     *)
(* unknown, once the text fields were filled                               *)
FillLists ==
    /\ applyPc = "lists"
    /\ \E open \in BOOLEAN: form' = [form EXCEPT !.open = open]
    /\ applyPc' = "text"
    /\ UNCHANGED <<site, driver, attempt, received, result, raised>>

(* mutant: the page is left as it is *)
UnknownQuestionSkipped ==
    /\ applyPc = "text"
    /\ ApplyGoes("press")

(* a question the bank cannot answer pauses, before anything is sent *)
UnknownQuestion ==
    /\ applyPc = "text"
    /\ Returns("needs_input")

AnswerFields ==
    /\ applyPc = "text" /\ ~form.open
    /\ form' = [form EXCEPT !.asked = TRUE] /\ applyPc' = "press"
    /\ UNCHANGED <<site, driver, attempt, received, result, raised>>

NextPage ==
    /\ applyPc = "press" /\ driver \in Wizards
    /\ form.page < site.pages
    /\ form' = [FirstPage EXCEPT !.page = form.page + 1, !.loops = form.loops - 1]
    /\ applyPc' = CASE form.loops = 1 -> "submit"
                    [] form.loops # 1 /\ driver = "linkedin" -> "text"
                    [] OTHER -> "upload"
    /\ UNCHANGED <<site, driver, attempt, received, result, raised>>

(* a submit button, or the fallback of BasePortal.submit(), is clicked: the  *)
(* last page is sent, if the click does it; on another page nothing is       *)
SubmitForm ==
    /\ applyPc \in {"press", "submit"}
    /\ \/ received' = received
       \/ /\ driver \in Listings => site.easy
          /\ form.page = site.pages \/ driver = "board"
          /\ received' = Append(received, [by |-> driver, asked |-> form.asked, attempt |-> attempt,
                                           loops |-> form.loops])
    /\ applyPc' = "confirm"
    /\ UNCHANGED <<site, driver, attempt, form, result, raised>>

SeesApplied ==
    /\ applyPc = "confirm" /\ driver \in Wizards
    /\ MaySee /\ Returns("already")

(* verify_apply_success(): marks, words or the link itself *)
Confirms == Received \/ site.telling

(* a job board is not asked *)
VerifySuccess ==
    /\ applyPc = "confirm"
    /\ Confirms \/ driver = "board"
    /\ Returns("applied")

(* mutant: what is not confirmed is tried again *)
VerifyFailsAgain ==
    /\ applyPc = "confirm" /\ driver # "board"
    /\ ~site.telling
    /\ driver \in Wizards => MayMiss
    /\ IF attempt < Attempts
       THEN /\ attempt' = attempt + 1 /\ applyPc' = "launch" /\ driver' = site.portal
            /\ form' = FirstPage /\ UNCHANGED <<site, received, result, raised>>
       ELSE Returns("failed")

VerifyFails ==
    /\ applyPc = "confirm" /\ driver # "board"
    /\ ~site.telling
    /\ driver \in Wizards => MayMiss
    /\ Returns("failed")

ApplyInit ==
    /\ site \in Sites /\ driver = site.portal
    /\ applyPc = "launch" /\ attempt = 1 /\ form = FirstPage
    /\ received = <<>> /\ result = "none" /\ raised = 0

ApplyNext ==
    \/ Launch \/ LoggedIn \/ HandleCaptcha \/ LeaveBrowser \/ AttemptRaises \/ WorkerTimesOut
    \/ OpenLinkedIn \/ EasyApplyModal \/ OpenIndeed \/ FollowCompanyLink \/ FollowIndeedLink
    \/ OpenCompany \/ OpenBoard \/ LandOnPage
    \/ LandOnWorkday \/ HandleVerification \/ AccountWall \/ SignIn \/ CreateAccount
    \/ WallStays \/ WorkdayAsksAgain
    \/ UploadDocuments \/ FillChoices \/ FillLists \/ UnknownQuestion \/ AnswerFields
    \/ NextPage \/ SubmitForm
    \/ SeesApplied \/ VerifySuccess \/ VerifyFails

ApplySpec == ApplyInit /\ [][ApplyNext]_applyVars

(***************************************************************************)
(* Properties.                                                             *)
(***************************************************************************)
(* Types; an attempt is within its limits and a finished call has a result. *)
ApplyTypes ==
    /\ site \in Sites /\ driver \in Portals /\ result \in Results
    /\ attempt \in 1..Attempts /\ raised \in 0..attempt
    /\ applyPc \in {"launch", "login", "captcha", "open", "follow", "modal", "landed", "code",
                    "wall", "signIn", "create", "codeAgain", "wallAgain", "upload", "choices",
                    "lists", "text", "press", "submit", "confirm", "leave", "done"}
    /\ form \in [page: 1..MaxPages, asked: BOOLEAN, open: BOOLEAN, loops: 0..WizardSteps]
    /\ applyPc \in {"leave", "done"} <=> result # "none"

(* The application a site receives is one whose last page the bank answered *)
(* in full, but for job boards, which are not asked, and for the page shown *)
(* when the wizard's loops are used up: it is submitted as it stands.       *)
AskedBeforeSent ==
    \A i \in DOMAIN received:
      received[i].asked \/ received[i].by = "board" \/ received[i].loops = 0

(* The site receives at most one application of each attempt, another one   *)
(* only after an attempt raised with its own already received, and none     *)
(* from an attempt that pauses for the user: the retry after the pause is   *)
(* not a second application.                                                *)
OneSendPerAttempt ==
    Len(received) <= raised + (IF result \in Pauses THEN 0 ELSE 1)

(* Where the adapter asks the site whether one has applied, and the site    *)
(* always says so, no attempt applies a second time.                        *)
SeenIsNotSentAgain ==
    site.candid /\ (\A i \in DOMAIN received: received[i].by \in Wizards) =>
      Len(received) + (IF site.before THEN 1 ELSE 0) <= 1

(* verify.py: "Confirm apply succeeded via portal selectors or page text -- *)
(* never assume": a successful result is of an application that arrived.    *)
NeverAssumed == result \in {"applied", "already"} => Received
=============================================================================
