--------------------------- MODULE ServicesProofs ---------------------------
(***************************************************************************)
(* Proofs about the services: the breaker, the guards of a request,        *)
(* notifications, an application in the browser and the sign-in to a       *)
(* portal, and that the composition the run checks implements each of      *)
(* them.  Sessions and the vault of cookies have modules of their own.     *)
(***************************************************************************)
EXTENDS MCServices, SessionsProofs, CookieVaultProofs

(***************************************************************************)
(* The circuit breaker.                                                    *)
(***************************************************************************)
BreakerInd == BreakerTypes /\ BreakerInv

LEMMA InitBreaker == ASSUME BreakerInit PROVE BreakerInd
BY BreakerAssumption DEF BreakerInit, BreakerInd, BreakerTypes, BreakerInv, Recovered

LEMMA StepBreaker ==
    ASSUME BreakerInd, [BreakerNext]_breakerVars
    PROVE  BreakerInd'
<1> USE BreakerAssumption DEF BreakerInd, BreakerTypes, BreakerInv, Recovered
<1>1. CASE Beat
  BY <1>1 DEF Beat
<1>2. ASSUME NEW c \in Caller, Passes(c) PROVE BreakerInd'
  BY <1>2 DEF Passes
<1>3. ASSUME NEW c \in Caller, Refuses(c) PROVE BreakerInd'
  BY <1>3 DEF Refuses, breakerVars
<1>4. ASSUME NEW c \in Caller, RecordSuccess(c) PROVE BreakerInd'
  BY <1>4 DEF RecordSuccess
<1>5. ASSUME NEW c \in Caller, RecordFailure(c) PROVE BreakerInd'
  <2>1. CASE failures + 1 >= Threshold
    BY <1>5, <2>1 DEF RecordFailure
  <2>2. CASE failures + 1 < Threshold
    BY <1>5, <2>2 DEF RecordFailure
  <2> QED BY <2>1, <2>2
<1>6. ASSUME NEW c \in Caller, CallCancelled(c) PROVE BreakerInd'
  BY <1>6 DEF CallCancelled
<1>7. CASE UNCHANGED breakerVars
  BY <1>7 DEF breakerVars
<1> QED BY <1>1, <1>2, <1>3, <1>4, <1>5, <1>6, <1>7 DEF BreakerNext

(* A call that starts found the breaker closed, half-open or recovered.     *)
LEMMA StartsInTime ==
    ASSUME BreakerInd, [BreakerNext]_breakerVars, NEW c \in Caller, c \in running' \ running
    PROVE  failures < Threshold \/ beat - failedAt >= Recovery
<1>1. PICK d \in Caller: Passes(d)
  BY DEF BreakerNext, Beat, Refuses, RecordSuccess, RecordFailure, CallCancelled, breakerVars
<1> QED BY <1>1, BreakerAssumption DEF Passes, BreakerInd, BreakerTypes, BreakerInv, Recovered

(* The breaker is closed exactly while it counts fewer failures than the    *)
(* threshold, was opened by the last of them, and is half-open only after   *)
(* the recovery time (CircuitBreaker, resilience.py).                       *)
THEOREM BreakerSound == BreakerSpec => [](BreakerTypes /\ BreakerInv)
<1>1. BreakerSpec => []BreakerInd
  BY InitBreaker, StepBreaker, PTL DEF BreakerSpec
<1> QED BY <1>1, PTL DEF BreakerInd

(* No call starts before the recovery time after the failure that opened    *)
(* the breaker, for every number of callers, threshold and recovery time.   *)
THEOREM BreakerHolds == BreakerSpec => NoCallTooSoon
<1>1. BreakerSpec => []BreakerInd
  BY BreakerSound, PTL DEF BreakerInd
<1>2. BreakerInd /\ [BreakerNext]_breakerVars =>
        [\A c \in Caller: c \in running' \ running =>
            failures < Threshold \/ beat - failedAt >= Recovery]_breakerVars
  BY StartsInTime
<1> QED BY <1>1, <1>2, PTL DEF BreakerSpec, NoCallTooSoon

(***************************************************************************)
(* An application in the browser.                                          *)
(***************************************************************************)
Application == [by: Portals, asked: BOOLEAN, attempt: 1..Attempts, loops: 0..WizardSteps]

(* The attempt that runs has sent its application.                         *)
Sent == Len(received) > 0 /\ received[Len(received)].attempt = attempt

(* Where an adapter has asked the site and not been told of an application. *)
Filling == {"modal", "follow", "code", "wall", "signIn", "create", "codeAgain", "wallAgain",
            "upload", "choices", "lists", "text", "press", "submit"}
Asking == {"launch", "login", "captcha", "open", "landed"}
Over == {"leave", "done"}

(* The properties count what was sent; that the count is right rests on    *)
(* where the attempt stands when it sends, and that it sends but once.     *)
SendInv ==
    /\ form.loops = 0 => applyPc \in {"submit", "confirm", "leave", "done"}
    /\ applyPc = "press" => form.asked
    /\ applyPc = "submit" => driver = "board" \/ form.loops = 0
    /\ raised < attempt \/ applyPc = "done"
    /\ received \in Seq(Application)
    /\ \A i \in DOMAIN received: received[i].attempt <= attempt
    /\ Len(received) <= raised + (IF Sent THEN 1 ELSE 0)
    /\ Sent => applyPc \in {"confirm", "leave", "done"} /\ result \notin Pauses
    /\ site.candid /\ driver \in Wizards /\ applyPc \in Filling => ~Received

ApplyInd == ApplyTypes /\ SendInv /\ AskedBeforeSent /\ SeenIsNotSentAgain

LEMMA ApplyLimits ==
  /\ Attempts \in Nat \ {0} /\ WizardSteps \in Nat \ {0} /\ MaxPages \in Nat \ {0}
  /\ FirstPage \in [page: 1..MaxPages, asked: BOOLEAN, open: BOOLEAN, loops: 0..WizardSteps]
  /\ FirstPage.page = 1 /\ FirstPage.loops = WizardSteps /\ FirstPage.asked = FALSE
BY ApplyAssumption DEF ApplyAssumption, FirstPage

LEMMA InitApply == ASSUME ApplyInit PROVE ApplyInd
<1>1. site \in Sites /\ driver \in Portals /\ received = <<>> /\ Len(received) = 0
  BY DEF ApplyInit, Sites
<1>2. ApplyTypes
  BY <1>1, ApplyLimits DEF ApplyInit, ApplyTypes, Results, Pauses
<1>3. SendInv
  BY <1>1, ApplyLimits DEF ApplyInit, SendInv, Sent, Filling
<1>4. AskedBeforeSent
  BY <1>1 DEF AskedBeforeSent
<1>5. SeenIsNotSentAgain
  BY <1>1 DEF SeenIsNotSentAgain
<1> QED BY <1>2, <1>3, <1>4, <1>5 DEF ApplyInd

(* A step that sends nothing and stays in its attempt.                     *)
LEMMA MovesOn ==
  ASSUME ApplyInd, UNCHANGED <<site, attempt, received, raised>>, applyPc \notin Over,
         ApplyTypes',
         form'.loops = 0 => applyPc' \in {"submit", "confirm", "leave", "done"},
         applyPc' = "press" => form'.asked,
         applyPc' = "submit" => driver' = "board" \/ form'.loops = 0,
         Sent => applyPc' \in {"confirm", "leave", "done"} /\ result' \notin Pauses,
         site.candid /\ driver' \in Wizards /\ applyPc' \in Filling => ~Received
  PROVE  ApplyInd'
<1>1. Sent' = Sent /\ Received' = Received
  BY DEF Sent, Received
<1>2. SendInv'
  BY <1>1 DEF ApplyInd, SendInv, Over
<1>3. AskedBeforeSent' /\ SeenIsNotSentAgain'
  BY DEF ApplyInd, AskedBeforeSent, SeenIsNotSentAgain
<1> QED BY <1>2, <1>3 DEF ApplyInd

(* The attempt goes on to another place, but not to press a button.        *)
LEMMA GoesOn ==
  ASSUME ApplyInd, NEW pc \in (Asking \union Filling) \ {"press"}, ApplyGoes(pc),
         applyPc \in (Asking \union Filling) \ {"submit"},
         pc = "submit" => driver = "board",
         site.candid /\ driver \in Wizards /\ pc \in Filling => ~Received
  PROVE  ApplyInd'
<1>1. applyPc' = pc /\ UNCHANGED <<site, driver, attempt, form, received, result, raised>>
  BY DEF ApplyGoes
<1>2. ~Sent /\ form.loops # 0 /\ result = "none"
  BY DEF ApplyInd, SendInv, ApplyTypes, Asking, Filling
<1>3. ApplyTypes'
  BY <1>1, <1>2 DEF ApplyInd, ApplyTypes, Asking, Filling
<1>4. applyPc \notin Over /\ pc \notin {"press", "confirm", "leave", "done"}
  BY DEF Asking, Filling, Over
<1> QED BY <1>1, <1>2, <1>3, <1>4, MovesOn

(* The attempt returns; it does not pause once it has sent.                *)
LEMMA ReturnsNow ==
  ASSUME ApplyInd, NEW r \in Results \ {"none"}, Returns(r), applyPc \notin Over,
         r \in Pauses => applyPc # "confirm"
  PROVE  ApplyInd'
<1>1. applyPc' = "leave" /\ result' = r /\ UNCHANGED <<site, driver, attempt, form, received, raised>>
  BY DEF Returns
<1>2. Sent => r \notin Pauses
  BY DEF ApplyInd, SendInv, Over
<1>3. ApplyTypes'
  BY <1>1 DEF ApplyInd, ApplyTypes, Over
<1> QED BY <1>1, <1>2, <1>3, MovesOn DEF Filling

(* The application is sent: once in an attempt, with every field answered  *)
(* or as the loops ran out, and by an adapter that was told of none.       *)
LEMMA SubmitKeeps == ASSUME ApplyInd, SubmitForm PROVE ApplyInd'
<1>1. applyPc \in {"press", "submit"} /\ applyPc' = "confirm"
      /\ UNCHANGED <<site, driver, attempt, form, result, raised>>
  BY DEF SubmitForm
<1>2. ~Sent /\ result = "none"
  BY <1>1 DEF ApplyInd, SendInv, ApplyTypes
<1>3. ApplyTypes'
  BY <1>1, <1>2 DEF ApplyInd, ApplyTypes
<1>4. CASE received' = received
  BY <1>1, <1>2, <1>3, <1>4, MovesOn DEF Filling, Over
<1>5. CASE received' # received
  <2> DEFINE n == Len(received)
             a == [by |-> driver, asked |-> form.asked, attempt |-> attempt, loops |-> form.loops]
  <2>1. received' = Append(received, a) /\ received \in Seq(Application) /\ n \in Nat
    BY <1>5 DEF SubmitForm, ApplyInd, SendInv
  <2>2. a \in Application
    BY DEF ApplyInd, ApplyTypes, Application
  <2>3. a.attempt = attempt /\ a.by = driver /\ a.asked = form.asked /\ a.loops = form.loops
    OBVIOUS
  <2> HIDE DEF a
  <2>4. received' \in Seq(Application) /\ Len(received') = n + 1 /\ received'[n + 1] = a
        /\ DOMAIN received' = 1..(n + 1) /\ \A i \in 1..n: received'[i] = received[i]
        /\ DOMAIN received = 1..n
    BY <2>1, <2>2
  <2>5. attempt \in Nat /\ raised \in Nat
    BY ApplyLimits DEF ApplyInd, ApplyTypes
  <2>6. Sent' /\ n <= raised
    BY <1>1, <1>2, <2>1, <2>3, <2>4, <2>5 DEF ApplyInd, SendInv, Sent
  <2>7. SendInv'
    <3>1. \A i \in DOMAIN received': received'[i].attempt <= attempt
      BY <2>3, <2>4, <2>5 DEF ApplyInd, SendInv
    <3>2. form.loops = 0 => applyPc' \in {"submit", "confirm", "leave", "done"}
      BY <1>1
    <3>3. raised < attempt
      BY <1>1 DEF ApplyInd, SendInv
    <3>4. Len(received') <= raised + 1
      BY <2>4, <2>5, <2>6
    <3>5. result \notin Pauses
      BY <1>2 DEF Pauses
    <3> QED BY <1>1, <2>4, <2>6, <3>1, <3>2, <3>3, <3>4, <3>5 DEF SendInv, Filling
  <2>8. AskedBeforeSent'
    <3>1. a.asked \/ a.by = "board" \/ a.loops = 0
      BY <1>1, <2>3 DEF ApplyInd, SendInv
    <3> QED BY <2>1, <2>4, <3>1 DEF ApplyInd, AskedBeforeSent
  <2>9. SeenIsNotSentAgain'
    <3>1. SUFFICES ASSUME site.candid, \A i \in DOMAIN received': received'[i].by \in Wizards
                   PROVE  Len(received') + (IF site.before THEN 1 ELSE 0) <= 1
      BY <1>1 DEF SeenIsNotSentAgain
    <3>2. driver \in Wizards
      BY <2>1, <2>3, <2>4, <3>1
    <3>3. ~Received
      BY <1>1, <3>1, <3>2 DEF ApplyInd, SendInv, Filling
    <3> QED BY <2>1, <2>4, <3>3 DEF Received
  <2> QED BY <1>3, <2>7, <2>8, <2>9 DEF ApplyInd
<1> QED BY <1>4, <1>5

LEMMA RaisesKeeps == ASSUME ApplyInd, AttemptRaises PROVE ApplyInd'
<1>1. /\ applyPc # "done" /\ UNCHANGED <<site, received>> /\ site \in Sites /\ driver \in Portals
      /\ attempt \in 1..Attempts /\ raised \in 0..attempt /\ raised < attempt
      /\ raised' = raised + (IF Sent THEN 1 ELSE 0)
  BY DEF AttemptRaises, ApplyInd, ApplyTypes, SendInv, Sent
<1>2. \/ /\ attempt < Attempts /\ attempt' = attempt + 1 /\ applyPc' = "launch" /\ result' = "none"
         /\ driver' = site.portal /\ form' = FirstPage
      \/ applyPc' = "done" /\ result' = "raised" /\ UNCHANGED <<attempt, driver, form>>
  BY DEF AttemptRaises
<1>3. attempt' \in 1..Attempts /\ raised' \in 0..attempt' /\ (raised' < attempt' \/ applyPc' = "done")
  BY <1>1, <1>2, ApplyLimits
<1>4. ApplyTypes'
  <2>1. site.portal \in Portals
    BY <1>1 DEF Sites
  <2>2. form' \in [page: 1..MaxPages, asked: BOOLEAN, open: BOOLEAN, loops: 0..WizardSteps]
    BY <1>2, ApplyLimits DEF ApplyInd, ApplyTypes
  <2> QED BY <1>1, <1>2, <1>3, <2>1, <2>2 DEF ApplyTypes, Results, Pauses
<1>5. received \in Seq(Application) /\ Len(received) \in Nat
      /\ \A i \in DOMAIN received: received[i].attempt \in Nat /\ received[i].attempt <= attempt
  <2>1. received \in Seq(Application) /\ \A i \in DOMAIN received: received[i].attempt <= attempt
    BY DEF ApplyInd, SendInv
  <2>2. \A i \in DOMAIN received: received[i] \in Application
    BY <2>1
  <2>3. \A a \in Application: a.attempt \in Nat
    BY ApplyLimits DEF Application
  <2> QED BY <2>1, <2>2, <2>3
<1>6. Len(received) <= raised'
  BY <1>1, <1>5, ApplyLimits DEF ApplyInd, SendInv
<1>7. attempt' = attempt + 1 => ~Sent'
  BY <1>1, <1>5, ApplyLimits DEF Sent
<1>8. SendInv'
  <2>1. Len(received) <= raised' + (IF Sent' THEN 1 ELSE 0)
    BY <1>3, <1>5, <1>6, ApplyLimits
  <2>2. \A i \in DOMAIN received: received[i].attempt <= attempt'
    BY <1>1, <1>2, <1>5, ApplyLimits
  <2>3. CASE applyPc' = "launch"
    BY <1>1, <1>2, <1>3, <1>5, <1>7, <2>1, <2>2, <2>3, ApplyLimits DEF SendInv, Filling
  <2>4. CASE applyPc' = "done" /\ result' = "raised"
    BY <1>1, <1>3, <1>5, <2>1, <2>2, <2>4 DEF SendInv, Filling, Pauses
  <2> QED BY <1>2, <2>3, <2>4
<1>9. AskedBeforeSent' /\ SeenIsNotSentAgain'
  BY <1>1 DEF ApplyInd, AskedBeforeSent, SeenIsNotSentAgain
<1> QED BY <1>4, <1>8, <1>9 DEF ApplyInd

LEMMA StepApply ==
  ASSUME ApplyInd, [ApplyNext]_applyVars
  PROVE  ApplyInd'
<1>1. CASE UNCHANGED applyVars
  BY <1>1 DEF applyVars, ApplyInd, ApplyTypes, SendInv, Sent, Received, AskedBeforeSent,
              SeenIsNotSentAgain
<1>2. site \in Sites /\ driver \in Portals /\ site.company \in Companies /\ result \in Results
  BY DEF ApplyInd, ApplyTypes, Sites
<1>3. \A r \in Results \ {"none"}: Returns(r) /\ applyPc \notin Over /\ (r \in Pauses => applyPc # "confirm")
                                   => ApplyInd'
  BY ReturnsNow
<1>4. {"already", "failed", "applied", "needs_input", "needs_otp", "needs_account"} \subseteq Results \ {"none"}
      /\ {"already", "failed", "applied"} \cap Pauses = {}
  BY DEF Results, Pauses
<1>5. applyPc \in Filling /\ site.candid /\ driver \in Wizards => ~Received
  BY DEF ApplyInd, SendInv
<1>6. ASSUME NEW pc \in (Asking \union Filling) \ {"press", "submit"}, ApplyGoes(pc),
             applyPc \in (Asking \union Filling) \ {"submit"},
             site.candid /\ driver \in Wizards /\ pc \in Filling => ~Received
      PROVE  ApplyInd'
  BY <1>6, GoesOn
<1>7. CASE Launch \/ LoggedIn \/ HandleCaptcha
  BY <1>3, <1>4, <1>6, <1>7 DEF Launch, LoggedIn, HandleCaptcha, Asking, Filling, Over
<1>8. CASE OpenLinkedIn \/ EasyApplyModal \/ OpenIndeed
  BY <1>3, <1>4, <1>6, <1>8
     DEF OpenLinkedIn, EasyApplyModal, OpenIndeed, Asking, Filling, Over, MayMiss, Wizards
<1>9. CASE OpenCompany \/ LandOnPage \/ LandOnWorkday \/ HandleVerification \/ AccountWall \/ SignIn
           \/ CreateAccount
  BY <1>3, <1>4, <1>5, <1>6, <1>9
     DEF OpenCompany, LandOnPage, LandOnWorkday, HandleVerification, AccountWall, SignIn,
         CreateAccount, Asking, Filling, Over, MayMiss, Wizards
<1>10. CASE WallStays \/ WorkdayAsksAgain \/ UploadDocuments \/ FillChoices \/ UnknownQuestion
  BY <1>3, <1>4, <1>5, <1>6, <1>10
     DEF WallStays, WorkdayAsksAgain, UploadDocuments, FillChoices, UnknownQuestion,
         Asking, Filling, Over
<1>11. CASE SeesApplied \/ VerifySuccess \/ VerifyFails
  BY <1>3, <1>4, <1>11 DEF SeesApplied, VerifySuccess, VerifyFails, Over
<1>12. CASE OpenBoard
  BY <1>12, GoesOn DEF OpenBoard, Asking, Filling, Wizards
<1>13. CASE FollowCompanyLink \/ FollowIndeedLink
  <2>1. CASE Lands(site.company)
    <3>1. /\ driver' = site.company /\ applyPc' = "landed"
          /\ UNCHANGED <<site, attempt, form, received, result, raised>>
      BY <2>1 DEF Lands
    <3>2. applyPc = "follow"
      BY <1>13 DEF FollowCompanyLink, FollowIndeedLink
    <3>3. ApplyTypes'
      BY <1>2, <3>1, <3>2 DEF ApplyInd, ApplyTypes, Companies, Portals
    <3> QED BY <3>1, <3>2, <3>3, MovesOn DEF ApplyInd, SendInv, Over, Filling
  <2>2. CASE ~Lands(site.company)
    BY <1>3, <1>4, <1>6, <1>13, <2>2
       DEF FollowCompanyLink, FollowIndeedLink, Asking, Filling, Over, Wizards
  <2> QED BY <2>1, <2>2
<1>14. CASE FillLists \/ AnswerFields \/ NextPage
  <2>1. /\ applyPc \in {"lists", "text", "press"}
        /\ UNCHANGED <<site, driver, attempt, received, result, raised>>
        /\ applyPc' \in {"text", "press", "submit", "upload"}
    BY <1>14 DEF FillLists, AnswerFields, NextPage
  <2>2. form \in [page: 1..MaxPages, asked: BOOLEAN, open: BOOLEAN, loops: 0..WizardSteps]
        /\ form.loops # 0
    BY <2>1 DEF ApplyInd, ApplyTypes, SendInv
  <2>3. /\ form' \in [page: 1..MaxPages, asked: BOOLEAN, open: BOOLEAN, loops: 0..WizardSteps]
        /\ form'.loops = 0 => applyPc' = "submit"
        /\ applyPc' = "press" => form'.asked
        /\ applyPc' = "submit" => form'.loops = 0
    <3>1. CASE FillLists
      BY <2>2, <3>1 DEF FillLists
    <3>2. CASE AnswerFields
      BY <2>2, <3>2 DEF AnswerFields
    <3>3. CASE NextPage
      <4>1. site.pages \in 1..MaxPages
        BY <1>2 DEF Sites
      <4>2. /\ form.page + 1 \in 1..MaxPages /\ form.loops - 1 \in 0..WizardSteps
            /\ form' = [FirstPage EXCEPT !.page = form.page + 1, !.loops = form.loops - 1]
            /\ IF form.loops = 1 THEN applyPc' = "submit" ELSE applyPc' \in {"text", "upload"}
        BY <2>2, <3>3, <4>1, ApplyLimits DEF NextPage
      <4>3. form'.loops = form.loops - 1
        BY <4>2, ApplyLimits
      <4>4. form' \in [page: 1..MaxPages, asked: BOOLEAN, open: BOOLEAN, loops: 0..WizardSteps]
        BY <4>2, ApplyLimits
      <4>5. (form'.loops = 0 <=> form.loops = 1) /\ applyPc' # "press"
        BY <2>2, <4>2, <4>3, ApplyLimits
      <4> QED BY <4>2, <4>4, <4>5
    <3> QED BY <1>14, <3>1, <3>2, <3>3
  <2>4. ApplyTypes'
    BY <2>1, <2>3 DEF ApplyInd, ApplyTypes
  <2>5. ~Sent
    BY <2>1 DEF ApplyInd, SendInv
  <2> QED BY <1>5, <2>1, <2>3, <2>4, <2>5, MovesOn DEF Over, Filling
<1>15. CASE LeaveBrowser
  BY <1>15 DEF LeaveBrowser, ApplyGoes, ApplyInd, ApplyTypes, SendInv, Sent, Received, AskedBeforeSent,
               SeenIsNotSentAgain, Filling
<1>16. CASE WorkerTimesOut
  <2>1. /\ applyPc # "done" /\ applyPc' = "done" /\ result' = "timeout"
        /\ UNCHANGED <<site, driver, attempt, form, received, raised>>
    BY <1>16 DEF WorkerTimesOut
  <2> QED BY <2>1 DEF ApplyInd, ApplyTypes, SendInv, Sent, Received, AskedBeforeSent,
                       SeenIsNotSentAgain, Filling, Results, Pauses
<1> QED BY <1>1, <1>7, <1>8, <1>9, <1>10, <1>11, <1>12, <1>13, <1>14, <1>15, <1>16, SubmitKeeps,
           RaisesKeeps DEF ApplyNext

LEMMA ApplySound == ApplySpec => []ApplyInd
BY InitApply, StepApply, PTL DEF ApplySpec

(* A call of apply_with_retry() is within its limits, and has a result     *)
(* exactly when it is over.                                                *)
THEOREM ApplyTypeCorrect == ApplySpec => []ApplyTypes
BY ApplySound, PTL DEF ApplyInd

(* Every application a site receives was answered in full, is of a job     *)
(* board, or was left to the last of the wizard's loops.                   *)
THEOREM AskedHolds == ApplySpec => []AskedBeforeSent
BY ApplySound, PTL DEF ApplyInd

(* For any number of attempts, pages and loops: one application at most of *)
(* each attempt, another only after one that raised with its own sent, and *)
(* none from an attempt that pauses.                                       *)
THEOREM SendHolds == ApplySpec => []OneSendPerAttempt
<1>1. ApplyInd => OneSendPerAttempt
  <2> SUFFICES ASSUME ApplyInd PROVE OneSendPerAttempt
    OBVIOUS
  <2>1. received \in Seq(Application) /\ Len(received) \in Nat /\ raised \in Nat
    BY ApplyLimits DEF ApplyInd, SendInv, ApplyTypes
  <2> QED BY <2>1 DEF ApplyInd, SendInv, OneSendPerAttempt
<1> QED BY <1>1, ApplySound, PTL

(* Where the adapter asks and the site always tells, nobody applies twice. *)
THEOREM SeenHolds == ApplySpec => []SeenIsNotSentAgain
BY ApplySound, PTL DEF ApplyInd

(***************************************************************************)
(* Signing in to a portal.                                                 *)
(***************************************************************************)
LoginPC == {"open", "look", "form", "fill", "check", "returned", "gate", "search", "ended"}

(* Where an attempt has not yet sent the password.                         *)
Unsent == {"open", "look", "form", "fill"}

(* An attempt sends the password once, and a fetch begins another attempt  *)
(* only after an error that is no refusal.                                 *)
TriesInv ==
    /\ passwords + (IF loginPc \in Unsent THEN 1 ELSE 0) <= tries
    /\ faults < tries \/ (loginPc = "ended" /\ faults <= tries)
    /\ account.caller = "fetch" => tries <= 1 + faults
    /\ loginPc # "ended" => fetchedBy = "nobody"
    /\ loginPc \in {"gate", "search"} => account.caller = "fetch"
    /\ loginPc = "search" /\ account.portal \in AuthPortals
         /\ (account.username \/ account.password) => jar

LoginInd == LoginTypes /\ TriesInv

LEMMA LoginParts ==
  ASSUME LoginInd
  PROVE  /\ LoginAttempts \in Nat \ {0} /\ account \in Accounts /\ shown \in Shown
         /\ jar \in BOOLEAN /\ identity \in BOOLEAN /\ account.saved \in BOOLEAN
         /\ tries \in 1..LoginAttempts /\ passwords \in 0..LoginAttempts /\ faults \in 0..LoginAttempts
         /\ loginPc \in LoginPC /\ account.caller \in {"fetch", "apply"}
BY LoginAssumption DEF LoginInd, LoginTypes, LoginAssumption, Accounts, LoginPC

LEMMA InitLogin == ASSUME LoginInit PROVE LoginInd
<1>1. account \in Accounts /\ account.saved \in BOOLEAN
  BY DEF LoginInit, Accounts
<1>2. jar \in BOOLEAN /\ shown \in Shown /\ identity \in BOOLEAN
  BY <1>1 DEF LoginInit, Shown
<1>3. LoginTypes
  BY <1>1, <1>2, LoginAssumption DEF LoginInit, LoginTypes, LoginAssumption
<1>4. TriesInv
  BY DEF LoginInit, TriesInv, Unsent
<1> QED BY <1>3, <1>4 DEF LoginInd

(* A step within an attempt that sends no password.                        *)
LEMMA LoginStays ==
  ASSUME LoginInd, UNCHANGED <<account, tries, passwords, faults, fetchedBy>>, loginPc # "ended",
         loginPc' \in LoginPC, loginPc' \in Unsent => loginPc \in Unsent,
         jar' \in BOOLEAN, shown' \in Shown, identity' \in BOOLEAN,
         identity' => account.portal = "linkedin",
         loginPc' \in {"gate", "search"} => account.caller = "fetch",
         loginPc' = "search" /\ account.portal \in AuthPortals
           /\ (account.username \/ account.password) => jar'
  PROVE  LoginInd'
<1>1. LoginTypes'
  BY DEF LoginInd, LoginTypes, TriesInv, LoginPC
<1>2. passwords + (IF loginPc' \in Unsent THEN 1 ELSE 0) <= tries
  BY LoginParts DEF LoginInd, TriesInv
<1>3. TriesInv'
  BY <1>2 DEF LoginInd, TriesInv
<1> QED BY <1>1, <1>3 DEF LoginInd

(* An attempt ends by raising: of a fetch, by an error that is no refusal. *)
LEMMA AgainKeeps ==
  ASSUME LoginInd, Again, loginPc # "ended",
         \/ faults' = faults /\ account.caller = "apply"
         \/ faults' = faults + 1
  PROVE  LoginInd'
<1>1. UNCHANGED <<account, shown, passwords, identity, fetchedBy>>
  BY DEF Again
<1>2. /\ jar' \in BOOLEAN
      /\ \/ tries < LoginAttempts /\ tries' = tries + 1 /\ loginPc' = "open"
         \/ tries' = tries /\ loginPc' = "ended"
  BY LoginParts DEF Again
<1>3. /\ LoginAttempts \in Nat \ {0} /\ tries \in 1..LoginAttempts /\ passwords \in 0..LoginAttempts
      /\ faults \in 0..LoginAttempts /\ faults < tries /\ passwords <= tries
      /\ account.caller = "fetch" => tries <= 1 + faults
      /\ fetchedBy = "nobody"
  BY LoginParts DEF LoginInd, TriesInv
<1>4. tries' \in 1..LoginAttempts /\ faults' \in 0..LoginAttempts
  BY <1>2, <1>3
<1>5. LoginTypes'
  BY <1>1, <1>2, <1>3, <1>4 DEF LoginInd, LoginTypes
<1>6. TriesInv'
  BY <1>1, <1>2, <1>3 DEF TriesInv, Unsent
<1> QED BY <1>5, <1>6 DEF LoginInd

LEMMA RefusedKeeps ==
  ASSUME LoginInd, Refused, loginPc # "ended"
  PROVE  LoginInd'
<1>1. CASE account.caller = "apply"
  BY <1>1, AgainKeeps DEF Refused
<1>2. CASE account.caller # "apply"
  <2>1. /\ loginPc' = "ended"
        /\ UNCHANGED <<account, jar, shown, tries, passwords, faults, identity, fetchedBy>>
    BY <1>2 DEF Refused
  <2> QED BY <2>1, LoginParts, LoginStays DEF LoginPC, Unsent, LoginInd, LoginTypes
<1> QED BY <1>1, <1>2

(* The password, or nothing, is sent.                                      *)
LEMMA SentKeeps ==
  ASSUME LoginInd, passwords' \in {passwords, passwords + 1}, jar' \in BOOLEAN, shown' \in Shown,
         loginPc \in Unsent, loginPc' \in {"check", "returned"},
         UNCHANGED <<account, tries, faults, identity, fetchedBy>>
  PROVE  LoginInd'
<1>1. /\ LoginAttempts \in Nat \ {0} /\ tries \in 1..LoginAttempts /\ passwords \in 0..LoginAttempts
      /\ passwords + 1 <= tries /\ loginPc # "ended"
  BY LoginParts DEF LoginInd, TriesInv, Unsent
<1>2. passwords' \in 0..LoginAttempts /\ passwords' <= tries
  BY <1>1
<1>3. LoginTypes'
  BY <1>1, <1>2 DEF LoginInd, LoginTypes, TriesInv
<1>4. passwords' + (IF loginPc' \in Unsent THEN 1 ELSE 0) <= tries
  <2>1. loginPc' \notin Unsent
    BY DEF Unsent
  <2>2. \A n \in Nat: n + 0 = n
    OBVIOUS
  <2>3. passwords' \in Nat
    BY <1>1, <1>2
  <2> QED BY <1>2, <2>1, <2>2, <2>3
<1>5. TriesInv'
  BY <1>1, <1>4 DEF LoginInd, TriesInv
<1> QED BY <1>3, <1>5 DEF LoginInd

LEMMA StepLogin ==
  ASSUME LoginInd, [LoginNext]_loginVars
  PROVE  LoginInd'
<1>1. CASE UNCHANGED loginVars
  BY <1>1 DEF loginVars, LoginInd, LoginTypes, TriesInv
<1>2. /\ identity => account.portal = "linkedin"
      /\ jar \in BOOLEAN /\ shown \in Shown /\ identity \in BOOLEAN
      /\ loginPc \in {"gate", "search"} => account.caller = "fetch"
  BY LoginParts DEF LoginInd, LoginTypes, TriesInv
<1>3. ASSUME NEW pc \in LoginPC, LoginGoes(pc), loginPc # "ended", pc \in Unsent => loginPc \in Unsent,
             pc \in {"gate", "search"} => account.caller = "fetch",
             pc = "search" /\ account.portal \in AuthPortals
               /\ (account.username \/ account.password) => jar
      PROVE  LoginInd'
  BY <1>2, <1>3, LoginStays DEF LoginGoes, Same
<1>4. ASSUME NEW pc \in LoginPC \ {"search"}, Loads(pc), loginPc # "ended", pc \in Unsent => loginPc \in Unsent,
             pc = "gate" => account.caller = "fetch"
      PROVE  LoginInd'
  <2>1. jar' \in BOOLEAN /\ shown' \in Shown /\ loginPc' = pc
        /\ UNCHANGED <<account, tries, passwords, faults, fetchedBy, identity>>
    BY <1>2, <1>4 DEF Loads, Same
  <2> QED BY <1>2, <1>4, <2>1, LoginStays
<1>5. ASSUME Remembers("returned"), loginPc # "ended" PROVE LoginInd'
  <2>1. /\ identity' \in BOOLEAN /\ (identity' => account.portal = "linkedin")
        /\ loginPc' = "returned"
        /\ UNCHANGED <<account, tries, passwords, faults, fetchedBy, jar, shown>>
    BY <1>2, <1>5 DEF Remembers, Same
  <2> QED BY <1>2, <1>5, <2>1, LoginStays DEF LoginPC, Unsent
<1>6. CASE OpenPortal
  BY <1>3, <1>4, <1>6 DEF OpenPortal, At, LoginPC, Unsent
<1>7. CASE LinkedInSession
  BY <1>4, <1>5, <1>7, RefusedKeeps DEF LinkedInSession, At, LoginPC, Unsent
<1>8. CASE IndeedSession
  BY <1>3, <1>4, <1>8, RefusedKeeps DEF IndeedSession, At, LoginPC, Unsent
<1>9. CASE LinkedInForm
  BY <1>3, <1>9, RefusedKeeps DEF LinkedInForm, At, LoginPC, Unsent
<1>10. CASE FieldMissing
  BY <1>10, RefusedKeeps DEF FieldMissing, At
<1>11. CASE SendPassword
  <2>1. passwords' \in {passwords, passwords + 1}
    BY <1>11, LoginParts DEF SendPassword
  <2> QED BY <1>11, <2>1, SentKeeps DEF SendPassword, At, Unsent
<1>12. CASE GenericLogin
  BY <1>12, SentKeeps DEF GenericLogin, At, Unsent
<1>13. CASE CheckLogin
  BY <1>5, <1>13, RefusedKeeps DEF CheckLogin, At
<1>14. CASE CaptchaHook
  BY <1>4, <1>14, RefusedKeeps DEF CaptchaHook, At, LoginPC, Unsent
<1>15. CASE EnsureLoggedIn
  BY <1>2, <1>3, <1>15, RefusedKeeps DEF EnsureLoggedIn, At, LoginPC, Unsent, Verified
<1>16. CASE ReadListings
  <2>1. /\ loginPc = "search" /\ loginPc' = "ended" /\ fetchedBy' = IF jar THEN "user" ELSE "guest"
        /\ UNCHANGED <<account, jar, shown, tries, passwords, faults, identity>>
    BY <1>16 DEF ReadListings, At
  <2>2. LoginTypes'
    BY <2>1 DEF LoginInd, LoginTypes, TriesInv
  <2>3. TriesInv'
    BY <2>1, LoginParts DEF LoginInd, TriesInv, Unsent
  <2> QED BY <2>2, <2>3 DEF LoginInd
<1>17. CASE Fault
  BY <1>17, AgainKeeps DEF Fault
<1> QED BY <1>1, <1>6, <1>7, <1>8, <1>9, <1>10, <1>11, <1>12, <1>13, <1>14, <1>15, <1>16, <1>17
        DEF LoginNext

LEMMA LoginSound == LoginSpec => []LoginInd
BY InitLogin, StepLogin, PTL DEF LoginSpec

(* Listings are read as a guest only where nobody has to sign in, and the  *)
(* account's name only on LinkedIn.                                        *)
THEOREM LoginTypeCorrect == LoginSpec => []LoginTypes
BY LoginSound, PTL DEF LoginInd

(* However often a fetch may try: a portal that refused a password is not  *)
(* sent it again.                                                          *)
THEOREM PasswordHolds == LoginSpec => []PasswordSentOnce
<1>1. LoginInd => PasswordSentOnce
  <2> SUFFICES ASSUME LoginInd, account.caller = "fetch" PROVE passwords <= 1 + faults
    BY DEF PasswordSentOnce
  <2>1. passwords <= tries
    BY LoginParts DEF LoginInd, TriesInv
  <2> QED BY <2>1, LoginParts DEF LoginInd, TriesInv
<1> QED BY <1>1, LoginSound, PTL

(***************************************************************************)
(* The guards of a request: the window.                                    *)
(***************************************************************************)
Position == [pc: {"idle", "lookup", "limit", "script", "handle", "record"},
             key: IdemKey \union {NoKey}, time: Ticks]

(* The time a script runs with is at most MaxLag old.                      *)
LagInv ==
    /\ IsFiniteSet(scores)
    /\ \A p \in GuardedRequest: GuardAt(p, "script") =>
         guarded[p].time <= clock /\ clock - guarded[p].time <= MaxLag

(* A request let through stays in the sorted set until its window, less    *)
(* the lag of its own time, has passed.                                    *)
RemainsInv ==
    \A i \in DOMAIN admitted:
      /\ admitted[i] <= clock
      /\ admitted[i] - MaxLag > clock - RateWindow =>
           \E m \in scores: m.member = i /\ m.score >= admitted[i] - MaxLag

WindowInd == GuardTypes /\ LagInv /\ RemainsInv /\ WindowHolds

LEMMA GuardLimits == RateLimit \in Nat /\ RateWindow \in Nat /\ MaxLag \in Nat /\ MaxTicks \in Nat
                     /\ IsFiniteSet(GuardedRequest) /\ NoKey \notin IdemKey
BY GuardAssumption

LEMMA GuardPosition ==
    ASSUME GuardTypes, NEW p \in GuardedRequest
    PROVE  guarded \in [GuardedRequest -> Position] /\ guarded[p] \in Position
           /\ guarded[p].key \in IdemKey \union {NoKey} /\ guarded[p].time \in Ticks
BY DEF GuardTypes, Position

LEMMA InitWindow == ASSUME GuardInit PROVE WindowInd
<1> USE GuardLimits DEF GuardInit
<1>1. GuardTypes
  BY DEF GuardTypes, Outside, Ticks
<1>2. LagInv
  BY FS_EmptySet DEF LagInv, GuardAt, Outside
<1>3. RemainsInv
  BY DEF RemainsInv
<1>4. WindowHolds
  <2> SUFFICES ASSUME NEW t \in Ticks
               PROVE  Cardinality({i \in DOMAIN admitted: /\ t - (RateWindow - MaxLag) < admitted[i]
                                                          /\ admitted[i] <= t}) <= RateLimit
    BY DEF WindowHolds
  <2>1. {i \in DOMAIN admitted: t - (RateWindow - MaxLag) < admitted[i] /\ admitted[i] <= t} = {}
    OBVIOUS
  <2> QED BY <2>1, FS_EmptySet
<1> QED BY <1>1, <1>2, <1>3, <1>4 DEF WindowInd

(* A step that neither counts a request nor moves the clock.               *)
LEMMA WindowUntouched ==
    ASSUME WindowInd, GuardTypes', UNCHANGED <<scores, admitted, clock>>,
           \A p \in GuardedRequest: GuardAt(p, "script")' =>
              guarded'[p].time = clock \/ (GuardAt(p, "script") /\ guarded'[p].time = guarded[p].time)
    PROVE  WindowInd'
<1>1. LagInv'
  <2> SUFFICES ASSUME NEW p \in GuardedRequest, GuardAt(p, "script")'
               PROVE  guarded'[p].time <= clock /\ clock - guarded'[p].time <= MaxLag
    BY DEF WindowInd, LagInv
  <2>1. clock \in Nat
    BY GuardLimits DEF WindowInd, GuardTypes, Ticks
  <2>2. CASE guarded'[p].time = clock
    BY <2>1, <2>2, GuardLimits
  <2>3. CASE GuardAt(p, "script") /\ guarded'[p].time = guarded[p].time
    BY <2>3 DEF WindowInd, LagInv
  <2> QED BY <2>2, <2>3
<1>2. RemainsInv' /\ WindowHolds'
  BY DEF WindowInd, RemainsInv, WindowHolds
<1> QED BY <1>1, <1>2 DEF WindowInd

(* Where a request goes.                                                   *)
LEMMA GuardGoesTo ==
    ASSUME GuardTypes, NEW p \in GuardedRequest, NEW r \in Position,
           guarded' = [guarded EXCEPT ![p] = r]
    PROVE  /\ guarded' \in [GuardedRequest -> Position] /\ guarded'[p] = r
           /\ \A q \in GuardedRequest \ {p}: guarded'[q] = guarded[q]
BY GuardPosition

LEMMA GuardStepGoes ==
    ASSUME GuardTypes, NEW p \in GuardedRequest
    PROVE  /\ \A pc \in {"idle", "lookup", "limit", "script", "handle", "record"}:
                GuardGoes(p, pc) =>
                  /\ guarded' \in [GuardedRequest -> Position]
                  /\ guarded'[p].pc = pc /\ guarded'[p].key = guarded[p].key
                  /\ guarded'[p].time = guarded[p].time
                  /\ \A q \in GuardedRequest \ {p}: guarded'[q] = guarded[q]
           /\ GuardEnds(p) =>
                  /\ guarded' \in [GuardedRequest -> Position] /\ guarded'[p] = Outside
                  /\ \A q \in GuardedRequest \ {p}: guarded'[q] = guarded[q]
<1>1. ASSUME NEW pc \in {"idle", "lookup", "limit", "script", "handle", "record"}, GuardGoes(p, pc)
      PROVE  /\ guarded' \in [GuardedRequest -> Position]
             /\ guarded'[p].pc = pc /\ guarded'[p].key = guarded[p].key
             /\ guarded'[p].time = guarded[p].time
             /\ \A q \in GuardedRequest \ {p}: guarded'[q] = guarded[q]
  BY <1>1, GuardPosition DEF GuardGoes, Position
<1>2. Outside \in Position
  BY GuardLimits DEF Outside, Position, Ticks
<1>3. ASSUME GuardEnds(p)
      PROVE  /\ guarded' \in [GuardedRequest -> Position] /\ guarded'[p] = Outside
             /\ \A q \in GuardedRequest \ {p}: guarded'[q] = guarded[q]
  BY <1>2, <1>3, GuardPosition DEF GuardEnds
<1> QED BY <1>1, <1>3

(* The script that lets a request through finds room for it in every       *)
(* stretch that ends now.                                                  *)
LEMMA ScriptKeepsWindow ==
    ASSUME WindowInd, NEW p \in GuardedRequest, GuardAt(p, "script"),
           NEW t \in Ticks, t = guarded[p].time, Cardinality(Kept(t)) < RateLimit,
           admitted' = Append(admitted, clock)
    PROVE  WindowHolds'
<1>1. /\ clock \in Nat /\ t \in Nat /\ t <= clock /\ clock - t <= MaxLag
      /\ RateWindow \in Nat /\ MaxLag \in Nat /\ RateLimit \in Nat /\ admitted \in Seq(Ticks)
  BY GuardLimits DEF WindowInd, LagInv, GuardTypes, Ticks
<1>2. /\ Len(admitted) \in Nat /\ DOMAIN admitted = 1..Len(admitted)
      /\ DOMAIN admitted' = 1..(Len(admitted) + 1) /\ admitted'[Len(admitted) + 1] = clock
      /\ \A i \in DOMAIN admitted: admitted'[i] = admitted[i] /\ admitted[i] \in Nat
  <2>1. admitted \in Seq(Nat) /\ clock \in Nat
    BY <1>1, GuardLimits DEF Ticks
  <2>2. \A i \in DOMAIN admitted: admitted[i] \in Nat
    BY <2>1
  <2> QED BY <2>1, <2>2
<1> SUFFICES ASSUME NEW u \in Ticks
             PROVE  Cardinality({i \in DOMAIN admitted': /\ u - (RateWindow - MaxLag) < admitted'[i]
                                                         /\ admitted'[i] <= u}) <= RateLimit
  BY DEF WindowHolds
<1>10. clock \in Nat /\ t \in Nat /\ t <= clock /\ RateWindow \in Nat /\ MaxLag \in Nat
  BY <1>1
<1> DEFINE W == {i \in DOMAIN admitted: u - (RateWindow - MaxLag) < admitted[i] /\ admitted[i] <= u}
           X == {i \in DOMAIN admitted': u - (RateWindow - MaxLag) < admitted'[i] /\ admitted'[i] <= u}
<1>3. u \in Nat
  BY GuardLimits DEF Ticks
<1>4. CASE u < clock
  <2>1. X = W
    BY <1>1, <1>2, <1>3, <1>4
  <2>2. Cardinality(W) <= RateLimit
    BY DEF WindowInd, WindowHolds
  <2> QED BY <2>1, <2>2
<1>5. CASE u >= clock
  <2> DEFINE K == Kept(t)
             M == {m.member: m \in K}
             f == [m \in K |-> m.member]
  <2>1. IsFiniteSet(K)
    BY FS_Subset DEF WindowInd, LagInv, Kept
  <2>2. f \in Surjection(K, M)
    BY DEF Surjection
  <2> HIDE DEF f
  <2>3. IsFiniteSet(M) /\ Cardinality(M) <= Cardinality(K)
    BY <2>1, <2>2, FS_Surjection
  <2>4. X \subseteq M \union {Len(admitted) + 1}
    <3> SUFFICES ASSUME NEW i \in X, i # Len(admitted) + 1 PROVE i \in M
      OBVIOUS
    <3>1. i \in DOMAIN admitted /\ u - (RateWindow - MaxLag) < admitted[i] /\ admitted[i] \in Nat
      BY <1>2
    <3>2. admitted[i] - MaxLag > clock - RateWindow
      BY <3>1, <1>1, <1>3, <1>5
    <3>3. PICK m \in scores: m.member = i /\ m.score >= admitted[i] - MaxLag
      BY <3>1, <3>2 DEF WindowInd, RemainsInv
    <3>4. m.score \in Nat
      BY GuardLimits DEF WindowInd, GuardTypes, Ticks
    <3> DEFINE a == admitted[i]
               b == m.score
    <3>5. a \in Nat /\ b \in Nat /\ b >= a - MaxLag /\ a - MaxLag > clock - RateWindow
      BY <3>1, <3>2, <3>3, <3>4
    <3> HIDE DEF a, b
    <3>6. b > t - RateWindow
      BY <3>5, <1>10
    <3> QED BY <3>3, <3>6 DEF Kept, b
  <2>5. /\ IsFiniteSet(M \union {Len(admitted) + 1})
        /\ Cardinality(M \union {Len(admitted) + 1}) <= Cardinality(M) + 1
    <3> HIDE DEF M
    <3>1. Cardinality(M) \in Nat
      BY <2>3, FS_CardinalityType
    <3>2. /\ IsFiniteSet(M \union {Len(admitted) + 1})
          /\ Cardinality(M \union {Len(admitted) + 1}) \in {Cardinality(M), Cardinality(M) + 1}
      BY <2>3, FS_AddElement
    <3> QED BY <3>1, <3>2
  <2>6. Cardinality(X) <= Cardinality(M \union {Len(admitted) + 1})
    BY <2>4, <2>5, FS_Subset
  <2>7. /\ Cardinality(X) \in Nat /\ Cardinality(M) \in Nat /\ Cardinality(K) \in Nat
        /\ Cardinality(M \union {Len(admitted) + 1}) \in Nat
    BY <2>1, <2>3, <2>4, <2>5, FS_Subset, FS_CardinalityType
  <2>8. Cardinality(K) + 1 <= RateLimit
    BY <2>7, <1>1
  <2> HIDE DEF X, M, K
  <2>9. Cardinality(X) <= RateLimit
    BY <2>3, <2>5, <2>6, <2>7, <2>8, <1>1
  <2> QED BY <2>9 DEF X
<1>6. u < clock \/ u >= clock
  BY <1>10, <1>3
<1> QED BY <1>4, <1>5, <1>6

(* What the script leaves, and what it lets through.                       *)
LEMMA ScriptKeepsSet ==
    ASSUME WindowInd, NEW p \in GuardedRequest, GuardAt(p, "script"),
           NEW t \in Ticks, t = guarded[p].time
    PROVE  /\ scores' = Kept(t) /\ UNCHANGED <<admitted, clock>> => RemainsInv'
           /\ /\ scores' = Kept(t) \union {[member |-> Len(admitted) + 1, score |-> t]}
              /\ admitted' = Append(admitted, clock) /\ clock' = clock
              => RemainsInv'
<1>1. /\ clock \in Nat /\ t \in Nat /\ t <= clock /\ clock - t <= MaxLag
      /\ RateWindow \in Nat /\ MaxLag \in Nat
  BY GuardLimits DEF WindowInd, LagInv, GuardTypes, Ticks
<1>2. admitted \in Seq(Nat)
  BY GuardLimits DEF WindowInd, GuardTypes, Ticks
<1>3. ASSUME NEW i \in DOMAIN admitted, admitted[i] - MaxLag > clock - RateWindow
      PROVE  \E m \in Kept(t): m.member = i /\ m.score >= admitted[i] - MaxLag
  <2>1. PICK m \in scores: m.member = i /\ m.score >= admitted[i] - MaxLag
    BY <1>3 DEF WindowInd, RemainsInv
  <2> DEFINE a == admitted[i]
             b == m.score
  <2>2. a \in Nat /\ b \in Nat /\ b >= a - MaxLag /\ a - MaxLag > clock - RateWindow
    BY <1>2, <1>3, <2>1, GuardLimits DEF WindowInd, GuardTypes, Ticks
  <2> HIDE DEF a, b
  <2>3. b > t - RateWindow
    BY <2>2, <1>1
  <2> QED BY <2>1, <2>3 DEF Kept, b
<1>4. ASSUME scores' = Kept(t), admitted' = admitted, clock' = clock
      PROVE  RemainsInv'
  BY <1>3, <1>4 DEF WindowInd, RemainsInv
<1>5. ASSUME scores' = Kept(t) \union {[member |-> Len(admitted) + 1, score |-> t]},
             admitted' = Append(admitted, clock), clock' = clock
      PROVE  RemainsInv'
  <2> DEFINE m == [member |-> Len(admitted) + 1, score |-> t]
  <2>1. /\ DOMAIN admitted' = DOMAIN admitted \union {Len(admitted) + 1}
        /\ admitted'[Len(admitted) + 1] = clock
        /\ \A i \in DOMAIN admitted: admitted'[i] = admitted[i]
    BY <1>1, <1>2, <1>5
  <2>2. m \in scores' /\ m.member = Len(admitted) + 1 /\ m.score = t
    BY <1>5
  <2>3. t >= clock - MaxLag /\ clock <= clock
    BY <1>1
  <2> HIDE DEF m
  <2>4. \A i \in DOMAIN admitted: admitted'[i] <= clock' /\ (admitted'[i] - MaxLag > clock' - RateWindow =>
                        \E x \in scores': x.member = i /\ x.score >= admitted'[i] - MaxLag)
    BY <2>1, <1>3, <1>5 DEF WindowInd, RemainsInv
  <2> QED BY <2>1, <2>2, <2>3, <2>4, <1>5 DEF RemainsInv
<1> QED BY <1>4, <1>5

LEMMA StepScript ==
    ASSUME WindowInd, NEW p \in GuardedRequest, RunScript(p)
    PROVE  WindowInd'
<1> DEFINE t == guarded[p].time
           new == [member |-> Len(admitted) + 1, score |-> t]
<1>1. /\ GuardTypes /\ GuardAt(p, "script") /\ t \in Ticks
      /\ UNCHANGED <<recorded, clock, executed, lapsed>> /\ admitted \in Seq(Ticks)
      /\ IsFiniteSet(scores) /\ Kept(t) \subseteq scores /\ clock \in Ticks
  BY GuardPosition DEF RunScript, WindowInd, GuardTypes, LagInv, Kept
<1>2. IsFiniteSet(Kept(t)) /\ Cardinality(Kept(t)) \in Nat /\ IsFiniteSet(Kept(t) \union {new})
  BY <1>1, FS_Subset, FS_CardinalityType, FS_AddElement
<1>3. CASE Cardinality(Kept(t)) >= RateLimit
  <2>1. scores' = Kept(t) /\ GuardEnds(p) /\ admitted' = admitted
    BY <1>3 DEF RunScript
  <2>2. /\ guarded' \in [GuardedRequest -> Position] /\ guarded'[p] = Outside
        /\ \A q \in GuardedRequest \ {p}: guarded'[q] = guarded[q]
    BY <1>1, <2>1, GuardStepGoes
  <2>3. GuardTypes'
    BY <1>1, <2>1, <2>2 DEF GuardTypes, Position
  <2>4. LagInv'
    BY <1>1, <1>2, <2>1, <2>2 DEF WindowInd, LagInv, GuardAt, Outside
  <2>5. RemainsInv'
    BY <1>1, <2>1, ScriptKeepsSet
  <2>6. WindowHolds'
    BY <2>1 DEF WindowInd, WindowHolds
  <2> QED BY <2>3, <2>4, <2>5, <2>6 DEF WindowInd
<1>4. CASE ~(Cardinality(Kept(t)) >= RateLimit)
  <2>1. /\ scores' = Kept(t) \union {new} /\ admitted' = Append(admitted, clock)
        /\ GuardGoes(p, "handle")
    BY <1>4 DEF RunScript
  <2>2. /\ guarded' \in [GuardedRequest -> Position] /\ guarded'[p].pc = "handle"
        /\ \A q \in GuardedRequest \ {p}: guarded'[q] = guarded[q]
    BY <1>1, <2>1, GuardStepGoes
  <2>3. /\ DOMAIN admitted' = DOMAIN admitted \union {Len(admitted) + 1}
        /\ admitted' \in Seq(Ticks)
    BY <1>1, <2>1
  <2>4. scores' \subseteq [member: DOMAIN admitted', score: Ticks]
    BY <1>1, <2>1, <2>3 DEF GuardTypes
  <2>5. GuardTypes'
    BY <1>1, <2>2, <2>3, <2>4 DEF GuardTypes, Position
  <2>6. LagInv'
    BY <1>1, <1>2, <2>1, <2>2 DEF WindowInd, LagInv, GuardAt
  <2>7. RemainsInv'
    BY <1>1, <2>1, ScriptKeepsSet
  <2>8. Cardinality(Kept(t)) < RateLimit
    BY <1>2, <1>4, GuardLimits
  <2>9. WindowHolds'
    BY <1>1, <2>1, <2>8, ScriptKeepsWindow
  <2> QED BY <2>5, <2>6, <2>7, <2>9 DEF WindowInd
<1> QED BY <1>3, <1>4

LEMMA StepGuardTick == ASSUME WindowInd, GuardTick PROVE WindowInd'
<1> DEFINE gone == \A i \in DOMAIN admitted: admitted[i] <= clock + 1 - RateWindow
<1>1. /\ clock \in Nat /\ clock < MaxTicks /\ clock' = clock + 1
      /\ scores' = IF gone THEN {} ELSE scores
      /\ UNCHANGED <<recorded, admitted, guarded, executed, lapsed>>
  BY GuardLimits DEF GuardTick, WindowInd, GuardTypes, Ticks
<1>2. /\ RateWindow \in Nat /\ MaxLag \in Nat /\ MaxTicks \in Nat
      /\ \A i \in DOMAIN admitted: admitted[i] \in Nat
      /\ \A p \in GuardedRequest: guarded[p].time \in Nat
  BY GuardLimits, GuardPosition DEF WindowInd, GuardTypes, Ticks
<1>3. scores' \subseteq scores /\ IsFiniteSet(scores')
  BY <1>1, FS_EmptySet DEF WindowInd, LagInv
<1>4. clock' \in Ticks
  BY <1>1, <1>2 DEF Ticks
<1>5. GuardTypes'
  BY <1>1, <1>3, <1>4 DEF WindowInd, GuardTypes
<1>6. LagInv'
  <2> SUFFICES ASSUME NEW p \in GuardedRequest, GuardAt(p, "script")'
               PROVE  guarded'[p].time <= clock' /\ clock' - guarded'[p].time <= MaxLag
    BY <1>3 DEF LagInv
  <2>1. guarded' = guarded /\ GuardAt(p, "script")
    BY <1>1 DEF GuardAt
  <2>2. guarded[p].time <= clock /\ clock - guarded[p].time < MaxLag
    BY <2>1 DEF WindowInd, LagInv, GuardTick
  <2> QED BY <2>1, <2>2, <1>1, <1>2
<1>7. RemainsInv'
  <2> SUFFICES ASSUME NEW i \in DOMAIN admitted'
               PROVE  /\ admitted'[i] <= clock'
                      /\ admitted'[i] - MaxLag > clock' - RateWindow =>
                           \E m \in scores': m.member = i /\ m.score >= admitted'[i] - MaxLag
    BY DEF RemainsInv
  <2>a. admitted' = admitted /\ clock' = clock + 1 /\ i \in DOMAIN admitted
    BY <1>1
  <2>1. admitted'[i] <= clock'
    BY <1>1, <1>2, <2>a DEF WindowInd, RemainsInv
  <2>2. ASSUME admitted'[i] - MaxLag > clock' - RateWindow
        PROVE  \E m \in scores': m.member = i /\ m.score >= admitted'[i] - MaxLag
    <3> DEFINE a == admitted[i]
    <3>0. /\ admitted'[i] = a /\ clock' = clock + 1 /\ a \in Nat /\ admitted'[i] \in Nat
          /\ clock' \in Nat /\ clock \in Nat /\ RateWindow \in Nat /\ MaxLag \in Nat
      BY <1>1, <1>2, <2>a
    <3>1. a \in Nat /\ a - MaxLag > clock + 1 - RateWindow
      <4> HIDE DEF a, gone
      <4> QED BY <2>2, <3>0
    <3> HIDE DEF a
    <3>2. ~(a <= clock + 1 - RateWindow) /\ a - MaxLag > clock - RateWindow
      BY <1>1, <1>2, <3>1
    <3>3. scores' = scores
      BY <1>1, <3>2 DEF a
    <3>4. admitted[i] - MaxLag > clock - RateWindow
      BY <3>2 DEF a
    <3> QED BY <2>a, <3>3, <3>4 DEF WindowInd, RemainsInv
  <2> QED BY <2>1, <2>2
<1>8. WindowHolds'
  BY <1>1 DEF WindowInd, WindowHolds
<1> QED BY <1>5, <1>6, <1>7, <1>8 DEF WindowInd

(* A request that looks a key up or records one has it.                    *)
KeyedInd == GuardTypes /\ \A p \in GuardedRequest: guarded[p].pc \in {"lookup", "record"} =>
                                                     guarded[p].key \in IdemKey

LEMMA InitKeyed == ASSUME GuardInit PROVE KeyedInd
BY InitWindow DEF WindowInd, KeyedInd, GuardInit, Outside

LEMMA KeyedGoes ==
    ASSUME KeyedInd, NEW p \in GuardedRequest, NEW r \in Position,
           guarded' = [guarded EXCEPT ![p] = r],
           r.pc \in {"lookup", "record"} => r.key \in IdemKey,
           recorded' \subseteq IdemKey, lapsed' \subseteq IdemKey, executed' \in [IdemKey -> Nat],
           \/ UNCHANGED <<scores, admitted, clock>>
           \/ /\ clock' = clock /\ admitted' \in Seq(Ticks)
              /\ scores' \subseteq [member: DOMAIN admitted', score: Ticks]
    PROVE  KeyedInd'
<1>1. /\ guarded' \in [GuardedRequest -> Position] /\ guarded'[p] = r
      /\ \A q \in GuardedRequest \ {p}: guarded'[q] = guarded[q]
  BY GuardGoesTo DEF KeyedInd
<1>2. GuardTypes'
  BY <1>1 DEF KeyedInd, GuardTypes, Position
<1> QED BY <1>1, <1>2 DEF KeyedInd

LEMMA StepKeyed ==
    ASSUME KeyedInd, [GuardNext]_guardVars
    PROVE  KeyedInd'
<1>1. /\ GuardTypes /\ recorded \subseteq IdemKey /\ lapsed \subseteq IdemKey
      /\ executed \in [IdemKey -> Nat] /\ clock \in Ticks /\ admitted \in Seq(Ticks)
      /\ scores \subseteq [member: DOMAIN admitted, score: Ticks]
      /\ guarded \in [GuardedRequest -> Position]
  BY DEF KeyedInd, GuardTypes, Position
<1>2. 0 \in Ticks
  BY GuardLimits DEF Ticks
<1>3. ASSUME NEW k \in IdemKey, RecordExpires(k) PROVE KeyedInd'
  BY <1>3 DEF RecordExpires, KeyedInd, GuardTypes
<1>4. CASE GuardTick
  <2>1. clock' \in Ticks /\ scores' \subseteq scores
        /\ UNCHANGED <<recorded, admitted, guarded, executed, lapsed>>
    BY <1>1, <1>4, GuardLimits DEF GuardTick, Ticks
  <2> QED BY <2>1 DEF KeyedInd, GuardTypes
<1>5. ASSUME NEW p \in GuardedRequest,
             \/ Arrive(p) \/ LookUpKey(p) \/ LookUpFails(p)
             \/ TakeTime(p) \/ RunScript(p) \/ ScriptFails(p)
             \/ HandlerSucceeds(p) \/ HandlerRefuses(p) \/ RecordResponse(p) \/ RecordFails(p)
      PROVE  KeyedInd'
  <2> DEFINE at(pc) == [guarded[p] EXCEPT !.pc = pc]
  <2>1. /\ guarded[p] \in Position /\ guarded[p].key \in IdemKey \union {NoKey}
        /\ Outside \in Position /\ Outside.pc = "idle"
    BY <1>1, <1>2, GuardPosition DEF Outside, Position
  <2>2. \A pc \in {"limit", "handle", "record"}:
          at(pc) \in Position /\ at(pc).pc = pc /\ at(pc).key = guarded[p].key
          /\ (GuardGoes(p, pc) => guarded' = [guarded EXCEPT ![p] = at(pc)])
    BY <2>1 DEF Position, GuardGoes
  <2>3. GuardEnds(p) => guarded' = [guarded EXCEPT ![p] = Outside]
    BY DEF GuardEnds
  <2>4. CASE Arrive(p)
    <3>1. PICK k \in IdemKey \union {NoKey}:
            guarded' = [guarded EXCEPT ![p] = [pc |-> IF k = NoKey THEN "limit" ELSE "lookup",
                                               key |-> k, time |-> 0]]
      BY <2>4 DEF Arrive
    <3>2. CASE k = NoKey
      BY <1>1, <1>2, <2>4, <3>1, <3>2, KeyedGoes DEF Arrive, Position
    <3>3. CASE k # NoKey
      BY <1>1, <1>2, <2>4, <3>1, <3>3, KeyedGoes DEF Arrive, Position
    <3> QED BY <3>2, <3>3
  <2>5. CASE LookUpKey(p)
    <3>1. GuardEnds(p) \/ GuardGoes(p, "limit")
      BY <2>5 DEF LookUpKey
    <3> HIDE DEF at
    <3> QED BY <1>1, <2>1, <2>2, <2>3, <2>5, <3>1, KeyedGoes DEF LookUpKey
  <2>6. CASE LookUpFails(p)
    <3> DEFINE r == [guarded[p] EXCEPT !.pc = "limit", !.key = NoKey]
    <3>1. r \in Position /\ r.pc = "limit" /\ guarded' = [guarded EXCEPT ![p] = r]
      BY <2>1, <2>6, <1>1 DEF LookUpFails, Position
    <3> HIDE DEF r
    <3>2. recorded' \subseteq IdemKey /\ executed' \in [IdemKey -> Nat]
          /\ UNCHANGED <<scores, admitted, clock>>
      BY <1>1, <2>6 DEF LookUpFails
    <3>3. lapsed' \subseteq IdemKey
      BY <1>1, <2>1, <2>6 DEF LookUpFails, Lapse
    <3> QED BY <3>1, <3>2, <3>3, KeyedGoes
  <2>7. CASE TakeTime(p)
    <3> DEFINE r == [guarded[p] EXCEPT !.pc = "script", !.time = clock]
    <3>1. r \in Position /\ r.pc = "script" /\ guarded' = [guarded EXCEPT ![p] = r]
      BY <2>1, <2>7, <1>1 DEF TakeTime, Position
    <3> HIDE DEF r
    <3> QED BY <1>1, <2>7, <3>1, KeyedGoes DEF TakeTime
  <2>8. CASE RunScript(p)
    <3>1. /\ GuardEnds(p) \/ GuardGoes(p, "handle")
          /\ UNCHANGED <<recorded, clock, executed, lapsed>>
      BY <2>8 DEF RunScript
    <3>2. /\ admitted' \in Seq(Ticks) /\ DOMAIN admitted \subseteq DOMAIN admitted'
          /\ scores' \subseteq [member: DOMAIN admitted', score: Ticks]
      <4> DEFINE t == guarded[p].time
                 new == [member |-> Len(admitted) + 1, score |-> t]
      <4>1. Kept(t) \subseteq [member: DOMAIN admitted, score: Ticks] /\ t \in Ticks
        BY <1>1, GuardPosition DEF Kept
      <4>2. CASE scores' = Kept(t) /\ admitted' = admitted
        BY <1>1, <4>1, <4>2
      <4>3. CASE scores' = Kept(t) \union {new} /\ admitted' = Append(admitted, clock)
        <5>1. /\ DOMAIN admitted' = DOMAIN admitted \union {Len(admitted) + 1}
              /\ admitted' \in Seq(Ticks)
          BY <1>1, <4>3
        <5> QED BY <4>1, <4>3, <5>1
      <4> QED BY <2>8, <4>2, <4>3 DEF RunScript
    <3> HIDE DEF at
    <3> QED BY <1>1, <2>1, <2>2, <2>3, <3>1, <3>2, KeyedGoes
  <2>9. CASE ScriptFails(p)
    <3> HIDE DEF at
    <3> QED BY <1>1, <2>2, <2>9, KeyedGoes DEF ScriptFails
  <2>10. CASE HandlerSucceeds(p)
    <3>1. executed' \in [IdemKey -> Nat]
      BY <1>1, <2>10 DEF HandlerSucceeds
    <3>2. GuardEnds(p) \/ (GuardGoes(p, "record") /\ guarded[p].key \in IdemKey)
      BY <2>1, <2>10 DEF HandlerSucceeds
    <3> HIDE DEF at
    <3> QED BY <1>1, <2>1, <2>2, <2>3, <2>10, <3>1, <3>2, KeyedGoes DEF HandlerSucceeds
  <2>11. CASE HandlerRefuses(p)
    <3> HIDE DEF at
    <3> QED BY <1>1, <2>1, <2>3, <2>11, KeyedGoes DEF HandlerRefuses
  <2>12. CASE RecordResponse(p)
    <3>1. guarded[p].key \in IdemKey
      BY <2>12 DEF RecordResponse, GuardAt, KeyedInd
    <3> HIDE DEF at
    <3> QED BY <1>1, <2>1, <2>3, <2>12, <3>1, KeyedGoes DEF RecordResponse
  <2>13. CASE RecordFails(p)
    <3> HIDE DEF at
    <3> QED BY <1>1, <2>1, <2>3, <2>13, KeyedGoes DEF RecordFails, Lapse
  <2> QED BY <1>5, <2>4, <2>5, <2>6, <2>7, <2>8, <2>9, <2>10, <2>11, <2>12, <2>13
<1>6. CASE UNCHANGED guardVars
  BY <1>6 DEF guardVars, KeyedInd, GuardTypes
<1> QED BY <1>3, <1>4, <1>5, <1>6 DEF GuardNext

LEMMA StepWindow ==
    ASSUME WindowInd, KeyedInd, [GuardNext]_guardVars
    PROVE  WindowInd'
<1>1. GuardTypes /\ GuardTypes'
  BY StepKeyed DEF KeyedInd
<1>2. ASSUME NEW k \in IdemKey, RecordExpires(k) PROVE WindowInd'
  BY <1>1, <1>2, WindowUntouched DEF RecordExpires, GuardAt
<1>3. ASSUME NEW p \in GuardedRequest, NEW r \in Position, r.pc = "script" => r.time = clock,
             guarded' = [guarded EXCEPT ![p] = r], UNCHANGED <<scores, admitted, clock>>
      PROVE  WindowInd'
  <2>1. /\ guarded'[p] = r
        /\ \A q \in GuardedRequest \ {p}: guarded'[q] = guarded[q]
    BY <1>1, <1>3, GuardGoesTo
  <2> QED BY <1>1, <1>3, <2>1, WindowUntouched DEF GuardAt
<1>4. ASSUME NEW p \in GuardedRequest,
             \/ Arrive(p) \/ LookUpKey(p) \/ LookUpFails(p)
             \/ TakeTime(p) \/ ScriptFails(p)
             \/ HandlerSucceeds(p) \/ HandlerRefuses(p) \/ RecordResponse(p) \/ RecordFails(p)
      PROVE  /\ UNCHANGED <<scores, admitted, clock>>
             /\ \E r \in Position: (r.pc = "script" => r.time = clock)
                                  /\ guarded' = [guarded EXCEPT ![p] = r]
  <2>1. UNCHANGED <<scores, admitted, clock>>
    BY <1>4 DEF Arrive, LookUpKey, LookUpFails, TakeTime, ScriptFails, HandlerSucceeds,
       HandlerRefuses, RecordResponse, RecordFails
  <2>2. 0 \in Ticks /\ clock \in Ticks /\ Outside \in Position /\ guarded[p] \in Position
    BY <1>1, GuardPosition, GuardLimits DEF Outside, Position, Ticks, GuardTypes
  <2>3. CASE Arrive(p)
    <3>1. PICK k \in IdemKey \union {NoKey}:
            guarded' = [guarded EXCEPT ![p] = [pc |-> IF k = NoKey THEN "limit" ELSE "lookup",
                                               key |-> k, time |-> 0]]
      BY <2>3 DEF Arrive
    <3> DEFINE r == [pc |-> IF k = NoKey THEN "limit" ELSE "lookup", key |-> k, time |-> 0]
    <3>2. r \in Position /\ r.pc # "script"
      BY <2>2 DEF Position
    <3> QED BY <2>1, <3>1, <3>2
  <2>4. CASE LookUpFails(p)
    <3> DEFINE r == [guarded[p] EXCEPT !.pc = "limit", !.key = NoKey]
    <3>1. r \in Position /\ r.pc = "limit" /\ guarded' = [guarded EXCEPT ![p] = r]
      BY <1>1, <2>2, <2>4, GuardPosition DEF LookUpFails, Position
    <3> HIDE DEF r
    <3> QED BY <2>1, <3>1
  <2>5. CASE TakeTime(p)
    <3> DEFINE r == [guarded[p] EXCEPT !.pc = "script", !.time = clock]
    <3>1. r \in Position /\ r.time = clock /\ guarded' = [guarded EXCEPT ![p] = r]
      BY <1>1, <2>2, <2>5, GuardPosition DEF TakeTime, Position
    <3> HIDE DEF r
    <3> QED BY <2>1, <3>1
  <2>6. CASE GuardEnds(p)
    BY <2>1, <2>2, <2>6 DEF GuardEnds, Outside
  <2>7. ASSUME NEW pc \in {"limit", "handle", "record"}, GuardGoes(p, pc)
        PROVE  \E r \in Position: (r.pc = "script" => r.time = clock)
                                  /\ guarded' = [guarded EXCEPT ![p] = r]
    <3> DEFINE r == [guarded[p] EXCEPT !.pc = pc]
    <3>1. r \in Position /\ r.pc = pc /\ guarded' = [guarded EXCEPT ![p] = r]
      BY <1>1, <2>2, <2>7, GuardPosition DEF GuardGoes, Position
    <3> HIDE DEF r
    <3> QED BY <3>1
  <2>8. CASE LookUpKey(p) \/ ScriptFails(p) \/ HandlerSucceeds(p) \/ HandlerRefuses(p)
             \/ RecordResponse(p) \/ RecordFails(p)
    <3>1. GuardEnds(p) \/ \E pc \in {"limit", "handle", "record"}: GuardGoes(p, pc)
      BY <2>8 DEF LookUpKey, ScriptFails, HandlerSucceeds, HandlerRefuses, RecordResponse, RecordFails
    <3> QED BY <2>1, <2>6, <2>7, <3>1
  <2> QED BY <1>4, <2>3, <2>4, <2>5, <2>8
<1>5. ASSUME NEW p \in GuardedRequest, RunScript(p) PROVE WindowInd'
  BY <1>5, StepScript
<1>6. CASE UNCHANGED guardVars
  BY <1>1, <1>6, WindowUntouched DEF guardVars, GuardAt
<1> QED BY <1>2, <1>3, <1>4, <1>5, <1>6, StepGuardTick DEF GuardNext

(* The rate limiter lets through at most its limit in any stretch of time  *)
(* shorter than the window by the lag, whatever the limit, the window, the *)
(* lag and the number of requests.                                         *)
THEOREM WindowKept == GuardSpec => []WindowHolds
<1>1. GuardSpec => []KeyedInd
  BY InitKeyed, StepKeyed, PTL DEF GuardSpec
<1>2. GuardSpec => []WindowInd
  BY <1>1, InitWindow, StepWindow, PTL DEF GuardSpec
<1> QED BY <1>2, PTL DEF WindowInd

(* Every key that is looked up or recorded is one a client sent.           *)
THEOREM GuardTypeCorrect == GuardSpec => []GuardTypes
<1>1. GuardSpec => []KeyedInd
  BY InitKeyed, StepKeyed, PTL DEF GuardSpec
<1> QED BY <1>1, PTL DEF KeyedInd

(***************************************************************************)
(* The guards of a request: the keys.                                      *)
(***************************************************************************)
Before(k) == {p \in GuardedRequest: guarded[p].key = k
                                    /\ guarded[p].pc \in {"limit", "script", "handle"}}
After(k) == {p \in GuardedRequest: guarded[p].key = k /\ guarded[p].pc = "record"}

(* Until its response is in Redis, every success of a key stands before    *)
(* the recording: the look-up lets in no more than the requests there are. *)
KeyInv ==
    \A k \in IdemKey \ lapsed:
      /\ executed[k] + Cardinality(Before(k)) <= Cardinality(GuardedRequest)
      /\ k \notin recorded => executed[k] <= Cardinality(After(k))

LEMMA KeySets ==
    /\ Cardinality(GuardedRequest) \in Nat
    /\ \A k: IsFiniteSet(Before(k)) /\ Cardinality(Before(k)) \in Nat
    /\ \A k: IsFiniteSet(After(k)) /\ Cardinality(After(k)) \in Nat
    /\ \A k: (IsFiniteSet(Before(k)) /\ Cardinality(Before(k)) \in Nat)'
    /\ \A k: (IsFiniteSet(After(k)) /\ Cardinality(After(k)) \in Nat)'
<1>1. ASSUME NEW S \in SUBSET GuardedRequest
      PROVE  IsFiniteSet(S) /\ Cardinality(S) \in Nat
  BY GuardLimits, FS_Subset, FS_CardinalityType
<1>2. /\ \A k: Before(k) \in SUBSET GuardedRequest /\ After(k) \in SUBSET GuardedRequest
      /\ \A k: (Before(k) \in SUBSET GuardedRequest /\ After(k) \in SUBSET GuardedRequest)'
  BY DEF Before, After
<1> HIDE DEF Before, After
<1>3. Cardinality(GuardedRequest) \in Nat
  BY GuardLimits, FS_CardinalityType
<1> QED BY <1>1, <1>2, <1>3

(* Nothing succeeds, nobody comes before the handler, and nobody leaves    *)
(* the recording of a key that is not recorded.                            *)
LEMMA KeyQuiet ==
    ASSUME KeyInv, KeyedInd, NEW k \in IdemKey \ lapsed, executed'[k] = executed[k],
           Before(k)' \subseteq Before(k),
           k \in recorded => k \in recorded', k \notin recorded' => After(k) \subseteq After(k)'
    PROVE  /\ executed'[k] + Cardinality(Before(k)') <= Cardinality(GuardedRequest)
           /\ k \notin recorded' => executed'[k] <= Cardinality(After(k)')
<1>1. Cardinality(Before(k)') <= Cardinality(Before(k))
  BY KeySets, FS_Subset
<1>2. k \notin recorded' => Cardinality(After(k)) <= Cardinality(After(k)')
  BY KeySets, FS_Subset
<1>3. executed[k] \in Nat
  BY DEF KeyedInd, GuardTypes
<1>4. /\ executed[k] + Cardinality(Before(k)) <= Cardinality(GuardedRequest)
      /\ k \notin recorded => executed[k] <= Cardinality(After(k))
  BY DEF KeyInv
<1> QED BY <1>1, <1>2, <1>3, <1>4, KeySets

(* A request found no record: it and those before and after its handler    *)
(* are different requests.                                                 *)
LEMMA KeyEnters ==
    ASSUME KeyInv, KeyedInd, NEW k \in IdemKey \ lapsed, executed'[k] = executed[k],
           k \notin recorded, After(k)' = After(k)
    PROVE  /\ executed'[k] + Cardinality(Before(k)') <= Cardinality(GuardedRequest)
           /\ executed'[k] <= Cardinality(After(k)')
<1>1. Before(k)' \cap After(k)' = {} /\ Before(k)' \union After(k)' \subseteq GuardedRequest
  BY DEF Before, After
<1>2. Cardinality(Before(k)' \union After(k)') = Cardinality(Before(k)') + Cardinality(After(k)')
  BY <1>1, KeySets, FS_Union, FS_EmptySet
<1>3. Cardinality(Before(k)' \union After(k)') <= Cardinality(GuardedRequest)
  BY <1>1, GuardLimits, FS_Subset
<1>4. executed[k] \in Nat /\ executed[k] <= Cardinality(After(k))
  BY DEF KeyedInd, GuardTypes, KeyInv
<1> QED BY <1>2, <1>3, <1>4, KeySets

(* A handler succeeds: its request goes from before it to after it.        *)
LEMMA KeySucceeds ==
    ASSUME KeyInv, KeyedInd, NEW k \in IdemKey \ lapsed, executed'[k] = executed[k] + 1,
           NEW p \in Before(k), p \notin After(k),
           Before(k)' = Before(k) \ {p}, After(k)' = After(k) \union {p}, recorded' = recorded
    PROVE  /\ executed'[k] + Cardinality(Before(k)') <= Cardinality(GuardedRequest)
           /\ k \notin recorded' => executed'[k] <= Cardinality(After(k)')
<1>1. Cardinality(Before(k)') = Cardinality(Before(k)) - 1
  BY KeySets, FS_RemoveElement
<1>2. Cardinality(After(k)') = Cardinality(After(k)) + 1
  BY KeySets, FS_AddElement
<1>3. executed[k] \in Nat
  BY DEF KeyedInd, GuardTypes
<1>4. /\ executed[k] + Cardinality(Before(k)) <= Cardinality(GuardedRequest)
      /\ k \notin recorded => executed[k] <= Cardinality(After(k))
  BY DEF KeyInv
<1> QED BY <1>1, <1>2, <1>3, <1>4, KeySets

(* Where one request moves, only its own key's sets change.                *)
LEMMA KeyMoves ==
    ASSUME KeyedInd, NEW p \in GuardedRequest, NEW k,
           \A q \in GuardedRequest \ {p}: guarded'[q] = guarded[q]
    PROVE  /\ Before(k)' \ {p} = Before(k) \ {p} /\ After(k)' \ {p} = After(k) \ {p}
           /\ guarded[p].key # k /\ guarded'[p].key # k =>
                Before(k)' = Before(k) /\ After(k)' = After(k)
           /\ guarded'[p].pc \notin {"limit", "script", "handle"} => Before(k)' \subseteq Before(k)
           /\ guarded[p].pc # "record" => After(k) \subseteq After(k)'
BY DEF Before, After

LEMMA InitKeys == ASSUME GuardInit PROVE KeyInv
<1> SUFFICES ASSUME NEW k \in IdemKey
             PROVE  /\ executed[k] + Cardinality(Before(k)) <= Cardinality(GuardedRequest)
                    /\ executed[k] <= Cardinality(After(k))
  BY DEF KeyInv
<1>1. Before(k) = {} /\ After(k) = {} /\ executed[k] = 0
  BY DEF GuardInit, Outside, Before, After
<1> QED BY <1>1, KeySets, FS_EmptySet

LEMMA StepKeys ==
    ASSUME KeyInv, KeyedInd, [GuardNext]_guardVars
    PROVE  KeyInv'
<1>1. GuardTypes
  BY DEF KeyedInd
<1> SUFFICES ASSUME NEW k \in IdemKey \ lapsed'
             PROVE  /\ executed'[k] + Cardinality(Before(k)') <= Cardinality(GuardedRequest)
                    /\ k \notin recorded' => executed'[k] <= Cardinality(After(k)')
  BY DEF KeyInv
<1>2. ASSUME NEW j \in IdemKey, RecordExpires(j)
      PROVE  /\ executed'[k] + Cardinality(Before(k)') <= Cardinality(GuardedRequest)
             /\ k \notin recorded' => executed'[k] <= Cardinality(After(k)')
  <2>1. k \in IdemKey \ lapsed /\ k # j /\ executed' = executed
        /\ Before(k)' = Before(k) /\ After(k)' = After(k) /\ (k \in recorded => k \in recorded')
    BY <1>2 DEF RecordExpires, Before, After
  <2> QED BY <2>1, KeyQuiet
<1>3. ASSUME GuardTick \/ UNCHANGED guardVars
      PROVE  /\ executed'[k] + Cardinality(Before(k)') <= Cardinality(GuardedRequest)
             /\ k \notin recorded' => executed'[k] <= Cardinality(After(k)')
  <2>1. k \in IdemKey \ lapsed /\ executed' = executed /\ recorded' = recorded
        /\ Before(k)' = Before(k) /\ After(k)' = After(k)
    BY <1>3 DEF GuardTick, guardVars, Before, After
  <2> QED BY <2>1, KeyQuiet
<1>4. ASSUME NEW p \in GuardedRequest,
             \/ Arrive(p) \/ LookUpKey(p) \/ LookUpFails(p)
             \/ TakeTime(p) \/ RunScript(p) \/ ScriptFails(p)
             \/ HandlerSucceeds(p) \/ HandlerRefuses(p) \/ RecordResponse(p) \/ RecordFails(p)
      PROVE  /\ executed'[k] + Cardinality(Before(k)') <= Cardinality(GuardedRequest)
             /\ k \notin recorded' => executed'[k] <= Cardinality(After(k)')
  <2>1. guarded \in [GuardedRequest -> Position] /\ guarded[p] \in Position
    BY <1>1, GuardPosition
  <2>2. lapsed \subseteq lapsed' /\ k \in IdemKey \ lapsed /\ k # NoKey
    BY <1>4, GuardLimits DEF Arrive, LookUpKey, LookUpFails, TakeTime, RunScript, ScriptFails,
       HandlerSucceeds, HandlerRefuses, RecordResponse, RecordFails, Lapse
  <2>3. \A pc \in {"idle", "lookup", "limit", "script", "handle", "record"}:
          GuardGoes(p, pc) => guarded'[p].pc = pc /\ guarded'[p].key = guarded[p].key
                              /\ \A q \in GuardedRequest \ {p}: guarded'[q] = guarded[q]
    BY <1>1, GuardStepGoes
  <2>4. GuardEnds(p) => guarded'[p] = Outside /\ \A q \in GuardedRequest \ {p}: guarded'[q] = guarded[q]
    BY <1>1, GuardStepGoes
  <2>5. Outside.pc = "idle" /\ Outside.key = NoKey
    BY DEF Outside
  <2>6. ASSUME executed' = executed, recorded' = recorded, guarded[p].pc # "record",
               \A q \in GuardedRequest \ {p}: guarded'[q] = guarded[q],
               \/ guarded'[p].pc \notin {"limit", "script", "handle"}
               \/ guarded'[p].key # k
               \/ p \in Before(k)
        PROVE  /\ executed'[k] + Cardinality(Before(k)') <= Cardinality(GuardedRequest)
               /\ k \notin recorded' => executed'[k] <= Cardinality(After(k)')
    <3>1. Before(k)' \subseteq Before(k) /\ After(k) \subseteq After(k)'
      BY <2>6 DEF Before, After
    <3> QED BY <2>2, <2>6, <3>1, KeyQuiet
  <2>7. CASE Arrive(p)
    <3>1. PICK j \in IdemKey \union {NoKey}:
            guarded' = [guarded EXCEPT ![p] = [pc |-> IF j = NoKey THEN "limit" ELSE "lookup",
                                               key |-> j, time |-> 0]]
      BY <2>7 DEF Arrive
    <3>2. /\ guarded'[p].pc = "lookup" \/ guarded'[p].key = NoKey
          /\ \A q \in GuardedRequest \ {p}: guarded'[q] = guarded[q]
      BY <2>1, <3>1
    <3> QED BY <2>2, <2>6, <2>7, <3>2 DEF Arrive, GuardAt
  <2>8. CASE LookUpKey(p)
    <3>1. CASE GuardEnds(p)
      BY <2>4, <2>5, <2>6, <2>8, <3>1 DEF LookUpKey, GuardAt
    <3>2. CASE GuardGoes(p, "limit") /\ guarded[p].key # k
      BY <2>3, <2>6, <2>8, <3>2 DEF LookUpKey, GuardAt
    <3>3. CASE ~GuardEnds(p) /\ guarded[p].key = k
      <4>1. k \notin recorded /\ GuardGoes(p, "limit") /\ guarded[p].pc = "lookup"
            /\ executed' = executed
        BY <2>8, <3>3 DEF LookUpKey, GuardAt
      <4>2. After(k)' = After(k)
        BY <2>3, <4>1 DEF After
      <4> QED BY <2>2, <4>1, <4>2, KeyEnters
    <3> QED BY <2>8, <3>1, <3>2, <3>3 DEF LookUpKey
  <2>9. CASE LookUpFails(p)
    <3>1. /\ guarded'[p].key = NoKey
          /\ \A q \in GuardedRequest \ {p}: guarded'[q] = guarded[q]
      BY <2>1, <2>9 DEF LookUpFails, Position
    <3> QED BY <2>2, <2>6, <2>9, <3>1 DEF LookUpFails, GuardAt
  <2>10. CASE TakeTime(p)
    <3>1. /\ guarded'[p].key = guarded[p].key
          /\ \A q \in GuardedRequest \ {p}: guarded'[q] = guarded[q]
      BY <2>1, <2>10 DEF TakeTime, Position
    <3> QED BY <2>6, <2>10, <3>1 DEF TakeTime, GuardAt, Before
  <2>11. CASE RunScript(p)
    <3>1. /\ GuardEnds(p) \/ GuardGoes(p, "handle")
          /\ executed' = executed /\ recorded' = recorded /\ guarded[p].pc = "script"
      BY <2>11 DEF RunScript, GuardAt
    <3> QED BY <2>3, <2>4, <2>5, <2>6, <3>1 DEF Before
  <2>12. CASE ScriptFails(p)
    BY <2>3, <2>6, <2>12 DEF ScriptFails, GuardAt, Before
  <2>13. CASE HandlerSucceeds(p)
    <3>1. CASE guarded[p].key = k
      <4>1. /\ GuardGoes(p, "record") /\ executed'[k] = executed[k] + 1
            /\ recorded' = recorded /\ guarded[p].pc = "handle"
        BY <1>1, <2>2, <2>13, <3>1 DEF HandlerSucceeds, GuardAt, GuardTypes
      <4>2. /\ p \in Before(k) /\ p \notin After(k)
            /\ Before(k)' = Before(k) \ {p} /\ After(k)' = After(k) \union {p}
        BY <2>3, <3>1, <4>1 DEF Before, After
      <4> QED BY <2>2, <4>1, <4>2, KeySucceeds
    <3>2. CASE guarded[p].key # k
      <4>1. executed'[k] = executed[k] /\ recorded' = recorded
        BY <1>1, <2>13, <3>2 DEF HandlerSucceeds, GuardTypes
      <4>2. Before(k)' \subseteq Before(k) /\ After(k) \subseteq After(k)'
        <5>1. GuardEnds(p) \/ GuardGoes(p, "record")
          BY <2>13 DEF HandlerSucceeds
        <5> QED BY <2>2, <2>3, <2>4, <2>5, <3>2, <5>1 DEF Before, After
      <4> QED BY <2>2, <4>1, <4>2, KeyQuiet
    <3> QED BY <3>1, <3>2
  <2>14. CASE HandlerRefuses(p)
    BY <2>4, <2>5, <2>6, <2>14 DEF HandlerRefuses, GuardAt
  <2>15. CASE RecordResponse(p) \/ RecordFails(p)
    <3>1. /\ GuardEnds(p) /\ executed' = executed /\ recorded \subseteq recorded'
          /\ guarded[p].key = k => k \in recorded'
      BY <2>2, <2>15 DEF RecordResponse, RecordFails, Lapse
    <3>2. /\ Before(k)' \subseteq Before(k)
          /\ k \notin recorded' => After(k) \subseteq After(k)'
      BY <2>4, <2>5, <3>1 DEF Before, After
    <3> QED BY <2>2, <3>1, <3>2, KeyQuiet
  <2> QED BY <1>4, <2>7, <2>8, <2>9, <2>10, <2>11, <2>12, <2>13, <2>14, <2>15
<1> QED BY <1>2, <1>3, <1>4 DEF GuardNext

(* A keyed request succeeds at most as often as requests with its key      *)
(* overlap, for every number of requests and of keys.                      *)
THEOREM ExecutedHolds == GuardSpec => []ExecutedOnce
<1>1. GuardSpec => []KeyedInd
  BY InitKeyed, StepKeyed, PTL DEF GuardSpec
<1>2. GuardSpec => []KeyInv
  BY <1>1, InitKeys, StepKeys, PTL DEF GuardSpec
<1>3. KeyInv => ExecutedOnce
  BY DEF KeyInv, ExecutedOnce, Before
<1> QED BY <1>2, <1>3, PTL

(***************************************************************************)
(* Notifications.                                                          *)
(***************************************************************************)
Send == [event: SUBSET Notice, todo: Seq(Socket), dead: SUBSET Socket]

(* What a send carries and to whom: one event, a dispatcher its own, and   *)
(* only sockets that are dead are taken out of the rooms at its end.       *)
FanoutInv ==
    /\ IsFiniteSet(rooms) /\ channel \in Seq(Notice)
    /\ fanout \in [Sender -> Send]
    /\ \A s \in Sender: \A m, n \in fanout[s].event: m = n
    /\ \A n \in Notice: fanout[n].event \subseteq {n}
    /\ \A s \in Sender: \A w \in fanout[s].dead: sockets[w] = "dead"
    /\ \A w \in rooms: sockets[w] # "off"
    /\ \A s \in Sender: \A w \in ToSet(fanout[s].todo): w \in Socket /\ sockets[w] # "off"
    /\ \A n \in Notice: notice[n] = "new" => stored[n] = 0
    /\ \A n \in Notice: \A w \in owed[n]: sockets[w] = "open"

RealInd == RealTypes /\ FanoutInv /\ OwedIsOnItsWay

LEMMA OrderOfAll ==
    ASSUME NEW S \in SUBSET Socket, IsFiniteSet(S), NEW order \in SetToSeqs(S)
    PROVE  order \in Seq(Socket) /\ ToSet(order) = S
<1> DEFINE D == 1..Cardinality(S)
<1>1. Cardinality(S) \in Nat
  BY FS_CardinalityType
<1>2. order \in [D -> S] /\ \A i, j \in D: i # j => order[i] # order[j]
  BY DEF SetToSeqs
<1>3. order \in Injection(D, S)
  BY <1>2 DEF Injection, IsInjective
<1>4. IsFiniteSet(D) /\ Cardinality(D) = Cardinality(S)
  BY <1>1, FS_Interval
<1>5. order \in Surjection(D, S)
  BY <1>3, <1>4, FS_Injection
<1>6. \A w \in S: \E i \in D: order[i] = w
  BY <1>5 DEF Surjection
<1>7. order \in Seq(Socket)
  BY <1>1, <1>2
<1> QED BY <1>2, <1>6, <1>7 DEF ToSet

LEMMA HeadAndRest ==
    ASSUME NEW T, NEW q \in Seq(T), q # <<>>
    PROVE  /\ Head(q) \in T /\ Tail(q) \in Seq(T)
           /\ ToSet(q) = {Head(q)} \union ToSet(Tail(q))
<1>1. Len(q) \in Nat /\ Len(q) > 0
  OBVIOUS
<1>2. Len(Tail(q)) = Len(q) - 1 /\ \A i \in 1..(Len(q) - 1): Tail(q)[i] = q[i + 1]
  OBVIOUS
<1>3. \A i \in 1..Len(q): i = 1 \/ (i - 1 \in 1..(Len(q) - 1) /\ q[i] = Tail(q)[i - 1])
  BY <1>1, <1>2
<1>4. \A i \in 1..(Len(q) - 1): i + 1 \in 1..Len(q)
  BY <1>1
<1>5. /\ DOMAIN q = 1..Len(q) /\ DOMAIN Tail(q) = 1..(Len(q) - 1)
      /\ Head(q) = q[1] /\ 1 \in 1..Len(q)
  BY <1>1
<1>6. Head(q) \in T /\ Tail(q) \in Seq(T)
  OBVIOUS
<1>7. ToSet(q) = {q[i]: i \in 1..Len(q)} /\ ToSet(Tail(q)) = {Tail(q)[i]: i \in 1..(Len(q) - 1)}
  BY <1>5 DEF ToSet
<1>8. {q[i]: i \in 1..Len(q)} = {q[1]} \union {Tail(q)[i]: i \in 1..(Len(q) - 1)}
  <2>1. ASSUME NEW i \in 1..Len(q)
        PROVE  q[i] \in {q[1]} \union {Tail(q)[j]: j \in 1..(Len(q) - 1)}
    BY <1>3
  <2>2. ASSUME NEW j \in 1..(Len(q) - 1)
        PROVE  Tail(q)[j] \in {q[i]: i \in 1..Len(q)}
    BY <1>2, <1>4
  <2> QED BY <1>5, <2>1, <2>2
<1> QED BY <1>5, <1>6, <1>7, <1>8

LEMMA InitReal == ASSUME RealInit PROVE RealInd
<1> USE DEF RealInit
<1>1. RealTypes
  BY DEF RealTypes, ToSet
<1>2. FanoutInv
  BY FS_EmptySet DEF FanoutInv, Send, Sender, Quiet, ToSet
<1>3. OwedIsOnItsWay
  BY DEF OwedIsOnItsWay
<1> QED BY <1>1, <1>2, <1>3 DEF RealInd

(* Steps that leave the sends alone.                                       *)
LEMMA RealSends ==
    ASSUME RealInd, RealTypes', UNCHANGED <<channel, fanout, got, owed>>,
           IsFiniteSet(rooms'), \A w \in rooms': sockets'[w] # "off",
           \A w \in Socket: sockets[w] \in {"open", "dead"} => sockets'[w] = sockets[w],
           \A n \in Notice: notice'[n] = "new" => notice[n] = "new" /\ stored'[n] = stored[n]
    PROVE  RealInd'
<1>1. /\ owed \in [Notice -> SUBSET Socket] /\ fanout \in [Sender -> Send]
      /\ sockets \in [Socket -> {"off", "open", "dead"}]
  BY DEF RealInd, RealTypes, FanoutInv
<1>2. \A s \in Sender: \A w \in fanout[s].dead: w \in Socket /\ sockets'[w] = "dead"
  BY <1>1 DEF RealInd, FanoutInv, Send
<1>3. \A n \in Notice: \A w \in owed[n]: w \in Socket /\ sockets'[w] = "open"
  BY <1>1 DEF RealInd, FanoutInv
<1>4. \A n \in Notice: notice'[n] = "new" => stored'[n] = 0
  BY DEF RealInd, FanoutInv
<1>5. \A s \in Sender: \A w \in ToSet(fanout[s].todo): w \in Socket /\ sockets'[w] # "off"
  BY <1>1 DEF RealInd, FanoutInv
<1>7. FanoutInv'
  BY <1>2, <1>3, <1>4, <1>5 DEF RealInd, FanoutInv
<1>6. OwedIsOnItsWay'
  BY DEF RealInd, OwedIsOnItsWay
<1> QED BY <1>6, <1>7 DEF RealInd

(* A snapshot of the rooms holds every socket that is open.                *)
LEMMA SnapshotSends ==
    ASSUME RealInd, NEW e \in Notice, NEW s \in Sender, Snapshot(e, s), UNCHANGED <<sockets, rooms>>
    PROVE  \E r \in Send: /\ fanout' = [fanout EXCEPT ![s] = r]
                          /\ r.event \subseteq {e} /\ r.dead = {} /\ ToSet(r.todo) \subseteq rooms
                          /\ \A w \in Socket: sockets[w] = "open" =>
                               e \in r.event /\ w \in ToSet(r.todo)
<1>1. PICK order \in SetToSeqs(rooms):
        fanout' = [fanout EXCEPT ![s] = IF rooms = {} THEN Quiet
                                        ELSE [event |-> {e}, todo |-> order, dead |-> {}]]
  BY DEF Snapshot
<1>2. order \in Seq(Socket) /\ ToSet(order) = rooms
  BY OrderOfAll DEF RealInd, RealTypes, FanoutInv
<1>3. \A w \in Socket: sockets[w] = "open" => w \in rooms
  BY DEF RealInd, RealTypes
<1>4. CASE rooms = {}
  <2>1. fanout' = [fanout EXCEPT ![s] = Quiet] /\ Quiet \in Send
        /\ Quiet.event \subseteq {e} /\ Quiet.dead = {} /\ ToSet(Quiet.todo) = {}
    BY <1>1, <1>4 DEF Quiet, Send, ToSet
  <2> QED BY <2>1, <1>3, <1>4
<1>5. CASE rooms # {}
  <2> DEFINE r == [event |-> {e}, todo |-> order, dead |-> {}]
  <2>1. fanout' = [fanout EXCEPT ![s] = r]
    BY <1>1, <1>5
  <2>2. r \in Send /\ r.event = {e} /\ r.dead = {} /\ r.todo = order
    BY <1>2 DEF Send
  <2> HIDE DEF r
  <2> QED BY <1>2, <1>3, <2>1, <2>2
<1> QED BY <1>4, <1>5

(* The invariant after one send has changed.                               *)
LEMMA FanoutChanges ==
    ASSUME RealInd, NEW s \in Sender, NEW r \in Send, fanout' = [fanout EXCEPT ![s] = r],
           \A m, n \in r.event: m = n, s \in Notice => r.event \subseteq {s},
           \A w \in r.dead: sockets[w] = "dead",
           \A w \in ToSet(r.todo): w \in Socket /\ sockets[w] # "off",
           channel' \in Seq(Notice), IsFiniteSet(rooms'), rooms' \subseteq rooms, UNCHANGED <<sockets, stored>>,
           \A n \in Notice: notice'[n] = "new" => notice[n] = "new",
           \A n \in Notice: \A w \in owed'[n]: sockets[w] = "open"
    PROVE  FanoutInv' /\ fanout'[s] = r /\ \A q \in Sender \ {s}: fanout'[q] = fanout[q]
<1>1. fanout \in [Sender -> Send]
  BY DEF RealInd, FanoutInv
<1>2. /\ fanout' \in [Sender -> Send] /\ fanout'[s] = r
      /\ \A q \in Sender \ {s}: fanout'[q] = fanout[q]
  BY <1>1
<1>3. \A q \in Sender: \A m, n \in fanout'[q].event: m = n
  BY <1>2 DEF RealInd, FanoutInv
<1>4. \A n \in Notice: fanout'[n].event \subseteq {n}
  BY <1>2 DEF RealInd, FanoutInv, Sender
<1>5. \A q \in Sender: \A w \in fanout'[q].dead: sockets'[w] = "dead"
  BY <1>2 DEF RealInd, FanoutInv
<1>6. \A n \in Notice: notice'[n] = "new" => stored'[n] = 0
  BY DEF RealInd, FanoutInv
<1>7. \A q \in Sender: \A w \in ToSet(fanout'[q].todo): w \in Socket /\ sockets'[w] # "off"
  BY <1>2 DEF RealInd, FanoutInv
<1>8. \A w \in rooms': sockets'[w] # "off"
  BY DEF RealInd, FanoutInv
<1> QED BY <1>2, <1>3, <1>4, <1>5, <1>6, <1>7, <1>8 DEF FanoutInv

LEMMA RealParts ==
    ASSUME RealInd
    PROVE  /\ sockets \in [Socket -> {"off", "open", "dead"}] /\ rooms \subseteq Socket
           /\ IsFiniteSet(rooms) /\ bridge \in {"up", "down"}
           /\ channel \in Seq(Notice) /\ ToSet(channel) \subseteq Notice
           /\ notice \in [Notice -> {"new", "publish", "emit", "sent", "raised"}]
           /\ stored \in [Notice -> 0..2] /\ got \in [Notice -> SUBSET Socket]
           /\ owed \in [Notice -> SUBSET Socket] /\ fanout \in [Sender -> Send]
           /\ \A w \in Socket: sockets[w] = "open" => w \in rooms
           /\ \A w \in rooms: sockets[w] # "off"
           /\ \A n \in Notice: \A w \in owed[n]: sockets[w] = "open"
BY DEF RealInd, RealTypes, FanoutInv

LEMMA StepSocket ==
    ASSUME RealInd, NEW s \in Socket, ConnectSocket(s) \/ SocketDies(s) \/ DisconnectSocket(s)
    PROVE  RealInd'
<1>1. CASE ConnectSocket(s)
  <2>1. IsFiniteSet(rooms')
    BY <1>1, RealParts, FS_AddElement DEF ConnectSocket
  <2>2. RealTypes'
    BY <1>1 DEF RealInd, RealTypes, ConnectSocket
  <2>3. /\ \A w \in Socket: sockets'[w] = IF w = s THEN "open" ELSE sockets[w]
        /\ sockets[s] = "off" /\ rooms' = rooms \union {s}
        /\ UNCHANGED <<bridge, channel, fanout, notice, stored, got, owed>>
    BY <1>1, RealParts DEF ConnectSocket
  <2> QED BY <2>1, <2>2, <2>3, RealParts, RealSends
<1>2. CASE DisconnectSocket(s)
  <2>1. IsFiniteSet(rooms')
    BY <1>2, RealParts, FS_RemoveElement DEF DisconnectSocket
  <2>2. RealTypes'
    BY <1>2 DEF RealInd, RealTypes, DisconnectSocket
  <2> QED BY <1>2, <2>1, <2>2, RealParts, RealSends DEF DisconnectSocket
<1>3. CASE SocketDies(s)
  <2>1. /\ sockets' = [sockets EXCEPT ![s] = "dead"] /\ sockets[s] = "open"
        /\ owed' = [n \in Notice |-> owed[n] \ {s}]
        /\ UNCHANGED <<rooms, bridge, channel, fanout, notice, stored, got>>
    BY <1>3 DEF SocketDies
  <2>2. \A w \in Socket: sockets'[w] = IF w = s THEN "dead" ELSE sockets[w]
    BY <2>1, RealParts
  <2>3. \A n \in Notice: owed'[n] = owed[n] \ {s} /\ owed'[n] \subseteq Socket
    BY <2>1, RealParts
  <2>4. RealTypes'
    BY <2>1, <2>2, <2>3, RealParts DEF RealTypes
  <2>5. FanoutInv'
    <3>1. \A q \in Sender: \A w \in fanout[q].dead: w \in Socket /\ sockets'[w] = "dead"
      BY <2>2, RealParts DEF RealInd, FanoutInv, Send
    <3>2. \A n \in Notice: \A w \in owed'[n]: sockets'[w] = "open"
      BY <2>2, <2>3, RealParts
    <3>3. \A w \in rooms: sockets'[w] # "off"
      BY <2>2, RealParts
    <3>4. \A q \in Sender: \A w \in ToSet(fanout[q].todo): w \in Socket /\ sockets'[w] # "off"
      BY <2>2 DEF RealInd, FanoutInv
    <3> QED BY <2>1, <3>1, <3>2, <3>3, <3>4 DEF RealInd, FanoutInv
  <2>6. OwedIsOnItsWay'
    BY <2>1, <2>3 DEF RealInd, OwedIsOnItsWay
  <2> QED BY <2>4, <2>5, <2>6 DEF RealInd
<1> QED BY <1>1, <1>2, <1>3

LEMMA StepSendOne ==
    ASSUME RealInd, NEW s \in Sender, SendOne(s)
    PROVE  RealInd'
<1> DEFINE w == Head(fanout[s].todo)
           e == CHOOSE n \in fanout[s].event: TRUE
           rest == [fanout[s] EXCEPT !.todo = Tail(@)]
           fail == [rest EXCEPT !.dead = @ \union {w}]
<1>1. /\ fanout[s].event # {} /\ fanout[s].todo # <<>> /\ fanout[s] \in Send
      /\ fanout[s].todo \in Seq(Socket)
      /\ UNCHANGED <<sockets, rooms, bridge, channel, notice, stored, owed>>
  BY RealParts DEF SendOne, Sending, Listeners, Send
<1>2. /\ w \in Socket /\ ToSet(fanout[s].todo) = {w} \union ToSet(Tail(fanout[s].todo))
      /\ Tail(fanout[s].todo) \in Seq(Socket)
  BY <1>1, HeadAndRest
<1>3. e \in Notice /\ fanout[s].event = {e}
  BY <1>1 DEF RealInd, FanoutInv, Send
<1>4. /\ rest \in Send /\ rest.event = {e} /\ rest.todo = Tail(fanout[s].todo)
      /\ rest.dead = fanout[s].dead
  BY <1>1, <1>2, <1>3 DEF Send
<1>5. /\ fail \in Send /\ fail.event = {e} /\ fail.todo = Tail(fanout[s].todo)
      /\ fail.dead = fanout[s].dead \union {w}
  BY <1>2, <1>4 DEF Send
<1>6. /\ \A x \in fanout[s].dead: sockets[x] = "dead"
      /\ \A x \in ToSet(fanout[s].todo): x \in Socket /\ sockets[x] # "off"
  BY DEF RealInd, FanoutInv
<1>7. s \in Notice => e = s
  BY <1>3 DEF RealInd, FanoutInv
<1>8. \/ /\ sockets[w] = "open" /\ got' = [got EXCEPT ![e] = @ \union {w}]
         /\ fanout' = [fanout EXCEPT ![s] = rest]
      \/ sockets[w] # "open" /\ got' = got /\ fanout' = [fanout EXCEPT ![s] = fail]
  <2>1. CASE sockets[w] = "open"
    BY <2>1 DEF SendOne
  <2>2. CASE sockets[w] # "open"
    BY <2>2 DEF SendOne
  <2> QED BY <2>1, <2>2
<1>9. ASSUME NEW r \in Send, r.event = {e}, r.todo = Tail(fanout[s].todo),
             fanout' = [fanout EXCEPT ![s] = r], \A x \in r.dead: sockets[x] = "dead",
             got' \in [Notice -> SUBSET Socket],
             \A n \in Notice: got[n] \subseteq got'[n], sockets[w] = "open" => w \in got'[e]
      PROVE  RealInd'
  <2>1. RealTypes'
    BY <1>1, <1>9, RealParts DEF RealTypes
  <2>2. /\ FanoutInv' /\ fanout'[s] = r
        /\ \A q \in Sender \ {s}: fanout'[q] = fanout[q]
    <3>1. /\ \A m, n \in r.event: m = n
          /\ s \in Notice => r.event \subseteq {s}
          /\ \A x \in r.dead: sockets[x] = "dead"
          /\ \A x \in ToSet(r.todo): x \in Socket /\ sockets[x] # "off"
      BY <1>2, <1>6, <1>7, <1>9
    <3>2. /\ channel' \in Seq(Notice) /\ IsFiniteSet(rooms') /\ rooms' \subseteq rooms
          /\ UNCHANGED <<sockets, stored>>
          /\ \A n \in Notice: notice'[n] = "new" => notice[n] = "new"
          /\ \A n \in Notice: \A x \in owed'[n]: sockets[x] = "open"
      BY <1>1, RealParts
    <3>3. r \in Send /\ fanout' = [fanout EXCEPT ![s] = r]
      BY <1>9
    <3> QED BY <3>1, <3>2, <3>3, FanoutChanges
  <2>3. OwedIsOnItsWay'
    <3> SUFFICES ASSUME NEW n \in Notice, NEW x \in owed[n],
                        x \notin got'[n], n \notin ToSet(channel)
                 PROVE  \E q \in Sender: n \in fanout'[q].event /\ x \in ToSet(fanout'[q].todo)
      BY <1>1 DEF OwedIsOnItsWay
    <3>1. PICK q \in Sender: n \in fanout[q].event /\ x \in ToSet(fanout[q].todo)
      BY <1>9 DEF RealInd, OwedIsOnItsWay
    <3>2. CASE q # s
      BY <2>2, <3>1, <3>2
    <3>3. CASE q = s
      <4>1. n = e /\ sockets[x] = "open"
        BY <1>3, <3>1, <3>3, RealParts
      <4>2. x # w
        BY <1>9, <4>1
      <4> QED BY <1>2, <1>9, <2>2, <3>1, <3>3, <4>1, <4>2
    <3> QED BY <3>2, <3>3
  <2> QED BY <2>1, <2>2, <2>3 DEF RealInd
<1> HIDE DEF w, e, rest, fail
<1>10. CASE sockets[w] = "open"
  <2>1. got' = [got EXCEPT ![e] = @ \union {w}] /\ fanout' = [fanout EXCEPT ![s] = rest]
    BY <1>8, <1>10
  <2>2. /\ got' \in [Notice -> SUBSET Socket] /\ w \in got'[e]
        /\ \A n \in Notice: got[n] \subseteq got'[n]
    BY <1>2, <1>3, <2>1, RealParts
  <2> QED BY <1>4, <1>6, <1>9, <2>1, <2>2
<1>11. CASE sockets[w] # "open"
  <2>1. got' = got /\ fanout' = [fanout EXCEPT ![s] = fail]
    BY <1>8, <1>11
  <2>2. sockets[w] = "dead"
    BY <1>2, <1>6, <1>11, RealParts
  <2> QED BY <1>5, <1>6, <1>9, <1>11, <2>1, <2>2, RealParts
<1> QED BY <1>10, <1>11

LEMMA StepEndSend ==
    ASSUME RealInd, NEW s \in Sender, EndSend(s)
    PROVE  RealInd'
<1>1. /\ fanout[s].todo = <<>> /\ rooms' = rooms \ fanout[s].dead
      /\ fanout' = [fanout EXCEPT ![s] = Quiet]
      /\ UNCHANGED <<sockets, bridge, channel, notice, stored, got, owed>>
  BY DEF EndSend
<1>2. /\ Quiet \in Send /\ Quiet.event = {} /\ Quiet.dead = {} /\ ToSet(Quiet.todo) = {}
  BY DEF Quiet, Send, ToSet
<1>3. IsFiniteSet(rooms') /\ rooms' \subseteq rooms
  BY <1>1, RealParts, FS_Subset
<1>4. \A w \in Socket: sockets[w] = "open" => w \in rooms'
  BY <1>1, RealParts DEF RealInd, FanoutInv
<1>5. RealTypes'
  BY <1>1, <1>3, <1>4, RealParts DEF RealTypes
<1>6. /\ FanoutInv' /\ fanout'[s] = Quiet
      /\ \A q \in Sender \ {s}: fanout'[q] = fanout[q]
  BY <1>1, <1>2, <1>3, RealParts, FanoutChanges
<1>7. ToSet(fanout[s].todo) = {}
  BY <1>1 DEF ToSet
<1>8. OwedIsOnItsWay'
  BY <1>1, <1>6, <1>7 DEF RealInd, OwedIsOnItsWay
<1> QED BY <1>5, <1>6, <1>8 DEF RealInd

LEMMA StepDispatch ==
    ASSUME RealInd, NEW n \in Notice,
           StoreNotice(n) \/ PublishNotice(n) \/ PublishNoticeFails(n) \/ WorkerStores(n)
    PROVE  RealInd'
<1>1. /\ UNCHANGED <<sockets, rooms, bridge, channel, fanout, got, owed>>
      /\ notice' \in [Notice -> {"new", "publish", "emit", "sent", "raised"}]
      /\ stored' \in [Notice -> 0..2]
      /\ \A m \in Notice: notice'[m] = "new" => notice[m] = "new" /\ stored'[m] = stored[m]
  <2>1. CASE StoreNotice(n)
    <3>1. stored[n] = 0
      BY <2>1 DEF StoreNotice, RealInd, FanoutInv
    <3> QED BY <2>1, <3>1, RealParts DEF StoreNotice, Listeners, NoticeGoes
  <2>2. CASE PublishNotice(n) \/ PublishNoticeFails(n)
    BY <2>2, RealParts DEF PublishNotice, PublishNoticeFails, Listeners, NoticeGoes
  <2>3. CASE WorkerStores(n)
    BY <2>3, RealParts DEF WorkerStores, Listeners
  <2> QED BY <2>1, <2>2, <2>3
<1>2. RealTypes'
  BY <1>1, RealParts DEF RealTypes
<1> QED BY <1>1, <1>2, RealParts, RealSends

LEMMA StepEmit ==
    ASSUME RealInd, NEW n \in Notice, EmitNotice(n)
    PROVE  RealInd'
<1>1. /\ UNCHANGED <<sockets, rooms, bridge, fanout, stored, got>>
      /\ notice' = [notice EXCEPT ![n] = "sent"]
      /\ channel' = IF bridge = "up" THEN Append(channel, n) ELSE channel
      /\ owed' = [owed EXCEPT ![n] = IF bridge = "up" THEN Open ELSE {}]
  BY DEF EmitNotice, Listeners, NoticeGoes
<1>2. /\ channel' \in Seq(Notice) /\ ToSet(channel) \subseteq ToSet(channel')
      /\ ToSet(channel') \subseteq Notice /\ (bridge = "up" => n \in ToSet(channel'))
  <2>1. CASE bridge = "up"
    <3>1. channel' = Append(channel, n)
      BY <1>1, <2>1
    <3>2. /\ channel' \in Seq(Notice) /\ channel'[Len(channel) + 1] = n
          /\ \A i \in DOMAIN channel: i \in DOMAIN channel' /\ channel'[i] = channel[i]
          /\ Len(channel) + 1 \in DOMAIN channel'
      BY <3>1, RealParts
    <3> QED BY <3>2 DEF ToSet
  <2>2. CASE bridge # "up"
    BY <1>1, <2>2, RealParts
  <2> QED BY <2>1, <2>2
<1>3. /\ owed' \in [Notice -> SUBSET Socket]
      /\ \A m \in Notice: \A w \in owed'[m]: sockets[w] = "open"
      /\ \A m \in Notice \ {n}: owed'[m] = owed[m]
      /\ bridge # "up" => owed'[n] = {}
  BY <1>1, RealParts DEF Open
<1>4. RealTypes'
  BY <1>1, <1>2, <1>3, RealParts DEF RealTypes
<1>5. FanoutInv'
  BY <1>1, <1>2, <1>3, RealParts DEF RealInd, FanoutInv
<1>6. OwedIsOnItsWay'
  BY <1>1, <1>2, <1>3 DEF RealInd, OwedIsOnItsWay
<1> QED BY <1>4, <1>5, <1>6 DEF RealInd

LEMMA StepEmitLocally ==
    ASSUME RealInd, NEW n \in Notice, EmitLocally(n)
    PROVE  RealInd'
<1>1. /\ UNCHANGED <<sockets, rooms, bridge, channel, stored, got>>
      /\ notice' = [notice EXCEPT ![n] = "sent"]
  BY DEF EmitLocally, Listeners, NoticeGoes
<1>2. CASE Snapshot(n, n) /\ owed' = [owed EXCEPT ![n] = Open]
  <2>1. n \in Sender /\ \A m \in Notice: m \in Sender
    BY DEF Sender
  <2>2. PICK r \in Send: /\ fanout' = [fanout EXCEPT ![n] = r]
                         /\ r.event \subseteq {n} /\ r.dead = {} /\ ToSet(r.todo) \subseteq rooms
                         /\ \A w \in Socket: sockets[w] = "open" =>
                              n \in r.event /\ w \in ToSet(r.todo)
    BY <1>1, <1>2, <2>1, SnapshotSends
  <2>3. /\ owed' \in [Notice -> SUBSET Socket]
        /\ \A m \in Notice: \A w \in owed'[m]: w \in Socket /\ sockets[w] = "open"
        /\ \A m \in Notice \ {n}: owed'[m] = owed[m]
    BY <1>2, RealParts DEF Open
  <2>4. RealTypes'
    BY <1>1, <2>3, RealParts DEF RealTypes
  <2>5. /\ FanoutInv' /\ fanout'[n] = r
        /\ \A q \in Sender \ {n}: fanout'[q] = fanout[q]
    <3>1. /\ \A m \in Notice: notice'[m] = "new" => notice[m] = "new"
          /\ channel' \in Seq(Notice) /\ IsFiniteSet(rooms') /\ rooms' \subseteq rooms
      BY <1>1, RealParts
    <3>2. \A w \in ToSet(r.todo): w \in Socket /\ sockets[w] # "off"
      BY <2>2, RealParts
    <3>3. /\ \A l, m \in r.event: l = m
          /\ n \in Notice => r.event \subseteq {n}
          /\ \A w \in r.dead: sockets[w] = "dead"
      BY <2>2
    <3> QED BY <1>1, <2>1, <2>2, <2>3, <3>1, <3>2, <3>3, FanoutChanges
  <2>6. fanout[n].event \subseteq {n}
    BY DEF RealInd, FanoutInv
  <2>7. \A w \in owed'[n]: n \in fanout'[n].event /\ w \in ToSet(fanout'[n].todo)
    BY <2>2, <2>3, <2>5
  <2>8. OwedIsOnItsWay'
    BY <1>1, <2>1, <2>3, <2>5, <2>6, <2>7 DEF RealInd, OwedIsOnItsWay
  <2> QED BY <2>4, <2>5, <2>8 DEF RealInd
<1>3. CASE UNCHANGED <<fanout, owed>>
  <2>1. RealTypes'
    BY <1>1, <1>3, RealParts DEF RealTypes
  <2>2. \A m \in Notice: notice'[m] = "new" => notice[m] = "new" /\ stored'[m] = stored[m]
    BY <1>1, RealParts
  <2> QED BY <1>1, <1>3, <2>1, <2>2, RealParts, RealSends
<1> QED BY <1>2, <1>3 DEF EmitLocally

LEMMA StepHears ==
    ASSUME RealInd, BridgeHears
    PROVE  RealInd'
<1> DEFINE e == Head(channel)
<1>1. /\ channel # <<>> /\ ~Sending("bridge") /\ Snapshot(e, "bridge") /\ channel' = Tail(channel)
      /\ UNCHANGED <<sockets, rooms, bridge, notice, stored, got, owed>>
  BY DEF BridgeHears, Listeners
<1>2. /\ e \in Notice /\ channel' \in Seq(Notice) /\ ToSet(channel) = {e} \union ToSet(channel')
      /\ "bridge" \in Sender /\ "bridge" \notin Notice /\ fanout["bridge"].event = {}
  BY <1>1, HeadAndRest, RealParts, RealAssumption DEF Sender, Sending
<1> HIDE DEF e
<1>3. PICK r \in Send: /\ fanout' = [fanout EXCEPT !["bridge"] = r]
                       /\ r.event \subseteq {e} /\ r.dead = {} /\ ToSet(r.todo) \subseteq rooms
                       /\ \A w \in Socket: sockets[w] = "open" =>
                            e \in r.event /\ w \in ToSet(r.todo)
  BY <1>1, <1>2, SnapshotSends
<1>4. RealTypes'
  BY <1>1, <1>2, RealParts DEF RealTypes
<1>5. /\ FanoutInv' /\ fanout'["bridge"] = r
      /\ \A q \in Sender \ {"bridge"}: fanout'[q] = fanout[q]
  BY <1>1, <1>2, <1>3, RealParts, FanoutChanges
<1>6. \A w \in owed[e]: e \in fanout'["bridge"].event /\ w \in ToSet(fanout'["bridge"].todo)
  BY <1>2, <1>3, <1>5, RealParts
<1>7. OwedIsOnItsWay'
  BY <1>1, <1>2, <1>5, <1>6 DEF RealInd, OwedIsOnItsWay
<1> QED BY <1>4, <1>5, <1>7 DEF RealInd

LEMMA StepReal ==
    ASSUME RealInd, [RealNext]_realVars
    PROVE  RealInd'
<1>1. CASE BridgeBreaks
  <2>1. /\ bridge' = "down" /\ channel' = <<>>
        /\ owed' = [n \in Notice |-> IF n \in ToSet(channel) THEN {} ELSE owed[n]]
        /\ UNCHANGED <<sockets, rooms, fanout, notice, stored, got>>
    BY <1>1 DEF BridgeBreaks, Listeners
  <2>2. /\ channel' \in Seq(Notice) /\ ToSet(channel') = {}
        /\ owed' \in [Notice -> SUBSET Socket]
        /\ \A n \in Notice: owed'[n] \subseteq owed[n] /\ (n \in ToSet(channel) => owed'[n] = {})
    BY <2>1, RealParts DEF ToSet
  <2>3. RealTypes'
    BY <2>1, <2>2, RealParts DEF RealTypes
  <2>4. FanoutInv'
    BY <2>1, <2>2, RealParts DEF RealInd, FanoutInv
  <2>5. OwedIsOnItsWay'
    BY <2>1, <2>2 DEF RealInd, OwedIsOnItsWay
  <2> QED BY <2>3, <2>4, <2>5 DEF RealInd
<1>2. CASE Subscribe \/ UNCHANGED realVars
  <2>1. UNCHANGED <<sockets, rooms, channel, fanout, notice, stored, got, owed>>
        /\ bridge' \in {"up", "down"}
    BY <1>2, RealParts DEF Subscribe, Listeners, realVars
  <2>2. RealTypes'
    BY <2>1, RealParts DEF RealTypes
  <2> QED BY <2>1, <2>2, RealParts, RealSends
<1> QED BY <1>1, <1>2, StepSocket, StepSendOne, StepEndSend, StepDispatch, StepEmit,
           StepEmitLocally, StepHears DEF RealNext

LEMMA RealSound == RealSpec => []RealInd
BY InitReal, StepReal, PTL DEF RealSpec

(* A socket the hub thinks open is registered, and a notification is        *)
(* stored once by its dispatcher and at most once more by the worker.       *)
THEOREM RealTypeCorrect == RealSpec => []RealTypes
BY RealSound, PTL DEF RealInd

(* What an open socket is owed it gets or is still to be sent, for every   *)
(* number of sockets and notifications.                                    *)
THEOREM OwedHolds == RealSpec => []OwedIsOnItsWay
BY RealSound, PTL DEF RealInd

(***************************************************************************)
(* The seven parts together.                                               *)
(***************************************************************************)
LEMMA ServicesImplement ==
    ServicesSpec => /\ SessionSpec /\ GuardSpec /\ BreakerSpec /\ RealSpec
                    /\ ApplySpec /\ LoginSpec /\ VaultSpec
<1> DEFINE vars == <<sessionVars, guardVars, breakerVars, realVars, applyVars, loginVars, vaultVars, part>>
<1>1. ServicesInit => /\ SessionInit /\ GuardInit /\ BreakerInit /\ RealInit
                      /\ ApplyInit /\ LoginInit /\ VaultInit
  BY DEF ServicesInit
<1>2. [ServicesNext]_vars => /\ [SessionNext]_sessionVars /\ [GuardNext]_guardVars
                             /\ [BreakerNext]_breakerVars /\ [RealNext]_realVars
                             /\ [ApplyNext]_applyVars /\ [LoginNext]_loginVars
                             /\ [VaultNext]_vaultVars
  BY DEF ServicesNext
<1> QED BY <1>1, <1>2, PTL DEF ServicesSpec, SessionSpec, GuardSpec, BreakerSpec, RealSpec,
                               ApplySpec, LoginSpec, VaultSpec

(* Every service keeps its types in the specification the run checks, so   *)
(* what is proved of a service holds in it.                                *)
THEOREM ServicesTyped == ServicesSpec => []ServiceTypes
<1>1. SessionTypes /\ GuardTypes /\ BreakerTypes /\ RealTypes /\ ApplyTypes /\ LoginTypes /\ VaultTypes
        => ServiceTypes
  BY DEF ServiceTypes
<1>2. BreakerSpec => []BreakerTypes
  BY BreakerSound, PTL
<1>3. VaultSpec => []VaultTypes
  BY VaultSound, PTL
<1> QED BY <1>1, <1>2, <1>3, ServicesImplement, SessionTypesHold, GuardTypeCorrect,
           RealTypeCorrect, ApplyTypeCorrect, LoginTypeCorrect, PTL

=============================================================================
