-------------------------- MODULE CookieVaultProofs --------------------------
(* Types of the vault, and that an application keeps what is not its own.   *)
EXTENDS CookieVault, TLAPS

(* the copy of an application that no save has overtaken is the document,   *)
(* apart from the cookies of its career site                                *)
CopyIsDocument ==
    \A r \in Run: run[r].pc # "idle" /\ ~run[r].raced =>
        /\ run[r].login = login
        /\ \A t \in Tenant: run[r].cookies[t] # vault[t] => t = run[r].at
VaultInd == VaultTypes /\ CopyIsDocument

LEMMA StillTypes ==
    /\ Still \in RunRecord /\ Still.pc = "idle"
    /\ Empty \in [Tenant -> 0..MaxAge] /\ NoEdit \in EditRecord
<1>1. (CHOOSE t \in Tenant: TRUE) \in Tenant
  BY VaultAssumption
<1> QED BY <1>1, VaultAssumption DEF Still, Empty, RunRecord, NoEdit, EditRecord

LEMMA StaleTypes ==
    ASSUME VaultTypes
    PROVE  /\ Stale \in [Run -> RunRecord]
           /\ \A r \in Run: /\ Stale[r].pc = run[r].pc
                            /\ Stale[r].raced = (run[r].pc # "idle")
BY DEF VaultTypes, Stale, RunRecord

LEMMA MergeTypes ==
    ASSUME VaultTypes, NEW r \in Run
    PROVE  /\ Merge(r) \in [Tenant -> 0..MaxAge]
           /\ \A t \in Tenant: Merge(r)[t] # run[r].cookies[t] => t = run[r].at
           /\ Persisted(r) \in RunRecord
           /\ Persisted(r).cookies = Merge(r) /\ Persisted(r).login = run[r].login
           /\ Persisted(r).at = run[r].at /\ Persisted(r).raced = run[r].raced
<1>1. run[r] \in RunRecord
  BY DEF VaultTypes
<1>2. /\ Merge(r) \in [Tenant -> 0..MaxAge]
      /\ \A t \in Tenant: Merge(r)[t] # run[r].cookies[t] => t = run[r].at
  BY <1>1 DEF Merge, RunRecord
<1> QED BY <1>1, <1>2 DEF Persisted, RunRecord

(* A save by an application: its next copy has the login that was saved and *)
(* agrees with the document but for its career site; the others are stale.  *)
LEMMA SavesKeep ==
    ASSUME VaultInd, NEW r \in Run, NEW cookies, NEW next,
           Saves(r, cookies, next),
           cookies \in [Tenant -> 0..MaxAge], next \in RunRecord,
           next.pc # "idle" => /\ next.login = run[r].login
                               /\ \A t \in Tenant: next.cookies[t] # cookies[t] => t = next.at
    PROVE  VaultInd'
<1>1. /\ run' = [Stale EXCEPT ![r] = next] /\ vault' = cookies /\ login' = run[r].login
      /\ age' = age /\ edit' = edit
  BY DEF Saves
<1>2. /\ Stale \in [Run -> RunRecord]
      /\ \A q \in Run: Stale[q].pc = run[q].pc /\ Stale[q].raced = (run[q].pc # "idle")
  BY StaleTypes DEF VaultInd
<1>3. run[r].login \in 0..MaxChanges
  BY DEF VaultInd, VaultTypes, RunRecord
<1>4. VaultTypes'
  BY <1>1, <1>2, <1>3 DEF VaultInd, VaultTypes
<1>5. ASSUME NEW q \in Run, run'[q].pc # "idle", ~run'[q].raced
      PROVE  /\ run'[q].login = login'
             /\ \A t \in Tenant: run'[q].cookies[t] # vault'[t] => t = run'[q].at
  <2>1. CASE q = r
    BY <1>1, <1>2, <2>1, <1>5
  <2>2. CASE q # r
    <3>1. run'[q] = Stale[q]
      BY <1>1, <1>2, <2>2
    <3> QED BY <3>1, <1>2, <1>5
  <2> QED BY <2>1, <2>2
<1> QED BY <1>4, <1>5 DEF VaultInd, CopyIsDocument

(* An application goes on without a save: its new copy need only be typed   *)
(* and as close to the document as the invariant says.                      *)
LEMMA MovesKeep ==
    ASSUME VaultInd, NEW r \in Run, NEW next \in RunRecord,
           run' = [run EXCEPT ![r] = next], vault' = vault, login' = login, edit' = edit,
           age' \in 0..MaxAge,
           next.pc # "idle" /\ ~next.raced =>
               /\ next.login = login
               /\ \A t \in Tenant: next.cookies[t] # vault[t] => t = next.at
    PROVE  VaultInd'
<1>1. VaultTypes'
  BY DEF VaultInd, VaultTypes
<1>2. \A q \in Run: run'[q] = IF q = r THEN next ELSE run[q]
  BY DEF VaultInd, VaultTypes
<1> QED BY <1>1, <1>2 DEF VaultInd, CopyIsDocument

(* A save by the user: every copy is stale.                                 *)
LEMMA EditsKeep ==
    ASSUME VaultInd, run' = Stale, VaultTypes'
    PROVE  VaultInd'
<1>1. \A q \in Run: Stale[q].pc = run[q].pc /\ Stale[q].raced = (run[q].pc # "idle")
  BY StaleTypes DEF VaultInd
<1> QED BY <1>1 DEF VaultInd, CopyIsDocument

LEMMA InitVault == ASSUME VaultInit PROVE VaultInd
BY StillTypes, VaultAssumption DEF VaultInit, VaultInd, VaultTypes, CopyIsDocument, EditRecord

LEMMA StepVault ==
    ASSUME VaultInd, [VaultNext]_vaultVars
    PROVE  VaultInd'
<1>0. /\ VaultTypes /\ run \in [Run -> RunRecord] /\ vault \in [Tenant -> 0..MaxAge]
      /\ login \in 0..MaxChanges /\ age \in 0..MaxAge
      /\ edit \in EditRecord
  BY DEF VaultInd, VaultTypes
<1>1. ASSUME NEW r \in Run, Begin(r) PROVE VaultInd'
  <2>1. PICK t \in Tenant:
          \/ run' = [run EXCEPT ![r] = [Still EXCEPT !.pc = "launch", !.at = t,
                                                     !.cookies = vault, !.login = login]]
          \/ run' = [run EXCEPT ![r] = [Still EXCEPT !.pc = "launch", !.at = t, !.own = FALSE,
                                                     !.raced = TRUE]]
    BY <1>1 DEF Begin
  <2> DEFINE held == [Still EXCEPT !.pc = "launch", !.at = t, !.cookies = vault, !.login = login]
             led  == [Still EXCEPT !.pc = "launch", !.at = t, !.own = FALSE, !.raced = TRUE]
  <2>2. /\ held \in RunRecord /\ held.login = login /\ held.cookies = vault
        /\ led \in RunRecord /\ led.raced
    BY <1>0, StillTypes DEF RunRecord
  <2>3. run' = [run EXCEPT ![r] = held] \/ run' = [run EXCEPT ![r] = led]
    BY <2>1
  <2> HIDE DEF held, led
  <2>4. CASE run' = [run EXCEPT ![r] = held]
    BY <1>0, <1>1, <2>2, <2>4, MovesKeep DEF Begin
  <2>5. CASE run' = [run EXCEPT ![r] = led]
    BY <1>0, <1>1, <2>2, <2>5, MovesKeep DEF Begin
  <2> QED BY <2>3, <2>4, <2>5
<1>2. ASSUME NEW r \in Run, Browse(r) PROVE VaultInd'
  <2> DEFINE next == [run[r] EXCEPT !.pc = "browse", !.live = age + 1]
  <2>1. age + 1 \in 0..MaxAge /\ run[r].pc = "launch" /\ run[r] \in RunRecord
    BY <1>0, <1>2, VaultAssumption DEF Browse, RunAt
  <2>2. /\ next \in RunRecord /\ next.raced = run[r].raced /\ next.login = run[r].login
        /\ next.cookies = run[r].cookies /\ next.at = run[r].at
    BY <2>1 DEF RunRecord
  <2>3. /\ run' = [run EXCEPT ![r] = next] /\ age' \in 0..MaxAge
        /\ vault' = vault /\ login' = login /\ edit' = edit
    BY <1>0, <1>2, <2>1 DEF Browse
  <2> HIDE DEF next
  <2>4. ~next.raced =>
          /\ next.login = login
          /\ \A t \in Tenant: next.cookies[t] # vault[t] => t = next.at
    BY <2>1, <2>2 DEF VaultInd, CopyIsDocument
  <2> QED BY <2>2, <2>3, <2>4, MovesKeep
<1>3. ASSUME NEW r \in Run, RunRaises(r) PROVE VaultInd'
  <2>1. PICK exported \in {run[r].live, 0}:
          run' = [run EXCEPT ![r].pc = "launch", ![r].exported = exported, ![r].try = @ + 1]
    BY <1>3 DEF RunRaises
  <2> DEFINE next == [run[r] EXCEPT !.pc = "launch", !.exported = exported, !.try = @ + 1]
  <2>2. /\ next \in RunRecord /\ next.raced = run[r].raced /\ next.login = run[r].login
        /\ next.cookies = run[r].cookies /\ next.at = run[r].at
    BY <1>0, <1>3, VaultAssumption DEF RunRaises, RunRecord
  <2>3. run' = [run EXCEPT ![r] = next] /\ run[r].pc = "browse"
    BY <1>0, <1>3, <2>1 DEF RunRaises, RunAt
  <2> HIDE DEF next
  <2>4. ~next.raced =>
          /\ next.login = login
          /\ \A t \in Tenant: next.cookies[t] # vault[t] => t = next.at
    BY <2>2, <2>3 DEF VaultInd, CopyIsDocument
  <2> QED BY <1>0, <1>3, <2>2, <2>3, <2>4, MovesKeep DEF RunRaises
<1>4. ASSUME NEW r \in Run, RunReturns(r) PROVE VaultInd'
  <2> DEFINE to == IF run[r].own THEN "identity" ELSE "reload"
             next == [run[r] EXCEPT !.pc = to]
  <2>1. /\ next \in RunRecord /\ next.raced = run[r].raced /\ next.login = run[r].login
        /\ next.cookies = run[r].cookies /\ next.at = run[r].at
    BY <1>0 DEF RunRecord
  <2>2. run' = [run EXCEPT ![r] = Still] \/ run' = [run EXCEPT ![r] = next]
    BY <1>0, <1>4 DEF RunReturns
  <2>3. run[r].pc = "browse"
    BY <1>4 DEF RunReturns, RunAt
  <2> HIDE DEF next
  <2>4. ~next.raced =>
          /\ next.login = login
          /\ \A t \in Tenant: next.cookies[t] # vault[t] => t = next.at
    BY <2>1, <2>3 DEF VaultInd, CopyIsDocument
  <2>5. CASE run' = [run EXCEPT ![r] = Still]
    BY <1>0, <1>4, <2>5, StillTypes, MovesKeep DEF RunReturns
  <2>6. CASE run' = [run EXCEPT ![r] = next]
    BY <1>0, <1>4, <2>1, <2>4, <2>6, MovesKeep DEF RunReturns
  <2> QED BY <2>2, <2>5, <2>6
<1>5. ASSUME NEW r \in Run, RunCrashes(r) PROVE VaultInd'
  BY <1>0, <1>5, StillTypes, MovesKeep DEF RunCrashes
<1>6. ASSUME NEW r \in Run, SaveIdentity(r) PROVE VaultInd'
  <2> DEFINE next == [run[r] EXCEPT !.pc = "persist"]
  <2>1. /\ next \in RunRecord /\ next.login = run[r].login /\ next.cookies = run[r].cookies
        /\ run[r].cookies \in [Tenant -> 0..MaxAge]
    BY <1>0 DEF RunRecord
  <2>2. Saves(r, run[r].cookies, next)
    BY <1>6 DEF SaveIdentity
  <2> HIDE DEF next
  <2> QED BY <2>1, <2>2, SavesKeep
<1>7. ASSUME NEW r \in Run, Reload(r) PROVE VaultInd'
  <2> DEFINE next == [run[r] EXCEPT !.pc = "persist", !.cookies = vault, !.login = login,
                                    !.raced = FALSE]
  <2>1. next \in RunRecord /\ next.login = login /\ next.cookies = vault
    BY <1>0 DEF RunRecord
  <2>2. run' = [run EXCEPT ![r] = next]
    BY <1>0, <1>7 DEF Reload
  <2> HIDE DEF next
  <2> QED BY <1>0, <1>7, <2>1, <2>2, MovesKeep DEF Reload
<1>8. ASSUME NEW r \in Run, Persist(r) PROVE VaultInd'
  <2> DEFINE next == IF run[r].own THEN Persisted(r) ELSE Still
  <2>1. /\ next \in RunRecord
        /\ next.pc # "idle" => /\ next.cookies = Merge(r) /\ next.login = run[r].login
                               /\ next.at = run[r].at /\ next.raced = run[r].raced
    BY <1>0, StillTypes, MergeTypes
  <2>2. /\ RunAt(r, "persist")
        /\ \/ Saves(r, Merge(r), next)
           \/ run' = [run EXCEPT ![r] = next] /\ UNCHANGED <<vault, login, age, edit>>
    BY <1>8 DEF Persist
  <2>3. /\ Merge(r) \in [Tenant -> 0..MaxAge]
        /\ \A t \in Tenant: Merge(r)[t] # run[r].cookies[t] => t = run[r].at
    BY <1>0, MergeTypes
  <2> HIDE DEF next
  <2>4. CASE Saves(r, Merge(r), next)
    BY <2>1, <2>3, <2>4, SavesKeep
  <2>5. CASE run' = [run EXCEPT ![r] = next] /\ UNCHANGED <<vault, login, age, edit>>
    <3>1. next.pc # "idle" /\ ~next.raced =>
            /\ next.login = login
            /\ \A t \in Tenant: next.cookies[t] # vault[t] => t = next.at
      BY <2>1, <2>2, <2>3 DEF VaultInd, CopyIsDocument, RunAt
    <3> QED BY <1>0, <2>1, <2>5, <3>1, MovesKeep
  <2> QED BY <2>2, <2>4, <2>5
<1>9. ASSUME NEW r \in Run, PersistFails(r) PROVE VaultInd'
  <2> DEFINE next == IF run[r].own THEN Persisted(r) ELSE Still
  <2>1. /\ next \in RunRecord
        /\ next.pc # "idle" => /\ next.cookies = Merge(r) /\ next.login = run[r].login
                               /\ next.at = run[r].at /\ next.raced = run[r].raced
    BY <1>0, StillTypes, MergeTypes
  <2>2. /\ RunAt(r, "persist") /\ run' = [run EXCEPT ![r] = next]
        /\ UNCHANGED <<vault, login, age, edit>>
    BY <1>9 DEF PersistFails
  <2>3. \A t \in Tenant: Merge(r)[t] # run[r].cookies[t] => t = run[r].at
    BY <1>0, MergeTypes
  <2> HIDE DEF next
  <2>4. next.pc # "idle" /\ ~next.raced =>
          /\ next.login = login
          /\ \A t \in Tenant: next.cookies[t] # vault[t] => t = next.at
    BY <2>1, <2>2, <2>3 DEF VaultInd, CopyIsDocument, RunAt
  <2> QED BY <1>0, <2>1, <2>2, <2>4, MovesKeep
<1>10. ASSUME NEW r \in Run, SaveHealth(r) PROVE VaultInd'
  <2>1. run[r].cookies \in [Tenant -> 0..MaxAge]
    BY <1>0 DEF RunRecord
  <2>2. CASE Saves(r, run[r].cookies, Still)
    BY <2>1, <2>2, StillTypes, SavesKeep
  <2>3. CASE run' = [run EXCEPT ![r] = Still] /\ UNCHANGED <<vault, login, age, edit>>
    BY <1>0, <2>3, StillTypes, MovesKeep
  <2> QED BY <1>10, <2>2, <2>3 DEF SaveHealth
<1>11. CASE OpenEdit
  <2>1. VaultTypes'
    BY <1>0, <1>11 DEF OpenEdit, VaultTypes, EditRecord
  <2> QED BY <1>11, <2>1 DEF OpenEdit, VaultInd, CopyIsDocument
<1>12. CASE SaveAccount
  <2>1. /\ Edited \in 0..MaxChanges /\ edit.cookies \in [Tenant -> 0..MaxAge]
        /\ edit' \in EditRecord
    BY <1>0, <1>12, StillTypes DEF SaveAccount, EditRecord
  <2>2. VaultTypes'
    BY <1>0, <1>12, <2>1, StaleTypes DEF SaveAccount, VaultTypes
  <2> QED BY <1>12, <2>2, EditsKeep DEF SaveAccount
<1>13. ASSUME NEW cookies \in [Tenant -> 0..MaxAge], SaveSession(cookies), age' \in 0..MaxAge
       PROVE  VaultInd'
  <2>1. edit.login \in 0..MaxChanges /\ edit' \in EditRecord
    BY <1>0, <1>13, StillTypes DEF SaveSession, EditRecord
  <2>2. VaultTypes'
    BY <1>0, <1>13, <2>1, StaleTypes DEF SaveSession, VaultTypes
  <2> QED BY <1>13, <2>2, EditsKeep DEF SaveSession
<1>14. ASSUME NEW t \in Tenant, Paste(t) PROVE VaultInd'
  <2>1. age + 1 \in 0..MaxAge /\ age' = age + 1
    BY <1>0, <1>14, VaultAssumption DEF Paste
  <2>2. [Empty EXCEPT ![t] = age + 1] \in [Tenant -> 0..MaxAge]
    BY <2>1, StillTypes
  <2> QED BY <1>13, <1>14, <2>1, <2>2 DEF Paste
<1>15. CASE PasteRefused
  <2>1. VaultTypes'
    BY <1>0, <1>15, StillTypes DEF PasteRefused, VaultTypes
  <2> QED BY <1>15, <2>1 DEF PasteRefused, VaultInd, CopyIsDocument
<1>16. CASE ChangeAccount
  BY <1>0, <1>13, <1>16, StillTypes DEF ChangeAccount
<1>17. CASE UNCHANGED vaultVars
  BY <1>17 DEF vaultVars, VaultInd, VaultTypes, CopyIsDocument
<1> QED BY <1>1, <1>2, <1>3, <1>4, <1>5, <1>6, <1>7, <1>8, <1>9, <1>10, <1>11, <1>12, <1>14, <1>15,
           <1>16, <1>17 DEF VaultNext

(* What a save by an application that nobody overtook changes.              *)
LEMMA SaveChangesOwn ==
    ASSUME VaultInd, NEW r \in Run, ~run[r].raced,
           SaveIdentity(r) \/ Persist(r) \/ SaveHealth(r)
    PROVE  /\ login' = login
           /\ \A t \in Tenant: vault'[t] # vault[t] => t = run[r].at
<1>1. /\ run[r].pc # "idle" => run[r].login = login
      /\ run[r].pc # "idle" => \A t \in Tenant: run[r].cookies[t] # vault[t] => t = run[r].at
      /\ \A t \in Tenant: Merge(r)[t] # run[r].cookies[t] => t = run[r].at
  BY MergeTypes DEF VaultInd, CopyIsDocument
<1>2. CASE SaveIdentity(r)
  BY <1>1, <1>2 DEF SaveIdentity, RunAt, Saves
<1>3. CASE Persist(r)
  BY <1>1, <1>3 DEF Persist, RunAt, Saves
<1>4. CASE SaveHealth(r)
  BY <1>1, <1>4 DEF SaveHealth, RunAt, Saves
<1> QED BY <1>2, <1>3, <1>4

(* The vault keeps its types, and the copy of an application that no save   *)
(* has overtaken is the document apart from its own career site.            *)
THEOREM VaultSound == VaultSpec => [](VaultTypes /\ CopyIsDocument)
<1>1. VaultSpec => []VaultInd
  BY InitVault, StepVault, PTL DEF VaultSpec
<1> QED BY <1>1, PTL DEF VaultInd

(* An application never changes the account or the cookies of another       *)
(* career site unless the document was saved while it held its copy, for    *)
(* every number of sites, applications, attempts and changes.               *)
THEOREM VaultHolds == VaultSpec => OthersKept
<1>1. VaultSpec => []VaultInd
  BY VaultSound, PTL DEF VaultInd
<1>2. VaultInd /\ [VaultNext]_vaultVars =>
        [\A r \in Run: (SaveIdentity(r) \/ Persist(r) \/ SaveHealth(r)) /\ ~run[r].raced =>
            /\ login' = login
            /\ \A t \in Tenant: vault'[t] # vault[t] => t = run[r].at]_vaultVars
  BY SaveChangesOwn
<1> QED BY <1>1, <1>2, PTL DEF VaultSpec, OthersKept
=============================================================================
