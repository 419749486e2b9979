------------------------------ MODULE Sessions ------------------------------
(***************************************************************************)
(* Accounts and their tokens: a login issues a pair of an access and a     *)
(* refresh token, a refresh exchanges the refresh token for another pair,  *)
(* a logout revokes it and blacklists the access token in Redis, and every *)
(* request is checked against the blacklist.  Requests are cut at their    *)
(* awaits, may be killed at any of them, and Redis may be away.            *)
(***************************************************************************)
EXTENDS Integers, Sequences, FiniteSets

CONSTANTS Email, SessionRequest,
          AccessLife, RefreshLife,  \* the lifetimes of the two tokens
          MaxPairs,                 \* bound: pairs issued
          MaxTime                   \* bound: the clock

ASSUME SessionAssumption ==
    /\ {AccessLife, RefreshLife, MaxPairs, MaxTime} \subseteq Nat
    /\ Email # {} /\ IsFiniteSet(SessionRequest)

VARIABLES users,   \* the accounts: "none", "active" or "disabled"
          pairs,   \* the pairs issued, and the refresh token each came from
          now,     \* the clock
          auth     \* the running requests

sessionVars == <<users, pairs, now, auth>>

NoPair == 0
Pair == DOMAIN pairs
AuthPC == {"idle", "insert", "issue", "user", "revoke", "logout", "blacklist", "check"}
AuthRecord == [pc: AuthPC, email: Email, pair: Nat, next: {"answer", "logout"}]
Calm == [pc |-> "idle", email |-> CHOOSE e \in Email: TRUE, pair |-> NoPair, next |-> "answer"]

PairRecord == [email: Email, parent: Nat, revoked: BOOLEAN, accessEnds: Nat, refreshEnds: Nat,
               blackUntil: Nat, out: BOOLEAN]

Children(t) == {c \in Pair: pairs[c].parent = t}
(* mutant: only the time is asked *)
ValidRefreshInTime(t) == now <= pairs[t].refreshEnds

ValidRefresh(t) == ~pairs[t].revoked /\ now <= pairs[t].refreshEnds
AccessLives(t) == now < pairs[t].accessEnds
Blacklisted(t) == now < pairs[t].blackUntil

AuthAt(p, pc) == auth[p].pc = pc
AuthGoes(p, pc) == auth' = [auth EXCEPT ![p].pc = pc]
AuthEnds(p) == auth' = [auth EXCEPT ![p] = Calm]
Holds(p) == auth[p].pair
OfUser(p) == users[pairs[Holds(p)].email]

(***************************************************************************)
(* register                                                                *)
(***************************************************************************)
FindEmail(p) ==
    /\ AuthAt(p, "idle")
    /\ \E e \in Email: users[e] = "none" /\ auth' = [auth EXCEPT ![p].pc = "insert", ![p].email = e]
    /\ UNCHANGED <<users, pairs, now>>

(* the unique index refuses a second account that came in between *)
CreateUser(p) ==
    /\ AuthAt(p, "insert")
    /\ users' = [users EXCEPT ![auth[p].email] = IF @ = "none" THEN "active" ELSE @]
    /\ AuthEnds(p)
    /\ UNCHANGED <<pairs, now>>

(***************************************************************************)
(* login and refresh                                                       *)
(***************************************************************************)
LogIn(p) ==
    /\ AuthAt(p, "idle")
    /\ \E e \in Email: /\ users[e] = "active"
                       /\ auth' = [auth EXCEPT ![p].pc = "issue", ![p].email = e, ![p].pair = NoPair]
    /\ UNCHANGED <<users, pairs, now>>

GetValid(p) ==
    /\ AuthAt(p, "idle")
    /\ \E t \in Pair: /\ ValidRefresh(t)
                      /\ auth' = [auth EXCEPT ![p].pc = "user", ![p].pair = t,
                                              ![p].email = pairs[t].email]
    /\ UNCHANGED <<users, pairs, now>>

UserOfRefresh(p) ==
    /\ AuthAt(p, "user")
    /\ IF OfUser(p) = "active" THEN AuthGoes(p, "revoke") ELSE AuthEnds(p)
    /\ UNCHANGED <<users, pairs, now>>

RevokeOld(p) ==
    /\ AuthAt(p, "revoke")
    /\ pairs' = [pairs EXCEPT ![Holds(p)].revoked = TRUE]
    /\ AuthGoes(p, "issue")
    /\ UNCHANGED <<users, now>>

IssueTokens(p) ==
    /\ AuthAt(p, "issue") /\ Len(pairs) < MaxPairs
    /\ pairs' = Append(pairs, [email |-> auth[p].email, parent |-> Holds(p), revoked |-> FALSE,
                               accessEnds |-> now + AccessLife, refreshEnds |-> now + RefreshLife,
                               blackUntil |-> 0, out |-> FALSE])
    /\ AuthEnds(p)
    /\ UNCHANGED <<users, now>>

(***************************************************************************)
(* get_current_user, and the same questions of the web socket              *)
(***************************************************************************)
DecodeToken(p) ==
    /\ AuthAt(p, "idle")
    /\ \E t \in Pair, next \in {"answer", "logout"}:
         /\ AccessLives(t)
         /\ auth' = [auth EXCEPT ![p] = [pc |-> "check", email |-> pairs[t].email, pair |-> t,
                                         next |-> next]]
    /\ UNCHANGED <<users, pairs, now>>

(* refused, answered as the user, or, for a logout, gone on with *)
AsUser(p) == IF OfUser(p) = "active" /\ auth[p].next = "logout" THEN AuthGoes(p, "logout")
             ELSE AuthEnds(p)

CheckBlacklist(p) ==
    /\ AuthAt(p, "check")
    /\ IF Blacklisted(Holds(p)) THEN AuthEnds(p) ELSE AsUser(p)
    /\ UNCHANGED <<users, pairs, now>>

(* Redis raises: the token passes *)
BlacklistAway(p) ==
    /\ AuthAt(p, "check")
    /\ AsUser(p)
    /\ UNCHANGED <<users, pairs, now>>

(***************************************************************************)
(* logout, by an authenticated request                                     *)
(***************************************************************************)
RevokeAtLogout(p) ==
    /\ AuthAt(p, "logout")
    /\ pairs' = [pairs EXCEPT ![Holds(p)].revoked = TRUE]
    /\ AuthGoes(p, "blacklist")
    /\ UNCHANGED <<users, now>>

(* mutant: the minutes that are left of it, rounded down *)
BlacklistTokenBriefly(p) ==
    /\ AuthAt(p, "blacklist")
    /\ pairs' = [pairs EXCEPT ![Holds(p)].blackUntil = pairs[Holds(p)].accessEnds - 1,
                              ![Holds(p)].out = TRUE]
    /\ AuthEnds(p)
    /\ UNCHANGED <<users, now>>

(* for the whole lifetime of an access token, whatever is left of this one *)
BlacklistToken(p) ==
    /\ AuthAt(p, "blacklist")
    /\ pairs' = [pairs EXCEPT ![Holds(p)].blackUntil = now + AccessLife, ![Holds(p)].out = TRUE]
    /\ AuthEnds(p)
    /\ UNCHANGED <<users, now>>

(* Redis raises, swallowed; or the request is killed where it stands *)
Killed(p) ==
    /\ ~AuthAt(p, "idle")
    /\ AuthEnds(p)
    /\ UNCHANGED <<users, pairs, now>>

Disable(e) ==
    /\ users[e] = "active"
    /\ users' = [users EXCEPT ![e] = "disabled"]
    /\ UNCHANGED <<pairs, now, auth>>

SessionTick == now < MaxTime /\ now' = now + 1 /\ UNCHANGED <<users, pairs, auth>>

SessionInit ==
    /\ users = [e \in Email |-> "none"] /\ pairs = <<>> /\ now = 0
    /\ auth = [p \in SessionRequest |-> Calm]

SessionNext ==
    \/ SessionTick
    \/ \E e \in Email: Disable(e)
    \/ \E p \in SessionRequest:
         \/ FindEmail(p) \/ CreateUser(p) \/ LogIn(p)
         \/ GetValid(p) \/ UserOfRefresh(p) \/ RevokeOld(p) \/ IssueTokens(p)
         \/ DecodeToken(p) \/ CheckBlacklist(p) \/ BlacklistAway(p)
         \/ RevokeAtLogout(p) \/ BlacklistToken(p) \/ Killed(p)

SessionSpec == SessionInit /\ [][SessionNext]_sessionVars

(***************************************************************************)
(* Properties.                                                             *)
(***************************************************************************)
(* Accounts, pairs and requests keep their types; whoever holds a pair holds *)
(* one that was issued before.                                               *)
SessionTypes ==
    /\ users \in [Email -> {"none", "active", "disabled"}] /\ now \in 0..MaxTime
    /\ pairs \in Seq(PairRecord) /\ \A t \in Pair: pairs[t].parent < t
    /\ auth \in [SessionRequest -> AuthRecord]
    /\ \A p \in SessionRequest:
         /\ auth[p].pair \in Pair \union {NoPair}
         /\ auth[p].pc \notin {"idle", "insert", "issue"} => auth[p].pair # NoPair

(* A refresh token is exchanged at most as often as requests overlap: those *)
(* that exchange it had all found it valid before the first revoked it, and *)
(* none finds it valid later.  Requests one after the other exchange it     *)
(* once, and none exchanges it after the logout that revoked it.            *)
Spending(t) == {p \in SessionRequest: /\ auth[p].pair = t
                                      /\ auth[p].pc \in {"user", "revoke", "issue"}}
SpentOnce ==
    \A t \in Pair: Cardinality(Children(t)) + Cardinality(Spending(t)) <= Cardinality(SessionRequest)

(* The blacklist outlives every token that was logged out, wherever in its  *)
(* life the logout came: while Redis answers, a logged out token is never   *)
(* let in again.                                                            *)
LoggedOutStaysOut == \A t \in Pair: pairs[t].out /\ AccessLives(t) => Blacklisted(t)
=============================================================================
