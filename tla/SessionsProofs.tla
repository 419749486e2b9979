--------------------------- MODULE SessionsProofs ---------------------------
(* What tokens rest on, for every number of requests, users and pairs: a    *)
(* logged out access token stays out, and a refresh token is exchanged at   *)
(* most once for every request that runs at the same time.                  *)
EXTENDS Sessions, FiniteSetTheorems, TLAPS

(* A token issued earlier ends earlier, a token not yet revoked was not     *)
(* exchanged, and who issues tokens for another has revoked that one.       *)
TokenInv ==
    /\ \A t \in Pair: /\ pairs[t].accessEnds <= now + AccessLife
                      /\ pairs[t].out => pairs[t].accessEnds <= pairs[t].blackUntil
                      /\ ~pairs[t].revoked => Children(t) = {}
    /\ \A p \in SessionRequest:
         AuthAt(p, "issue") /\ Holds(p) # NoPair => pairs[Holds(p)].revoked

(***************************************************************************)
(* Types.                                                                  *)
(***************************************************************************)
LEMMA CalmType == Calm \in AuthRecord
BY SessionAssumption DEF Calm, AuthRecord, AuthPC, NoPair

LEMMA Lives == AccessLife \in Nat /\ RefreshLife \in Nat /\ MaxTime \in Nat /\ Email # {}
BY SessionAssumption DEF SessionAssumption

LEMMA InitSessionTypes == ASSUME SessionInit PROVE SessionTypes
<1>1. pairs \in Seq(PairRecord) /\ Pair = {}
  BY DEF SessionInit, Pair
<1>2. auth \in [SessionRequest -> AuthRecord]
  BY CalmType DEF SessionInit
<1>3. \A p \in SessionRequest: auth[p].pair = NoPair /\ auth[p].pc = "idle"
  BY DEF SessionInit, Calm
<1>4. users \in [Email -> {"none", "active", "disabled"}] /\ now \in 0..MaxTime
  BY Lives DEF SessionInit
<1> QED BY <1>1, <1>2, <1>3, <1>4 DEF SessionTypes

(* What is known of a request's record, with the pairs of the moment. *)
Sound(r) == /\ r \in AuthRecord /\ r.pair \in Pair \union {NoPair}
            /\ r.pc \notin {"idle", "insert", "issue"} => r.pair # NoPair

LEMMA SoundTypes ==
    SessionTypes <=> /\ users \in [Email -> {"none", "active", "disabled"}] /\ now \in 0..MaxTime
                     /\ pairs \in Seq(PairRecord) /\ \A t \in Pair: pairs[t].parent < t
                     /\ auth \in [SessionRequest -> AuthRecord]
                     /\ \A p \in SessionRequest: Sound(auth[p])
BY DEF SessionTypes, Sound

LEMMA SoundStep ==
    ASSUME SessionTypes, NEW p \in SessionRequest, NEW r, Sound(r), auth' = [auth EXCEPT ![p] = r],
           pairs' = pairs, now' \in 0..MaxTime,
           users' \in [Email -> {"none", "active", "disabled"}]
    PROVE  SessionTypes'
<1>1. auth' \in [SessionRequest -> AuthRecord]
  BY SoundTypes DEF Sound
<1>2. \A q \in SessionRequest: auth'[q] = auth[q] \/ auth'[q] = r
  BY SoundTypes
<1>3. \A q \in SessionRequest: Sound(auth'[q])
  BY <1>2, SoundTypes
<1> QED BY <1>1, <1>3, SoundTypes DEF SessionTypes, Sound, Pair

(* a request that ends holds nothing *)
LEMMA EndSound == Sound(Calm)
BY CalmType DEF Sound, Calm, NoPair

(* a request that goes on holds what it held *)
LEMMA GoSound ==
    ASSUME SessionTypes, NEW p \in SessionRequest, NEW pc \in AuthPC,
           auth[p].pair # NoPair
    PROVE  Sound([auth[p] EXCEPT !.pc = pc])
BY SoundTypes DEF Sound, AuthRecord

LEMMA GoesExcept ==
    ASSUME SessionTypes, NEW p \in SessionRequest, NEW pc, AuthGoes(p, pc)
    PROVE  auth' = [auth EXCEPT ![p] = [auth[p] EXCEPT !.pc = pc]]
BY SoundTypes DEF AuthGoes, AuthRecord

(* Every step that only moves a request, one that ends or goes on.          *)
LEMMA MoveTypes ==
    ASSUME SessionTypes, NEW p \in SessionRequest,
           AuthEnds(p) \/ \E pc \in AuthPC: AuthGoes(p, pc) /\ auth[p].pair # NoPair,
           pairs' = pairs, now' = now, users' \in [Email -> {"none", "active", "disabled"}]
    PROVE  SessionTypes'
<1>1. now' \in 0..MaxTime
  BY SoundTypes
<1>2. CASE AuthEnds(p)
  BY <1>1, <1>2, EndSound, SoundStep DEF AuthEnds
<1>3. ASSUME NEW pc \in AuthPC, AuthGoes(p, pc), auth[p].pair # NoPair PROVE SessionTypes'
  BY <1>1, <1>3, GoSound, GoesExcept, SoundStep
<1> QED BY <1>2, <1>3

(* A pair held by a request was issued. *)
LEMMA HeldPair ==
    ASSUME SessionTypes, NEW p \in SessionRequest, auth[p].pc \notin {"idle", "insert", "issue"}
    PROVE  Holds(p) \in Pair /\ auth[p].pair # NoPair
BY DEF SessionTypes, Holds

(* A change of one pair that keeps its parent keeps the types. *)
LEMMA ChangeTypes ==
    ASSUME SessionTypes, NEW p \in SessionRequest, NEW t \in Pair, NEW r \in PairRecord,
           r.parent = pairs[t].parent, pairs' = [pairs EXCEPT ![t] = r],
           AuthEnds(p) \/ \E pc \in AuthPC: AuthGoes(p, pc) /\ auth[p].pair # NoPair,
           UNCHANGED <<users, now>>
    PROVE  SessionTypes'
<1>1. pairs' \in Seq(PairRecord) /\ Pair' = Pair
  BY SoundTypes DEF Pair
<1>2. \A u \in Pair': pairs'[u].parent < u
  BY <1>1, SoundTypes DEF Pair
<1>3. auth' \in [SessionRequest -> AuthRecord] /\ \A q \in SessionRequest: Sound(auth'[q])
  <2>1. CASE AuthEnds(p)
    <3>1. auth' = [auth EXCEPT ![p] = Calm]
      BY <2>1 DEF AuthEnds
    <3>2. auth' \in [SessionRequest -> AuthRecord]
      BY <3>1, CalmType, SoundTypes
    <3>3. \A q \in SessionRequest: auth'[q] = auth[q] \/ auth'[q] = Calm
      BY <3>1, SoundTypes
    <3> QED BY <3>2, <3>3, EndSound, SoundTypes
  <2>2. ASSUME NEW pc \in AuthPC, AuthGoes(p, pc), auth[p].pair # NoPair
        PROVE  auth' \in [SessionRequest -> AuthRecord] /\ \A q \in SessionRequest: Sound(auth'[q])
    <3> DEFINE r1 == [auth[p] EXCEPT !.pc = pc]
    <3>1. auth' = [auth EXCEPT ![p] = r1]
      BY <2>2, GoesExcept
    <3>2. Sound(r1)
      BY <2>2, GoSound
    <3> HIDE DEF r1
    <3>3. auth' \in [SessionRequest -> AuthRecord]
      BY <3>1, <3>2, SoundTypes DEF Sound
    <3>4. \A q \in SessionRequest: auth'[q] = auth[q] \/ auth'[q] = r1
      BY <3>1, SoundTypes
    <3> QED BY <3>2, <3>3, <3>4, SoundTypes
  <2> QED BY <2>1, <2>2
<1> QED BY <1>1, <1>2, <1>3, SoundTypes DEF SessionTypes, Sound

LEMMA SessionTypesStep == ASSUME SessionTypes, SessionNext PROVE SessionTypes'
<1> USE SoundTypes DEF AuthAt
<1>1. CASE SessionTick
  BY <1>1, Lives DEF SessionTick, Sound, Pair, SessionTypes
<1>2. ASSUME NEW e \in Email, Disable(e) PROVE SessionTypes'
  BY <1>2 DEF Disable, SessionTypes, Pair
<1>3. ASSUME NEW p \in SessionRequest, FindEmail(p) PROVE SessionTypes'
  <2>1. PICK e \in Email: auth' = [auth EXCEPT ![p] = [auth[p] EXCEPT !.pc = "insert", !.email = e]]
    BY <1>3 DEF FindEmail, AuthRecord
  <2>2. Sound([auth[p] EXCEPT !.pc = "insert", !.email = e])
    BY DEF Sound, AuthRecord, AuthPC
  <2> QED BY <1>3, <2>1, <2>2, SoundStep DEF FindEmail
<1>4. ASSUME NEW p \in SessionRequest, CreateUser(p) PROVE SessionTypes'
  <2>1. users' \in [Email -> {"none", "active", "disabled"}]
    BY <1>4 DEF CreateUser, Sound, AuthRecord
  <2> QED BY <1>4, <2>1, MoveTypes DEF CreateUser
<1>5. ASSUME NEW p \in SessionRequest, LogIn(p) PROVE SessionTypes'
  <2>1. PICK e \in Email: auth' = [auth EXCEPT ![p] = [auth[p] EXCEPT !.pc = "issue", !.email = e,
                                                                      !.pair = NoPair]]
    BY <1>5 DEF LogIn, AuthRecord
  <2>2. Sound([auth[p] EXCEPT !.pc = "issue", !.email = e, !.pair = NoPair])
    BY DEF Sound, AuthRecord, AuthPC, NoPair
  <2> QED BY <1>5, <2>1, <2>2, SoundStep DEF LogIn
<1>6. ASSUME NEW p \in SessionRequest, GetValid(p) PROVE SessionTypes'
  <2>1. PICK t \in Pair: auth' = [auth EXCEPT ![p] = [auth[p] EXCEPT !.pc = "user", !.pair = t,
                                                                     !.email = pairs[t].email]]
    BY <1>6 DEF GetValid, AuthRecord
  <2>2. t \in Nat /\ t # NoPair /\ pairs[t] \in PairRecord
    BY DEF Pair, NoPair
  <2>3. Sound([auth[p] EXCEPT !.pc = "user", !.pair = t, !.email = pairs[t].email])
    BY <2>2 DEF Sound, AuthRecord, AuthPC, PairRecord
  <2> QED BY <1>6, <2>1, <2>3, SoundStep DEF GetValid
<1>7. ASSUME NEW p \in SessionRequest, UserOfRefresh(p) PROVE SessionTypes'
  BY <1>7, HeldPair, MoveTypes DEF UserOfRefresh, AuthPC
<1>8. ASSUME NEW p \in SessionRequest, RevokeOld(p) PROVE SessionTypes'
  <2>1. Holds(p) \in Pair /\ auth[p].pair # NoPair /\ pairs[Holds(p)] \in PairRecord
    BY <1>8, HeldPair DEF RevokeOld, Pair
  <2>2. pairs' = [pairs EXCEPT ![Holds(p)] = [pairs[Holds(p)] EXCEPT !.revoked = TRUE]]
    BY <1>8, <2>1 DEF RevokeOld, PairRecord
  <2> DEFINE new == [pairs[Holds(p)] EXCEPT !.revoked = TRUE]
  <2>3. new \in PairRecord /\ new.parent = pairs[Holds(p)].parent
    BY <2>1 DEF PairRecord
  <2>4. AuthGoes(p, "issue") /\ "issue" \in AuthPC /\ UNCHANGED <<users, now>>
    BY <1>8 DEF RevokeOld, AuthPC
  <2> HIDE DEF new
  <2>5. pairs' = [pairs EXCEPT ![Holds(p)] = new]
    BY <2>2 DEF new
  <2> QED BY <2>1, <2>3, <2>4, <2>5, ChangeTypes
<1>9. ASSUME NEW p \in SessionRequest, IssueTokens(p) PROVE SessionTypes'
  <2> DEFINE new == [email |-> auth[p].email, parent |-> Holds(p), revoked |-> FALSE,
                     accessEnds |-> now + AccessLife, refreshEnds |-> now + RefreshLife,
                     blackUntil |-> 0, out |-> FALSE]
  <2>1. new \in PairRecord /\ new.parent <= Len(pairs)
    <3>1. auth[p].email \in Email /\ Holds(p) \in Nat
      BY DEF Sound, AuthRecord, Holds
    <3>2. now + AccessLife \in Nat /\ now + RefreshLife \in Nat
      BY Lives
    <3>3. Holds(p) <= Len(pairs)
      BY DEF Holds, Sound, Pair, NoPair
    <3> QED BY <3>1, <3>2, <3>3 DEF PairRecord
  <2>2. pairs' = Append(pairs, new)
    BY <1>9 DEF IssueTokens
  <2>3. pairs' \in Seq(PairRecord) /\ Pair \subseteq Pair' /\ \A t \in Pair': pairs'[t].parent < t
    <3> HIDE DEF new
    <3>1. pairs' \in Seq(PairRecord) /\ Pair' = 1..Len(pairs) + 1 /\ Pair = 1..Len(pairs)
      BY <2>1, <2>2 DEF Pair
    <3>2. \A t \in Pair': pairs'[t] = IF t = Len(pairs) + 1 THEN new ELSE pairs[t]
      BY <2>1, <2>2, <3>1
    <3>3. Len(pairs) \in Nat /\ new.parent \in Nat
      BY <2>1 DEF PairRecord
    <3>4. ASSUME NEW t \in Pair' PROVE pairs'[t].parent < t
      <4>1. CASE t = Len(pairs) + 1
        BY <2>1, <3>2, <3>3, <4>1
      <4>2. CASE t \in Pair
        BY <3>1, <3>2, <3>3, <4>2
      <4> QED BY <3>1, <3>3, <4>1, <4>2
    <3> QED BY <3>1, <3>3, <3>4
  <2>4. auth' = [auth EXCEPT ![p] = Calm]
    BY <1>9 DEF IssueTokens, AuthEnds
  <2>5. auth' \in [SessionRequest -> AuthRecord]
    BY <2>4, CalmType
  <2>6. \A q \in SessionRequest: auth'[q] = auth[q] \/ auth'[q] = Calm
    BY <2>4
  <2>7. \A q \in SessionRequest: Sound(auth'[q])
    BY <2>6, EndSound
  <2> QED BY <1>9, <2>3, <2>5, <2>7 DEF IssueTokens, SessionTypes, Sound
<1>10. ASSUME NEW p \in SessionRequest, DecodeToken(p) PROVE SessionTypes'
  <2>1. PICK t \in Pair, next \in {"answer", "logout"}:
          auth' = [auth EXCEPT ![p] = [pc |-> "check", email |-> pairs[t].email, pair |-> t,
                                       next |-> next]]
    BY <1>10 DEF DecodeToken
  <2>2. t \in Nat /\ t # NoPair /\ pairs[t] \in PairRecord
    BY DEF Pair, NoPair
  <2>3. Sound([pc |-> "check", email |-> pairs[t].email, pair |-> t, next |-> next])
    BY <2>2 DEF Sound, AuthRecord, AuthPC, PairRecord
  <2> QED BY <1>10, <2>1, <2>3, SoundStep DEF DecodeToken
<1>11. ASSUME NEW p \in SessionRequest, CheckBlacklist(p) PROVE SessionTypes'
  BY <1>11, HeldPair, MoveTypes DEF CheckBlacklist, AsUser, AuthPC
<1>12. ASSUME NEW p \in SessionRequest, BlacklistAway(p) PROVE SessionTypes'
  BY <1>12, HeldPair, MoveTypes DEF BlacklistAway, AsUser, AuthPC
<1>13. ASSUME NEW p \in SessionRequest, RevokeAtLogout(p) PROVE SessionTypes'
  <2>1. Holds(p) \in Pair /\ auth[p].pair # NoPair /\ pairs[Holds(p)] \in PairRecord
    BY <1>13, HeldPair DEF RevokeAtLogout, Pair
  <2>2. pairs' = [pairs EXCEPT ![Holds(p)] = [pairs[Holds(p)] EXCEPT !.revoked = TRUE]]
    BY <1>13, <2>1 DEF RevokeAtLogout, PairRecord
  <2> DEFINE new == [pairs[Holds(p)] EXCEPT !.revoked = TRUE]
  <2>3. new \in PairRecord /\ new.parent = pairs[Holds(p)].parent
    BY <2>1 DEF PairRecord
  <2>4. AuthGoes(p, "blacklist") /\ "blacklist" \in AuthPC /\ UNCHANGED <<users, now>>
    BY <1>13 DEF RevokeAtLogout, AuthPC
  <2> HIDE DEF new
  <2>5. pairs' = [pairs EXCEPT ![Holds(p)] = new]
    BY <2>2 DEF new
  <2> QED BY <2>1, <2>3, <2>4, <2>5, ChangeTypes
<1>14. ASSUME NEW p \in SessionRequest, BlacklistToken(p) PROVE SessionTypes'
  <2> DEFINE r == [pairs[Holds(p)] EXCEPT !.blackUntil = now + AccessLife, !.out = TRUE]
  <2>1. Holds(p) \in Pair /\ auth[p].pair # NoPair /\ pairs[Holds(p)] \in PairRecord
    BY <1>14, HeldPair DEF BlacklistToken, Pair
  <2>2. pairs' = [pairs EXCEPT ![Holds(p)] = r]
    BY <1>14, <2>1 DEF BlacklistToken, PairRecord
  <2>3. r \in PairRecord /\ r.parent = pairs[Holds(p)].parent
    <3>1. now + AccessLife \in Nat
      BY Lives
    <3> QED BY <2>1, <3>1 DEF PairRecord
  <2> QED BY <1>14, <2>1, <2>2, <2>3, ChangeTypes DEF BlacklistToken
<1>15. ASSUME NEW p \in SessionRequest, Killed(p) PROVE SessionTypes'
  BY <1>15, MoveTypes DEF Killed
<1> QED BY <1>1, <1>2, <1>3, <1>4, <1>5, <1>6, <1>7, <1>8, <1>9, <1>10, <1>11, <1>12, <1>13,
           <1>14, <1>15 DEF SessionNext

(***************************************************************************)
(* The blacklist.                                                          *)
(***************************************************************************)
LEMMA InitToken == ASSUME SessionInit PROVE TokenInv
BY DEF SessionInit, TokenInv, Pair, AuthAt, Calm

(* steps that leave the pairs alone and let nobody start to issue for one  *)
LEMMA TokenKept ==
    ASSUME SessionTypes, TokenInv, NEW p \in SessionRequest, pairs' = pairs, now' = now,
           NEW r, auth' = [auth EXCEPT ![p] = r], ~(r.pc = "issue" /\ r.pair # NoPair)
    PROVE  TokenInv'
<1>2. \A q \in SessionRequest: auth'[q] = auth[q] \/ auth'[q] = r
  BY SoundTypes
<1>3. \A q \in SessionRequest:
        (AuthAt(q, "issue") /\ Holds(q) # NoPair)' => pairs'[auth'[q].pair].revoked
  BY <1>2 DEF TokenInv, AuthAt, Holds
<1> QED BY <1>3 DEF TokenInv, Pair, Children, AuthAt, Holds

(* a step that changes one pair, which stays revoked when it was *)
LEMMA TokenChanged ==
    ASSUME SessionTypes, TokenInv, NEW p \in SessionRequest, NEW t \in Pair, NEW r,
           pairs' = [pairs EXCEPT ![t] = r], now' = now,
           r.parent = pairs[t].parent, r.accessEnds = pairs[t].accessEnds,
           pairs[t].revoked => r.revoked, ~r.revoked => ~pairs[t].revoked,
           r.out => r.accessEnds <= r.blackUntil,
           \E a: /\ auth' = [auth EXCEPT ![p] = a]
                 /\ a.pc = "issue" /\ a.pair # NoPair => a.pair = t /\ r.revoked
    PROVE  TokenInv'
<1>1. PICK a: /\ auth' = [auth EXCEPT ![p] = a]
              /\ a.pc = "issue" /\ a.pair # NoPair => a.pair = t /\ r.revoked
  OBVIOUS
<1>2. \A q \in SessionRequest: auth'[q] = auth[q] \/ auth'[q] = a
  BY <1>1, SoundTypes
<1>3. Pair' = Pair /\ \A u \in Pair: pairs'[u] = IF u = t THEN r ELSE pairs[u]
  BY SoundTypes DEF Pair
<1>4. \A u \in Pair: Children(u)' = Children(u)
  BY <1>3 DEF Children
<1>5. ASSUME NEW q \in SessionRequest, (AuthAt(q, "issue") /\ Holds(q) # NoPair)'
      PROVE  pairs'[auth'[q].pair].revoked
  <2>1. CASE auth'[q] = a
    BY <1>1, <1>3, <1>5, <2>1 DEF AuthAt, Holds
  <2>2. CASE auth'[q] = auth[q]
    <3>1. auth[q].pair \in Pair /\ pairs[auth[q].pair].revoked
      BY <1>5, <2>2, SoundTypes DEF AuthAt, Holds, TokenInv, Sound
    <3> QED BY <1>3, <2>2, <3>1
  <2> QED BY <1>2, <2>1, <2>2
<1>6. ASSUME NEW u \in Pair'
      PROVE  /\ pairs'[u].accessEnds <= now' + AccessLife
             /\ pairs'[u].out => pairs'[u].accessEnds <= pairs'[u].blackUntil
             /\ ~pairs'[u].revoked => Children(u)' = {}
  BY <1>3, <1>4, <1>6 DEF TokenInv
<1> QED BY <1>5, <1>6 DEF TokenInv, AuthAt, Holds

LEMMA TokenIssued ==
    ASSUME SessionTypes, TokenInv, NEW p \in SessionRequest, IssueTokens(p)
    PROVE  TokenInv'
<1> DEFINE new == [email |-> auth[p].email, parent |-> Holds(p), revoked |-> FALSE,
                   accessEnds |-> now + AccessLife, refreshEnds |-> now + RefreshLife,
                   blackUntil |-> 0, out |-> FALSE]
<1>1. /\ pairs' = Append(pairs, new) /\ now' = now /\ auth' = [auth EXCEPT ![p] = Calm]
      /\ AuthAt(p, "issue")
  BY DEF IssueTokens, AuthEnds
<1>2. /\ Pair = 1..Len(pairs) /\ Pair' = 1..Len(pairs) + 1 /\ Len(pairs) \in Nat
      /\ \A u \in Pair': pairs'[u] = IF u = Len(pairs) + 1 THEN new ELSE pairs[u]
  BY <1>1, SoundTypes DEF Pair
<1>3. now \in Nat /\ AccessLife \in Nat
  BY SoundTypes, Lives
<1>4. ASSUME NEW u \in Pair' PROVE pairs'[u].accessEnds <= now' + AccessLife
  BY <1>1, <1>2, <1>3 DEF TokenInv
<1>5. ASSUME NEW u \in Pair', pairs'[u].out PROVE pairs'[u].accessEnds <= pairs'[u].blackUntil
  BY <1>1, <1>2, <1>5 DEF TokenInv
<1>6. ASSUME NEW u \in Pair', ~pairs'[u].revoked PROVE Children(u)' = {}
  <2> SUFFICES ASSUME NEW c \in Pair', pairs'[c].parent = u PROVE FALSE
    BY DEF Children
  <2>1. CASE c = Len(pairs) + 1
    <3>1. Holds(p) = u /\ u \in Pair /\ u # NoPair
      BY <1>2, <2>1, SoundTypes DEF Holds, Sound, NoPair
    <3>2. pairs[u].revoked
      BY <1>1, <3>1 DEF TokenInv, AuthAt, Holds
    <3> QED BY <1>2, <1>6, <3>1, <3>2
  <2>2. CASE c \in Pair
    <3>1. pairs[c].parent = u /\ pairs[c].parent < c
      BY <1>2, <2>2, SoundTypes
    <3>2. pairs[c] \in PairRecord
      BY <2>2, SoundTypes DEF Pair
    <3>3. u \in Pair
      BY <1>2, <2>2, <3>1
    <3>4. c \in Children(u) /\ ~pairs[u].revoked
      BY <1>2, <1>6, <2>2, <3>1, <3>3 DEF Children
    <3> QED BY <3>3, <3>4 DEF TokenInv
  <2> QED BY <1>2, <2>1, <2>2
<1>7. ASSUME NEW q \in SessionRequest, (AuthAt(q, "issue") /\ Holds(q) # NoPair)'
      PROVE  pairs'[auth'[q].pair].revoked
  <2>1. auth'[q] = auth[q] /\ auth[q].pair \in Pair
    BY <1>1, <1>7, SoundTypes DEF AuthAt, Holds, Calm, Sound
  <2>2. pairs[auth[q].pair].revoked
    BY <1>7, <2>1 DEF AuthAt, Holds, TokenInv
  <2> QED BY <1>2, <2>1, <2>2
<1> QED BY <1>4, <1>5, <1>6, <1>7 DEF TokenInv, AuthAt, Holds

LEMMA TokenStep == ASSUME SessionTypes, TokenInv, SessionNext PROVE TokenInv'
<1>1. CASE SessionTick
  <2>1. now \in Nat /\ AccessLife \in Nat
    BY SoundTypes, Lives
  <2>2. \A t \in Pair: pairs[t].accessEnds \in Nat
    <3>1. \A t \in Pair: pairs[t] \in PairRecord
      BY SoundTypes DEF Pair
    <3> QED BY <3>1 DEF PairRecord
  <2> QED BY <1>1, <2>1, <2>2 DEF SessionTick, TokenInv, Pair, Children, AuthAt, Holds
<1>2. ASSUME NEW e \in Email, Disable(e) PROVE TokenInv'
  BY <1>2 DEF Disable, TokenInv, Pair, Children, AuthAt, Holds
<1>3. ASSUME NEW p \in SessionRequest,
             FindEmail(p) \/ CreateUser(p) \/ LogIn(p) \/ GetValid(p) \/ UserOfRefresh(p)
               \/ DecodeToken(p) \/ CheckBlacklist(p) \/ BlacklistAway(p) \/ Killed(p)
      PROVE  TokenInv'
  <2>1. pairs' = pairs /\ now' = now
    BY <1>3 DEF FindEmail, CreateUser, LogIn, GetValid, UserOfRefresh, DecodeToken,
                CheckBlacklist, BlacklistAway, Killed
  <2>2. auth[p] \in AuthRecord
    BY SoundTypes
  <2>3. CASE FindEmail(p)
    <3>1. PICK e \in Email:
          auth' = [auth EXCEPT ![p] = [auth[p] EXCEPT !.pc = "insert", !.email = e]]
      BY <2>2, <2>3 DEF FindEmail, AuthRecord
    <3> DEFINE r == [auth[p] EXCEPT !.pc = "insert", !.email = e]
    <3>2. ~(r.pc = "issue" /\ r.pair # NoPair)
      BY <2>2 DEF AuthRecord
    <3>3. auth' = [auth EXCEPT ![p] = r]
      BY <3>1
    <3> HIDE DEF r
    <3> QED BY <2>1, <3>2, <3>3, TokenKept
  <2>4. CASE LogIn(p)
    <3>1. PICK e \in Email:
          auth' = [auth EXCEPT ![p] = [auth[p] EXCEPT !.pc = "issue", !.email = e, !.pair = NoPair]]
      BY <2>4 DEF LogIn
    <3> DEFINE r == [auth[p] EXCEPT !.pc = "issue", !.email = e, !.pair = NoPair]
    <3>2. ~(r.pc = "issue" /\ r.pair # NoPair)
      BY <2>2 DEF AuthRecord
    <3>3. auth' = [auth EXCEPT ![p] = r]
      BY <3>1
    <3> HIDE DEF r
    <3> QED BY <2>1, <3>2, <3>3, TokenKept
  <2>5. CASE GetValid(p)
    <3>1. PICK t \in Pair:
          auth' = [auth EXCEPT ![p] = [auth[p] EXCEPT !.pc = "user", !.pair = t, !.email = pairs[t].email]]
      BY <2>2, <2>5, SoundTypes DEF GetValid, AuthRecord
    <3> DEFINE r == [auth[p] EXCEPT !.pc = "user", !.pair = t, !.email = pairs[t].email]
    <3>2. ~(r.pc = "issue" /\ r.pair # NoPair)
      BY <2>2 DEF AuthRecord
    <3>3. auth' = [auth EXCEPT ![p] = r]
      BY <3>1
    <3> HIDE DEF r
    <3> QED BY <2>1, <3>2, <3>3, TokenKept
  <2>6. CASE DecodeToken(p)
    <3>1. PICK t \in Pair, next \in {"answer", "logout"}:
          auth' = [auth EXCEPT ![p] = [pc |-> "check", email |-> pairs[t].email, pair |-> t, next |-> next]]
      BY <2>2, <2>6 DEF DecodeToken, AuthRecord
    <3> DEFINE r == [pc |-> "check", email |-> pairs[t].email, pair |-> t, next |-> next]
    <3>2. ~(r.pc = "issue" /\ r.pair # NoPair)
      BY <2>2 DEF AuthRecord
    <3>3. auth' = [auth EXCEPT ![p] = r]
      BY <3>1
    <3> HIDE DEF r
    <3> QED BY <2>1, <3>2, <3>3, TokenKept
  <2>7. CASE AuthEnds(p)
    BY <2>1, <2>7, TokenKept DEF AuthEnds, Calm
  <2>8. ASSUME NEW pc \in {"revoke", "logout"}, AuthGoes(p, pc) PROVE TokenInv'
    <3> DEFINE r == [auth[p] EXCEPT !.pc = pc]
    <3>1. auth' = [auth EXCEPT ![p] = r] /\ r.pc # "issue"
      BY <2>2, <2>8 DEF AuthGoes, AuthRecord
    <3> HIDE DEF r
    <3> QED BY <2>1, <3>1, TokenKept
  <2> QED BY <1>3, <2>3, <2>4, <2>5, <2>6, <2>7, <2>8
          DEF CreateUser, UserOfRefresh, CheckBlacklist, BlacklistAway, AsUser, Killed
<1>4. ASSUME NEW p \in SessionRequest, RevokeOld(p) \/ RevokeAtLogout(p) PROVE TokenInv'
  <2> DEFINE new == [pairs[Holds(p)] EXCEPT !.revoked = TRUE]
  <2>1. Holds(p) \in Pair /\ pairs[Holds(p)] \in PairRecord /\ auth[p] \in AuthRecord
    BY <1>4, HeldPair, SoundTypes DEF RevokeOld, RevokeAtLogout, AuthAt, Pair
  <2>2. pairs' = [pairs EXCEPT ![Holds(p)] = new] /\ now' = now
    BY <1>4, <2>1 DEF RevokeOld, RevokeAtLogout, PairRecord
  <2>3. /\ new.parent = pairs[Holds(p)].parent /\ new.accessEnds = pairs[Holds(p)].accessEnds
        /\ new.revoked /\ new.out = pairs[Holds(p)].out
        /\ new.blackUntil = pairs[Holds(p)].blackUntil
    BY <2>1 DEF PairRecord
  <2>4. \E a: auth' = [auth EXCEPT ![p] = a] /\ a.pair = Holds(p)
    <3>1. PICK pc \in {"issue", "blacklist"}: auth' = [auth EXCEPT ![p] = [auth[p] EXCEPT !.pc = pc]]
      BY <1>4, <2>1 DEF RevokeOld, RevokeAtLogout, AuthGoes, AuthRecord
    <3>2. [auth[p] EXCEPT !.pc = pc].pair = Holds(p)
      BY <2>1 DEF AuthRecord, Holds
    <3> QED BY <3>1, <3>2
  <2> HIDE DEF new
  <2> QED BY <2>1, <2>2, <2>3, <2>4, TokenChanged DEF TokenInv
<1>5. ASSUME NEW p \in SessionRequest, IssueTokens(p) PROVE TokenInv'
  BY <1>5, TokenIssued
<1>6. ASSUME NEW p \in SessionRequest, BlacklistToken(p) PROVE TokenInv'
  <2> DEFINE new == [pairs[Holds(p)] EXCEPT !.blackUntil = now + AccessLife, !.out = TRUE]
  <2>1. Holds(p) \in Pair /\ pairs[Holds(p)] \in PairRecord
    BY <1>6, HeldPair, SoundTypes DEF BlacklistToken, AuthAt, Pair
  <2>2. pairs' = [pairs EXCEPT ![Holds(p)] = new] /\ now' = now /\ auth' = [auth EXCEPT ![p] = Calm]
    BY <1>6, <2>1 DEF BlacklistToken, AuthEnds, PairRecord
  <2>3. /\ new.parent = pairs[Holds(p)].parent /\ new.accessEnds = pairs[Holds(p)].accessEnds
        /\ new.revoked = pairs[Holds(p)].revoked /\ new.blackUntil = now + AccessLife
    BY <2>1 DEF PairRecord
  <2>4. Calm.pc # "issue"
    BY DEF Calm
  <2>5. new.accessEnds <= new.blackUntil
    BY <2>1, <2>3 DEF TokenInv
  <2> HIDE DEF new
  <2> QED BY <2>1, <2>2, <2>3, <2>4, <2>5, TokenChanged
<1> QED BY <1>1, <1>2, <1>3, <1>4, <1>5, <1>6 DEF SessionNext

(***************************************************************************)
(* A refresh token and those who exchange it.                              *)
(***************************************************************************)
LEMMA FiniteParts ==
    ASSUME SessionTypes, NEW t
    PROVE  /\ IsFiniteSet(Children(t)) /\ Cardinality(Children(t)) \in Nat
           /\ IsFiniteSet(Spending(t)) /\ Cardinality(Spending(t)) \in Nat
           /\ Cardinality(SessionRequest) \in Nat
           /\ Cardinality(Spending(t)) <= Cardinality(SessionRequest)
<1>1. IsFiniteSet(Pair)
  <2>1. Pair = 1..Len(pairs) /\ Len(pairs) \in Nat
    BY SoundTypes DEF Pair
  <2> QED BY <2>1, FS_Interval
<1>2. Children(t) \subseteq Pair /\ Spending(t) \subseteq SessionRequest
  BY DEF Children, Spending
<1>3. IsFiniteSet(SessionRequest)
  BY SessionAssumption DEF SessionAssumption
<1>4. IsFiniteSet(Children(t))
  BY <1>1, <1>2, FS_Subset
<1>5. IsFiniteSet(Spending(t)) /\ Cardinality(Spending(t)) <= Cardinality(SessionRequest)
  BY <1>2, <1>3, FS_Subset
<1> QED BY <1>3, <1>4, <1>5, FS_CardinalityType

LEMMA NoChildren ==
    ASSUME NEW C, C = {}, NEW S, S \subseteq SessionRequest
    PROVE  Cardinality(C) + Cardinality(S) <= Cardinality(SessionRequest)
<1>1. IsFiniteSet(SessionRequest)
  BY SessionAssumption DEF SessionAssumption
<1> QED BY <1>1, FS_Subset, FS_EmptySet, FS_CardinalityType

LEMMA InitSpent == ASSUME SessionInit PROVE SpentOnce
BY DEF SessionInit, SpentOnce, Pair

(* a pair for which nobody new spends and no pair is issued *)
LEMMA SpentLess ==
    ASSUME SessionTypes, SpentOnce, NEW t \in Pair, Children(t)' = Children(t),
           Spending(t)' \subseteq Spending(t)
    PROVE  Cardinality(Children(t)') + Cardinality(Spending(t)') <= Cardinality(SessionRequest)
<1>1. IsFiniteSet(Spending(t)') /\ Cardinality(Spending(t)') <= Cardinality(Spending(t))
  BY FiniteParts, FS_Subset
<1>2. Cardinality(Spending(t)') \in Nat
  BY <1>1, FS_CardinalityType
<1>3. Cardinality(Children(t)) + Cardinality(Spending(t)) <= Cardinality(SessionRequest)
  BY DEF SpentOnce
<1> QED BY <1>1, <1>2, <1>3, FiniteParts

LEMMA SpentIssued ==
    ASSUME SessionTypes, SessionTypes', TokenInv', SpentOnce,
           NEW p \in SessionRequest, IssueTokens(p)
    PROVE  SpentOnce'
<1> DEFINE new == [email |-> auth[p].email, parent |-> Holds(p), revoked |-> FALSE,
                   accessEnds |-> now + AccessLife, refreshEnds |-> now + RefreshLife,
                   blackUntil |-> 0, out |-> FALSE]
           n == Len(pairs) + 1
<1>1. pairs' = Append(pairs, new) /\ auth' = [auth EXCEPT ![p] = Calm] /\ AuthAt(p, "issue")
  BY DEF IssueTokens, AuthEnds
<1>2. /\ Pair = 1..Len(pairs) /\ Pair' = 1..n /\ Len(pairs) \in Nat
      /\ \A u \in Pair': pairs'[u] = IF u = n THEN new ELSE pairs[u]
  BY <1>1, SoundTypes DEF Pair
<1>3. \A q \in SessionRequest: auth'[q] = IF q = p THEN Calm ELSE auth[q]
  BY <1>1, SoundTypes
<1>a. Calm.pc = "idle"
  BY DEF Calm
<1>4. ASSUME NEW t \in Pair'
      PROVE  Cardinality(Children(t)') + Cardinality(Spending(t)') <= Cardinality(SessionRequest)
  <2>1. CASE t = n
    <3>1. ~pairs'[t].revoked
      BY <1>2, <2>1
    <3>2. Children(t)' = {}
      BY <3>1, <1>4 DEF TokenInv
    <3>3. Spending(t)' \subseteq SessionRequest
      BY DEF Spending
    <3> QED BY <3>2, <3>3, NoChildren
  <2>2. CASE t \in Pair /\ Holds(p) = t
    <3>1. Children(t)' = Children(t) \union {n} /\ n \notin Children(t)
      BY <1>2, <2>2 DEF Children
    <3>2. Spending(t)' = Spending(t) \ {p} /\ p \in Spending(t)
      BY <1>1, <1>3, <1>a, <2>2 DEF Spending, Holds, AuthAt
    <3>3. Cardinality(Children(t)') = Cardinality(Children(t)) + 1
      BY <3>1, FiniteParts, FS_AddElement
    <3>4. Cardinality(Spending(t)') = Cardinality(Spending(t)) - 1
      BY <3>2, FiniteParts, FS_RemoveElement
    <3>5. Cardinality(Children(t)) + Cardinality(Spending(t)) <= Cardinality(SessionRequest)
      BY <2>2 DEF SpentOnce
    <3> QED BY <3>3, <3>4, <3>5, FiniteParts
  <2>3. CASE t \in Pair /\ Holds(p) # t
    <3>1. Children(t)' = Children(t)
      BY <1>2, <2>3 DEF Children
    <3>2. Spending(t)' \subseteq Spending(t)
      BY <1>3, <1>a, <2>3 DEF Spending
    <3> QED BY <2>3, <3>1, <3>2, SpentLess
  <2> QED BY <1>2, <2>1, <2>2, <2>3
<1> QED BY <1>4 DEF SpentOnce

LEMMA SpentStep ==
    ASSUME SessionTypes, SessionTypes', TokenInv, TokenInv', SpentOnce, SessionNext
    PROVE  SpentOnce'
<1>a. Calm.pc = "idle"
  BY DEF Calm
<1>1. ASSUME NEW p \in SessionRequest, IssueTokens(p) PROVE SpentOnce'
  BY <1>1, SpentIssued
<1>2. ASSUME NEW p \in SessionRequest, GetValid(p) PROVE SpentOnce'
  <2>1. PICK u \in Pair: /\ ~pairs[u].revoked
                         /\ \A q \in SessionRequest: q # p => auth'[q] = auth[q]
                         /\ auth'[p].pair = u
    BY <1>2, SoundTypes DEF GetValid, ValidRefresh, AuthRecord
  <2>2. pairs' = pairs /\ Pair' = Pair
    BY <1>2 DEF GetValid, Pair
  <2>3. \A t: Children(t)' = Children(t)
    BY <2>2 DEF Children
  <2>4. ASSUME NEW t \in Pair, t # u
        PROVE  Cardinality(Children(t)') + Cardinality(Spending(t)') <= Cardinality(SessionRequest)
    <3>1. Spending(t)' \subseteq Spending(t)
      BY <2>1, <2>4 DEF Spending
    <3> QED BY <2>3, <3>1, SpentLess
  <2>5. Cardinality(Children(u)') + Cardinality(Spending(u)') <= Cardinality(SessionRequest)
    <3>1. Children(u)' = {}
      BY <2>1, <2>3 DEF TokenInv
    <3>2. Spending(u)' \subseteq SessionRequest
      BY DEF Spending
    <3> QED BY <3>1, <3>2, NoChildren
  <2> QED BY <2>2, <2>4, <2>5 DEF SpentOnce
<1>3. CASE /\ \A p \in SessionRequest: ~IssueTokens(p) /\ ~GetValid(p)
  <2>1. Pair' = Pair /\ \A t \in Pair: pairs'[t].parent = pairs[t].parent
    <3>1. \A t \in Pair: pairs[t] \in PairRecord
      BY SoundTypes DEF Pair
    <3>2. ASSUME NEW p \in SessionRequest,
                 RevokeOld(p) \/ RevokeAtLogout(p) \/ BlacklistToken(p)
          PROVE  Pair' = Pair /\ \A t \in Pair: pairs'[t].parent = pairs[t].parent
      <4>1. Holds(p) \in Pair
        BY <3>2, HeldPair DEF RevokeOld, RevokeAtLogout, BlacklistToken, AuthAt
      <4>2. CASE RevokeOld(p) \/ RevokeAtLogout(p)
        <5>1. pairs' = [pairs EXCEPT ![Holds(p)].revoked = TRUE]
          BY <4>2 DEF RevokeOld, RevokeAtLogout
        <5> QED BY <3>1, <4>1, <5>1, SoundTypes DEF Pair, PairRecord
      <4>3. CASE BlacklistToken(p)
        <5>1. pairs' = [pairs EXCEPT ![Holds(p)].blackUntil = now + AccessLife,
                                     ![Holds(p)].out = TRUE]
          BY <4>3 DEF BlacklistToken
        <5> QED BY <3>1, <4>1, <5>1, SoundTypes DEF Pair, PairRecord
      <4> QED BY <3>2, <4>2, <4>3
    <3>3. CASE pairs' = pairs
      BY <3>3 DEF Pair
    <3> QED BY <1>3, <3>2, <3>3
            DEF SessionNext, SessionTick, Disable, FindEmail, CreateUser, LogIn, UserOfRefresh,
                DecodeToken, CheckBlacklist, BlacklistAway, Killed
  <2>2. \A t \in Pair: Children(t)' = Children(t)
    BY <2>1 DEF Children
  <2>3. ASSUME NEW t \in Pair PROVE Spending(t)' \subseteq Spending(t)
    <3> SUFFICES ASSUME NEW q \in SessionRequest, auth'[q].pair = t,
                        auth'[q].pc \in {"user", "revoke", "issue"}
                 PROVE  auth[q].pair = t /\ auth[q].pc \in {"user", "revoke", "issue"}
      BY DEF Spending
    <3>1. t # NoPair
      BY SoundTypes DEF Pair, NoPair
    <3>2. CASE auth'[q] = auth[q]
      BY <3>2
    <3>3. CASE auth'[q] = Calm
      BY <3>3, <1>a
    <3>4. CASE auth'[q].pair = auth[q].pair /\ auth[q].pc \in {"user", "revoke", "issue"}
      BY <3>4
    <3>5. ASSUME NEW p \in SessionRequest, NEW pc, AuthGoes(p, pc),
                 pc \in {"user", "revoke", "issue"} => auth[p].pc \in {"user", "revoke", "issue"}
          PROVE  auth[q].pair = t /\ auth[q].pc \in {"user", "revoke", "issue"}
      <4>1. auth' = [auth EXCEPT ![p] = [auth[p] EXCEPT !.pc = pc]] /\ auth[p] \in AuthRecord
        BY <3>5, GoesExcept, SoundTypes
      <4>2. CASE q = p
        <5>1. auth'[p].pc = pc /\ auth'[p].pair = auth[p].pair
          BY <4>1, SoundTypes DEF AuthRecord
        <5> QED BY <3>4, <3>5, <4>2, <5>1
      <4>3. CASE q # p
        BY <3>2, <4>1, <4>3, SoundTypes
      <4> QED BY <4>2, <4>3
    <3>6. ASSUME NEW p \in SessionRequest, AuthEnds(p)
          PROVE  auth[q].pair = t /\ auth[q].pc \in {"user", "revoke", "issue"}
      <4>1. auth'[q] = auth[q] \/ auth'[q] = Calm
        BY <3>6, SoundTypes DEF AuthEnds
      <4> QED BY <3>2, <3>3, <4>1
    <3>7. ASSUME NEW p \in SessionRequest, FindEmail(p) \/ LogIn(p) \/ DecodeToken(p)
          PROVE  auth[q].pair = t /\ auth[q].pc \in {"user", "revoke", "issue"}
      <4>1. q # p
        <5>1. auth[p] \in AuthRecord
          BY SoundTypes
        <5>2. FindEmail(p) => auth'[p].pc = "insert"
          BY <5>1, SoundTypes DEF FindEmail, AuthRecord
        <5>3. LogIn(p) => auth'[p].pair = NoPair
          BY <5>1, SoundTypes DEF LogIn, AuthRecord
        <5>4. DecodeToken(p) => auth'[p].pc = "check"
          BY SoundTypes DEF DecodeToken
        <5> QED BY <3>1, <3>7, <5>2, <5>3, <5>4
      <4>2. auth'[q] = auth[q]
        BY <3>7, <4>1, SoundTypes DEF FindEmail, LogIn, DecodeToken
      <4> QED BY <3>2, <4>2
    <3>8. ASSUME NEW p \in SessionRequest,
                 UserOfRefresh(p) \/ RevokeOld(p) \/ CheckBlacklist(p) \/ BlacklistAway(p)
                   \/ RevokeAtLogout(p)
          PROVE  auth[q].pair = t /\ auth[q].pc \in {"user", "revoke", "issue"}
      BY <3>5, <3>6, <3>8 DEF UserOfRefresh, RevokeOld, CheckBlacklist, BlacklistAway, AsUser,
                              RevokeAtLogout, AuthAt
    <3>9. ASSUME NEW p \in SessionRequest, CreateUser(p) \/ BlacklistToken(p) \/ Killed(p)
          PROVE  auth[q].pair = t /\ auth[q].pc \in {"user", "revoke", "issue"}
      BY <3>6, <3>9 DEF CreateUser, BlacklistToken, Killed
    <3>10. CASE auth' = auth
      BY <3>2, <3>10
    <3> QED BY <1>3, <3>7, <3>8, <3>9, <3>10 DEF SessionNext, SessionTick, Disable
  <2> QED BY <2>1, <2>2, <2>3, SpentLess DEF SpentOnce
<1> QED BY <1>1, <1>2, <1>3

(***************************************************************************)
(* The theorems.                                                           *)
(***************************************************************************)
SessionInd == SessionTypes /\ TokenInv /\ SpentOnce

LEMMA SessionIndStep == ASSUME SessionInd, [SessionNext]_sessionVars PROVE SessionInd'
<1>1. CASE SessionNext
  BY <1>1, SessionTypesStep, TokenStep, SpentStep DEF SessionInd
<1>2. CASE UNCHANGED sessionVars
  BY <1>2 DEF sessionVars, SessionInd, SessionTypes, TokenInv, SpentOnce, Pair, Children, Spending,
              AuthAt, Holds
<1> QED BY <1>1, <1>2

LEMMA SessionSound == SessionSpec => []SessionInd
<1>1. SessionInit => SessionInd
  BY InitSessionTypes, InitToken, InitSpent DEF SessionInd
<1> QED BY <1>1, SessionIndStep, PTL DEF SessionSpec

(* Every request that goes on with a pair holds one that was issued         *)
(* (auth_service.py, dependencies/auth.py).                                 *)
THEOREM SessionTypesHold == SessionSpec => []SessionTypes
BY SessionSound, PTL DEF SessionInd

(* The blacklist entry of a logged out access token outlives the token,     *)
(* whatever is left of it at the logout (AuthService.logout).               *)
THEOREM LoggedOutHolds == SessionSpec => []LoggedOutStaysOut
<1>1. SessionInd => LoggedOutStaysOut
  <2> SUFFICES ASSUME SessionInd, NEW t \in Pair, pairs[t].out, AccessLives(t) PROVE Blacklisted(t)
    BY DEF LoggedOutStaysOut
  <2>1. pairs[t].accessEnds <= pairs[t].blackUntil
    BY DEF SessionInd, TokenInv
  <2>2. pairs[t] \in PairRecord /\ now \in Nat
    BY SoundTypes DEF SessionInd, Pair
  <2> QED BY <2>1, <2>2 DEF AccessLives, Blacklisted, PairRecord
<1> QED BY <1>1, SessionSound, PTL

(* A refresh token is exchanged at most once for every request that runs at *)
(* the same time, whoever logs out or is killed (AuthService.refresh).      *)
THEOREM SpentHolds == SessionSpec => []SpentOnce
BY SessionSound, PTL DEF SessionInd
=============================================================================
