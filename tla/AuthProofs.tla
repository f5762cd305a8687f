----------------------------- MODULE AuthProofs -----------------------------
(***************************************************************************)
(* Proofs about the two parts of app/modules/auth: AuthSessions, for every  *)
(* set of users, tokens and requests, every lifetime and every clock; and   *)
(* LoginRateLimit, for every set of emails, addresses and attempts, every   *)
(* limit, window and clock.                                                 *)
(***************************************************************************)
EXTENDS AuthSessions, LoginRateLimit, TLAPS

(* A quantity divided into whole units leaves less than a unit. *)
LEMMA DivRemainder ==
    ASSUME NEW d \in Nat, NEW s \in Nat \ {0}
    PROVE  /\ d \div s \in Nat
           /\ (d \div s) * s \in Nat
           /\ d < (d \div s) * s + s
  OBVIOUS

(* The mark's time to live is positive, and the mark is set to lapse less     *)
(* than a second before the token (max(_, 1)).                                *)
LEMMA Clockwork ==
    ASSUME TypeOK, NEW t \in Token
    PROVE  /\ MarkSeconds(t) \in Nat \ {0}
           /\ MarkSeconds(t) * Second \in Nat \ {0}
           /\ exp[t] < now + MarkSeconds(t) * Second + Second
  <1> USE AuthAssumption
  <1> /\ now \in Nat /\ exp[t] \in Nat
      /\ Second \in Nat \ {0} /\ TTL \in Nat \ {0}
    BY DEF TypeOK
  <1>1. Remaining(t) \in Nat /\ exp[t] < now + Remaining(t) * Second + Second
    <2>1. CASE exp[t] > now
      <3> DEFINE d == exp[t] - now
      <3>1. d \in Nat BY <2>1
      <3>2. d < (d \div Second) * Second + Second /\ d \div Second \in Nat
        BY <3>1, DivRemainder
      <3>3. Remaining(t) = d \div Second BY <2>1 DEF Remaining
      <3> HIDE DEF d
      <3>4. exp[t] = now + d BY <2>1 DEF d
      <3> QED BY <3>1, <3>2, <3>3, <3>4
    <2>2. CASE ~(exp[t] > now)
      BY <2>2 DEF Remaining
    <2> QED BY <2>1, <2>2
  <1>2. MarkSeconds(t) \in Nat \ {0} /\ MarkSeconds(t) >= Remaining(t)
    BY <1>1 DEF MarkSeconds
  <1>3. MarkSeconds(t) * Second \in Nat \ {0}
        /\ MarkSeconds(t) * Second >= Remaining(t) * Second
    BY <1>1, <1>2
  <1> QED BY <1>1, <1>2, <1>3

-----------------------------------------------------------------------------
USE AuthAssumption

(* A token's lifetime in ticks. *)
LEMMA Lifetime == TTL * Second \in Nat /\ \A n \in Nat : n + TTL * Second # 0
  <1>1. TTL * Second \in Nat \ {0}
    OBVIOUS
  <1> QED BY <1>1

(* The expiry a new pair is given is a tick, in whole seconds (ExpClaim).     *)
LEMMA IssueTimes ==
    ASSUME now \in Nat
    PROVE  now + TTL * Second \in Nat /\ ExpClaim \in Nat
  <1> DEFINE life == now + TTL * Second
  <1>1. life \in Nat
    BY Lifetime
  <1> HIDE DEF life
  <1>2. ExpClaim = (life \div Second) * Second
    BY DEF ExpClaim, life
  <1>3. ExpClaim \in Nat
    BY <1>1, <1>2, DivRemainder
  <1> QED BY <1>1, <1>3 DEF life

(***************************************************************************)
(* Every variable keeps its type, and a busy request slot its user and,     *)
(* from decode_token to rotate, its token.                                  *)
(***************************************************************************)
LEMMA TypeStep == TypeOK /\ [Next]_vars => TypeOK'
  <1> SUFFICES ASSUME TypeOK, [Next]_vars PROVE TypeOK'
    OBVIOUS
  <1> USE DEF TypeOK, Step, redis, claims, local, history, LiveOf
  <1>1. CASE Tick
    BY <1>1 DEF Tick
  <1>2. ASSUME NEW r \in Request,
               \/ Login(r) \/ Refresh(r) \/ Logout(r) \/ LogoutAll(r) \/ Deactivate(r)
               \/ VerifyActive(r) \/ VerifyUsed(r) \/ VerifyUnknown(r)
               \/ CheckAccount(r) \/ Rotate(r) \/ Issue(r)
               \/ ListMembers(r) \/ DeleteMembers(r) \/ Crash(r)
        PROVE  TypeOK'
    <2>1. CASE Login(r)
      BY <2>1 DEF Login, Begin
    <2>2. CASE Refresh(r)
      BY <2>2 DEF Refresh, Begin, Valid
    <2>3. CASE Logout(r)
      BY <2>3 DEF Logout, Valid
    <2>4. CASE LogoutAll(r)
      BY <2>4 DEF LogoutAll, Begin
    <2>5. CASE Deactivate(r)
      BY <2>5 DEF Deactivate
    <2>6. CASE VerifyActive(r)
      BY <2>6 DEF VerifyActive, Goto
    <2>7. CASE VerifyUsed(r)
      BY <2>7 DEF VerifyUsed, Goto
    <2>8. CASE VerifyUnknown(r)
      BY <2>8 DEF VerifyUnknown, End
    <2>9. CASE CheckAccount(r)
      BY <2>9 DEF CheckAccount, Goto
    <2>10. CASE Rotate(r)
      <3>1. tok[r] \in Token /\ now + MarkSeconds(tok[r]) * Second \in Nat
        BY <2>10, Clockwork DEF Rotate
      <3>2. /\ live' \in [Token -> Nat] /\ used' \in [Token -> Nat]
            /\ index' \in [User -> SUBSET Token]
        BY <2>10, <3>1 DEF Rotate
      <3>3. pc' \in [Request -> Step] /\ pc' = [pc EXCEPT ![r] = "issue"]
        BY <2>10 DEF Rotate, Goto
      <3> QED BY <2>10, <3>2, <3>3 DEF Rotate, Goto
    <2>11. CASE Issue(r)
      <3>1. ExpClaim \in Nat /\ now + TTL * Second \in Nat
        BY IssueTimes
      <3>2. PICK t \in Token : /\ owner' = [owner EXCEPT ![t] = user[r]]
                              /\ exp' = [exp EXCEPT ![t] = ExpClaim]
                              /\ parent' = [parent EXCEPT ![t] = tok[r]]
                              /\ Save(user[r], t)
        BY <2>11 DEF Issue
      <3>3. /\ owner' \in [Token -> User \union {NoUser}] /\ exp' \in [Token -> Nat]
            /\ parent' \in [Token -> Token \union {NoToken}]
        BY <3>1, <3>2
      <3>4. /\ live' \in [Token -> Nat] /\ used' = used
            /\ index' \in [User -> SUBSET Token] /\ indexTill' \in [User -> Nat]
        BY <3>1, <3>2 DEF Save, Members
      <3> QED BY <2>11, <3>3, <3>4 DEF Issue, End
    <2>12. CASE ListMembers(r)
      BY <2>12 DEF ListMembers, Members
    <2>13. CASE DeleteMembers(r)
      BY <2>13 DEF DeleteMembers, End
    <2>14. CASE Crash(r)
      BY <2>14 DEF Crash, End
    <2> QED BY <1>2, <2>1, <2>2, <2>3, <2>4, <2>5, <2>6, <2>7, <2>8, <2>9, <2>10, <2>11, <2>12, <2>13, <2>14
  <1>3. CASE UNCHANGED vars
    BY <1>3 DEF vars
  <1> QED BY <1>1, <1>2, <1>3 DEF Next

(* TypeOK holds in every behaviour of the service. *)
THEOREM TypeCorrect == Spec => []TypeOK
  <1>1. Init => TypeOK
    BY DEF Init, TypeOK, Step
  <1> QED BY <1>1, TypeStep, PTL DEF Spec

-----------------------------------------------------------------------------
(***************************************************************************)
(* The inductive invariant behind the properties that hold whatever the     *)
(* interleaving.                                                            *)
(***************************************************************************)
LEMMA RaceStep == TypeOK /\ TypeOK' /\ RaceInv /\ [Next]_vars => RaceInv'
  <1> SUFFICES ASSUME TypeOK, TypeOK', RaceInv, [Next]_vars PROVE RaceInv'
    OBVIOUS
  <1> USE DEF TypeOK, Step, redis, claims, local, history, RaceInv,
              StaleTokenYieldsNothing, IndexNamesOwnTokens, MarkCoversToken
  <1>1. CASE Tick
    BY <1>1 DEF Tick
  <1>2. ASSUME NEW r \in Request,
               \/ Login(r) \/ Refresh(r) \/ Logout(r) \/ LogoutAll(r) \/ Deactivate(r)
               \/ VerifyActive(r) \/ VerifyUsed(r) \/ VerifyUnknown(r)
               \/ CheckAccount(r) \/ Rotate(r) \/ Issue(r)
               \/ ListMembers(r) \/ DeleteMembers(r) \/ Crash(r)
        PROVE  RaceInv'
    <2>1. CASE Login(r)
      BY <2>1 DEF Login, Begin
    <2>2. CASE Refresh(r)
      BY <2>2 DEF Refresh, Begin, Valid, LiveOf, Live
    <2>3. CASE Logout(r)
      BY <2>3 DEF Logout, Valid
    <2>4. CASE LogoutAll(r)
      BY <2>4 DEF LogoutAll, Begin
    <2>5. CASE Deactivate(r)
      BY <2>5 DEF Deactivate
    <2>6. CASE VerifyActive(r)
      BY <2>6 DEF VerifyActive, Goto, Live
    <2>7. CASE VerifyUsed(r)
      BY <2>7 DEF VerifyUsed, Goto
    <2>8. CASE VerifyUnknown(r)
      BY <2>8 DEF VerifyUnknown, End
    <2>9. CASE CheckAccount(r)
      BY <2>9 DEF CheckAccount, Goto
    <2>10. CASE Rotate(r)
      BY <2>10, Clockwork DEF Rotate, Goto
    <2>11. CASE Issue(r)
      BY <2>11, Clockwork DEF Issue, Save, Members, End
    <2>12. CASE ListMembers(r)
      BY <2>12 DEF ListMembers, Members
    <2>13. CASE DeleteMembers(r)
      BY <2>13 DEF DeleteMembers, End
    <2>14. CASE Crash(r)
      BY <2>14 DEF Crash, End
    <2> QED BY <1>2, <2>1, <2>2, <2>3, <2>4, <2>5, <2>6, <2>7, <2>8, <2>9, <2>10, <2>11, <2>12, <2>13, <2>14
  <1>3. CASE UNCHANGED vars
    BY <1>3 DEF vars
  <1> QED BY <1>1, <1>2, <1>3 DEF Next

(* Every interleaving of the handlers keeps RaceInv. *)
LEMMA RaceInvariant == Spec => [](TypeOK /\ RaceInv)
  <1>1. Init => TypeOK
    BY DEF Init, TypeOK, Step
  <1>2. Init => RaceInv
    BY DEF Init, RaceInv, StaleTokenYieldsNothing, IndexNamesOwnTokens, MarkCoversToken
  <1> QED BY <1>1, <1>2, TypeStep, RaceStep, PTL DEF Spec

(* No race brings a rotated token back to life. *)
THEOREM RotationIsFinal == Spec => []ConsumedStaysDead
  <1>1. TypeOK /\ RaceInv => ConsumedStaysDead
    BY DEF TypeOK, RaceInv, ConsumedStaysDead, Live
  <1> QED BY <1>1, RaceInvariant, PTL

(* No race turns a token that was dead on arrival into a new session. *)
THEOREM DeadTokensStayUseless == Spec => []StaleTokenYieldsNothing
  <1>1. RaceInv => StaleTokenYieldsNothing
    BY DEF RaceInv
  <1> QED BY <1>1, RaceInvariant, PTL

(* revoke_all names tokens of its own user only. *)
THEOREM RevocationStaysWithUser == Spec => []IndexNamesOwnTokens
  <1>1. RaceInv => IndexNamesOwnTokens
    BY DEF RaceInv
  <1> QED BY <1>1, RaceInvariant, PTL

(* Reuse detection outlasts the token up to its last second. *)
THEOREM ReuseIsDetectable == Spec => []MarkCoversToken
  <1>1. RaceInv => MarkCoversToken
    BY DEF RaceInv
  <1> QED BY <1>1, RaceInvariant, PTL

-----------------------------------------------------------------------------
(* One request at a time. *)
OneAtATime == \A r, s \in Request : r = s

(***************************************************************************)
(* With one request at a time, each handler keeps what the races of        *)
(* refresh, logout and revoke_all can break (SequentialInv).               *)
(***************************************************************************)
LEMMA SequentialStep ==
    ASSUME OneAtATime
    PROVE  TypeOK /\ TypeOK' /\ RaceInv /\ SequentialInv /\ [Next]_vars => SequentialInv'
  <1> SUFFICES ASSUME TypeOK, TypeOK', RaceInv, SequentialInv, [Next]_vars
               PROVE  SequentialInv'
    OBVIOUS
  <1> USE DEF OneAtATime, TypeOK, Step, redis, claims, local, history, Live, LiveOf,
              RaceInv, IndexNamesOwnTokens, SequentialInv, OneTimeUse,
              LoggedOutIsNotConsumed
  <1>1. CASE Tick
    BY <1>1 DEF Tick
  <1>2. ASSUME NEW r \in Request,
               \/ Login(r) \/ Refresh(r) \/ Logout(r) \/ LogoutAll(r) \/ Deactivate(r)
               \/ VerifyActive(r) \/ VerifyUsed(r) \/ VerifyUnknown(r)
               \/ CheckAccount(r) \/ Rotate(r) \/ Issue(r)
               \/ ListMembers(r) \/ DeleteMembers(r) \/ Crash(r)
        PROVE  SequentialInv'
    <2>1. CASE Login(r)
      BY <2>1 DEF Login, Begin
    <2>2. CASE Refresh(r)
      BY <2>2 DEF Refresh, Begin, Valid
    <2>3. CASE Logout(r)
      BY <2>3 DEF Logout, Valid
    <2>4. CASE LogoutAll(r)
      BY <2>4 DEF LogoutAll, Begin
    <2>5. CASE Deactivate(r)
      BY <2>5 DEF Deactivate
    <2>6. CASE VerifyActive(r)
      BY <2>6 DEF VerifyActive, Goto
    <2>7. CASE VerifyUsed(r)
      BY <2>7 DEF VerifyUsed, Goto
    <2>8. CASE VerifyUnknown(r)
      BY <2>8 DEF VerifyUnknown, End
    <2>9. CASE CheckAccount(r)
      BY <2>9 DEF CheckAccount, Goto
    <2>10. CASE Rotate(r)
      BY <2>10, Clockwork DEF Rotate, Goto
    <2>11. CASE Issue(r)
      <3>1. PICK t \in Token : /\ owner[t] = NoUser
                              /\ owner' = [owner EXCEPT ![t] = user[r]]
                              /\ parent' = [parent EXCEPT ![t] = tok[r]]
                              /\ Save(user[r], t)
        BY <2>11 DEF Issue
      <3>2. /\ pc[r] = "issue" /\ End(r)
            /\ UNCHANGED <<now, active, revoked, used>>
        BY <2>11, <3>1 DEF Issue, Save
      <3>3. user[r] \in User /\ live[t] = 0 /\ used[t] = 0
        BY <3>1, <3>2
      <3>4. \A s \in Token : s # t => owner'[s] = owner[s] /\ live'[s] = live[s] /\ parent'[s] = parent[s]
        BY <3>1 DEF Save
      <3>5. owner'[t] = user[r] /\ parent'[t] = tok[r] /\ live'[t] = now + TTL * Second
        BY <3>1 DEF Save
      <3>6. \A s \in Request : pc'[s] = "idle" /\ before'[s] = {}
        BY <3>2 DEF End
      <3>7. \A s \in Token : parent'[s] # NoToken => used'[parent'[s]] # 0
        <4>1. tok[r] # NoToken => used[tok[r]] # 0
          BY <3>2
        <4>2. \A s \in Token : parent[s] # NoToken => used[parent[s]] # 0
          OBVIOUS
        <4>3. used' = used
          BY <3>2
        <4>4. \A s \in Token : parent'[s] = parent[s] \/ parent'[s] = tok[r]
          BY <3>4, <3>5
        <4> HIDE DEF TypeOK, RaceInv, SequentialInv
        <4> QED BY <4>1, <4>2, <4>3, <4>4
      <3>8. \A s \in revoked' : live'[s] = 0 /\ owner'[s] # NoUser
        BY <3>1, <3>2, <3>4
      <3>9. TTL * Second \in Nat /\ \A s \in Token : live[s] <= now + TTL * Second
        BY Lifetime
      <3>10. \A s \in Token : live'[s] <= now' + TTL * Second
        <4> SUFFICES ASSUME NEW s \in Token PROVE live'[s] <= now + TTL * Second
          BY <3>2
        <4>1. CASE s = t
          BY <4>1, <3>5, Lifetime
        <4>2. CASE s # t
          BY <4>2, <3>4, <3>9
        <4> QED BY <4>1, <4>2
      <3>11. \A s \in Token : live'[s] > now' =>
              s \in index'[owner'[s]] /\ live'[s] <= indexTill'[owner'[s]]
        <4> SUFFICES ASSUME NEW s \in Token, live'[s] > now'
                     PROVE  s \in index'[owner'[s]] /\ live'[s] <= indexTill'[owner'[s]]
          OBVIOUS
        <4>1. CASE s = t
          BY <4>1, <3>1, <3>3, <3>5 DEF Save
        <4>2. CASE s # t
          <5>1. Live(s) /\ owner[s] \in User
            BY <4>2, <3>2, <3>4
          <5>2. s \in Members(owner[s]) /\ live[s] <= indexTill[owner[s]] /\ owner'[s] = owner[s]
            BY <4>2, <5>1, <3>4 DEF Members
          <5>3. s \in index'[owner[s]]
            BY <3>1, <5>1, <5>2 DEF Save
          <5>4. live[s] <= indexTill'[owner[s]]
            BY <3>1, <5>1, <5>2, <3>9 DEF Save
          <5> QED
            BY <4>2, <5>2, <5>3, <5>4, <3>4
        <4> QED BY <4>1, <4>2
      <3>12. OneTimeUse'
        <4>1. \A s \in Token : tok[r] # NoToken => parent[s] # tok[r]
          BY <3>2
        <4> QED BY <4>1, <3>4, <3>5
      <3>13. LoggedOutIsNotConsumed'
        BY <3>2
      <3>14. \A s \in Token : parent'[s] # NoToken => owner'[s] # NoUser
        BY <3>3, <3>4, <3>5
      <3> QED BY <3>6, <3>7, <3>8, <3>9, <3>10, <3>11, <3>12, <3>13, <3>14
    <2>12. CASE ListMembers(r)
      BY <2>12 DEF ListMembers, Members
    <2>13. CASE DeleteMembers(r)
      <3>1. \A s \in Token : live'[s] = live[s] \/ live'[s] = 0
        BY <2>13 DEF DeleteMembers
      <3>2. /\ now' = now /\ owner' = owner /\ used' = used /\ parent' = parent
            /\ \A s \in Request : pc'[s] = "idle" /\ before'[s] = {}
            /\ revoked' \subseteq revoked \union snap[r]
            /\ \A t \in snap[r] : live'[t] = 0
        BY <2>13 DEF DeleteMembers, End
      <3>3. \A t \in revoked' : live'[t] = 0 /\ owner'[t] # NoUser /\ used'[t] = 0
        BY <2>13, <3>1, <3>2 DEF DeleteMembers
      <3>4. ASSUME NEW t \in Token, live'[t] > now'
            PROVE  t \in index'[owner'[t]] /\ live'[t] <= indexTill'[owner'[t]]
        <4>1. Live(t) /\ owner[t] \in User /\ t \notin snap[r]
          BY <3>1, <3>2, <3>4
        <4>2. owner[t] # user[r]
          BY <2>13, <4>1 DEF DeleteMembers
        <4> QED BY <2>13, <3>1, <3>2, <3>4, <4>1, <4>2 DEF DeleteMembers
      <3>5. \A t \in Token : live'[t] <= now' + TTL * Second
        BY <3>1, <3>2, Lifetime
      <3> QED BY <3>2, <3>3, <3>4, <3>5
    <2>14. CASE Crash(r)
      BY <2>14 DEF Crash, End
    <2> QED BY <1>2, <2>1, <2>2, <2>3, <2>4, <2>5, <2>6, <2>7, <2>8, <2>9, <2>10, <2>11, <2>12, <2>13, <2>14
  <1>3. CASE UNCHANGED vars
    BY <1>3 DEF vars
  <1> QED BY <1>1, <1>2, <1>3 DEF Next

(* One request at a time: SequentialInv holds in every behaviour. *)
LEMMA SequentialInvariant ==
    ASSUME OneAtATime
    PROVE  Spec => [](TypeOK /\ RaceInv /\ SequentialInv)
  <1>1. Init => SequentialInv
    <2> SUFFICES ASSUME Init PROVE SequentialInv
      OBVIOUS
    <2>1. /\ \A t \in Token : live[t] = 0 /\ parent[t] = NoToken
          /\ \A r \in Request : pc[r] = "idle" /\ before[r] = {}
          /\ revoked = {} /\ now = 0
      BY DEF Init
    <2> QED BY <2>1, Lifetime DEF SequentialInv, OneTimeUse, LoggedOutIsNotConsumed, Live
  <1> QED BY <1>1, RaceInvariant, SequentialStep, PTL DEF Spec

(* Requests that do not overlap: one rotation to a token. *)
THEOREM OneTimeUseHolds ==
    ASSUME OneAtATime
    PROVE  Spec => []OneTimeUse
  <1>1. SequentialInv => OneTimeUse
    BY DEF SequentialInv
  <1> QED BY <1>1, SequentialInvariant, PTL

(* Requests that do not overlap: a logged-out token is never taken for stolen. *)
THEOREM LogoutLeavesNoMark ==
    ASSUME OneAtATime
    PROVE  Spec => []LoggedOutIsNotConsumed
  <1>1. SequentialInv => LoggedOutIsNotConsumed
    BY DEF SequentialInv
  <1> QED BY <1>1, SequentialInvariant, PTL

(* Requests that do not overlap: the index misses no live token. *)
THEOREM IndexIsComplete ==
    ASSUME OneAtATime
    PROVE  Spec => []IndexCoversLive
  <1>1. TypeOK /\ SequentialInv => IndexCoversLive
    BY DEF TypeOK, SequentialInv, IndexCoversLive, LiveOf, Live, Members
  <1> QED BY <1>1, SequentialInvariant, PTL

(* Requests that do not overlap: revoke_all ends every session it was meant for. *)
THEOREM RevokeAllEndsAll ==
    ASSUME OneAtATime
    PROVE  Spec => RevokeAllIsComplete
  <1>1. TypeOK /\ SequentialInv /\ [Next]_vars =>
          [\A r \in Request : DeleteMembers(r) => \A t \in before[r] : live'[t] <= now]_vars
    <2> SUFFICES ASSUME TypeOK, SequentialInv, NEW r \in Request, DeleteMembers(r),
                        NEW t \in before[r]
                 PROVE  live'[t] <= now
      OBVIOUS
    <2>1. t \in Token /\ owner[t] = user[r]
      BY DEF TypeOK, SequentialInv
    <2>2. CASE t \in snap[r]
      BY <2>1, <2>2 DEF DeleteMembers, TypeOK
    <2>3. CASE t \notin snap[r]
      BY <2>1, <2>3 DEF DeleteMembers, TypeOK, SequentialInv, LiveOf, Live
    <2> QED BY <2>2, <2>3
  <1> QED BY <1>1, SequentialInvariant, PTL DEF Spec, RevokeAllIsComplete

-----------------------------------------------------------------------------
(* The tokens' states as TokenLife reads them off. *)
States == [t \in Token |-> Status(t)]

(* A step that leaves the keys of the tokens alone leaves their states alone. *)
LEMMA StatesUnchanged ==
    ASSUME UNCHANGED <<live, used, owner, parent>>
    PROVE  UNCHANGED Life!life
  BY DEF Life!life, Status

(* A change of one token's keys moves that token alone. *)
LEMMA StatesExcept ==
    ASSUME NEW t \in Token,
           \A s \in Token \ {t} :
              owner'[s] = owner[s] /\ used'[s] = used[s] /\ live'[s] = live[s]
    PROVE  States' = [States EXCEPT ![t] = Status(t)']
  BY DEF States, Status

(***************************************************************************)
(* One request at a time: every step of a handler opens, spends, succeeds  *)
(* or closes tokens as TokenLife may, or changes none.                     *)
(***************************************************************************)
LEMMA LifeStep ==
    ASSUME OneAtATime, TypeOK, RaceInv, SequentialInv, [Next]_vars
    PROVE  [Life!LifeNext]_(Life!life)
  <1> USE DEF TypeOK, Step, redis, claims, local, history
  <1>1. CASE Tick
    BY <1>1, StatesUnchanged DEF Tick
  <1>2. ASSUME NEW r \in Request,
               \/ Login(r) \/ Refresh(r) \/ Logout(r) \/ LogoutAll(r) \/ Deactivate(r)
               \/ VerifyActive(r) \/ VerifyUsed(r) \/ VerifyUnknown(r)
               \/ CheckAccount(r) \/ Rotate(r) \/ Issue(r)
               \/ ListMembers(r) \/ DeleteMembers(r) \/ Crash(r)
        PROVE  [Life!LifeNext]_(Life!life)
    <2>1. CASE Login(r) \/ Refresh(r) \/ LogoutAll(r)
      BY <2>1, StatesUnchanged DEF Login, Refresh, LogoutAll, Begin
    <2>2. CASE Deactivate(r) \/ ListMembers(r) \/ VerifyUnknown(r) \/ Crash(r)
      BY <2>2, StatesUnchanged DEF Deactivate, ListMembers, VerifyUnknown, Crash
    <2>3. CASE VerifyActive(r) \/ VerifyUsed(r) \/ CheckAccount(r)
      BY <2>3, StatesUnchanged DEF VerifyActive, VerifyUsed, CheckAccount, Goto
    <2>4. CASE Rotate(r)
      <3>1. PICK t \in Token : t = tok[r]
        BY <2>4 DEF Rotate
      <3>2. /\ live[t] # 0 /\ used[t] = 0 /\ owner[t] # NoUser
            /\ used'[t] # 0 /\ owner' = owner /\ parent' = parent
            /\ \A s \in Token \ {t} : used'[s] = used[s] /\ live'[s] = live[s]
        BY <2>4, <3>1, Clockwork DEF Rotate, Goto, RaceInv, SequentialInv
      <3>3. Status(t) = "open" /\ Status(t)' = "spent"
        BY <3>2 DEF Status
      <3>4. States' = [States EXCEPT ![t] = "spent"]
        BY <3>2, <3>3, StatesExcept
      <3>5. Life!Spend(t)
        BY <3>2, <3>3, <3>4 DEF Life!Spend, States
      <3> QED BY <3>5 DEF Life!LifeNext
    <2>5. CASE Issue(r)
      <3>1. PICK t \in Token : /\ owner[t] = NoUser
                              /\ owner' = [owner EXCEPT ![t] = user[r]]
                              /\ parent' = [parent EXCEPT ![t] = tok[r]]
                              /\ Save(user[r], t)
        BY <2>5 DEF Issue
      <3>2. /\ pc[r] = "issue" /\ user[r] \in User /\ used[t] = 0
            /\ tok[r] \in Token \union {NoToken}
        BY <2>5, <3>1 DEF Issue, RaceInv
      <3>3. /\ \A s \in Token \ {t} :
                  owner'[s] = owner[s] /\ used'[s] = used[s] /\ live'[s] = live[s]
            /\ owner'[t] # NoUser /\ used'[t] = 0 /\ live'[t] # 0
        <4>1. now + TTL * Second # 0
          BY Lifetime
        <4> QED BY <4>1, <3>1, <3>2 DEF Save
      <3>4. Status(t) = "fresh" /\ Status(t)' = "open"
        BY <3>1, <3>3 DEF Status
      <3>5. States' = [States EXCEPT ![t] = "open"]
        BY <3>3, <3>4, StatesExcept
      <3>6. CASE tok[r] = NoToken
        <4>1. parent' = parent
          BY <3>1, <3>6, <3>2 DEF SequentialInv, RaceInv
        <4> QED BY <4>1, <3>4, <3>5 DEF Life!LifeNext, Life!Open, States
      <3>7. CASE tok[r] # NoToken
        <4>1. tok[r] \in Token /\ used[tok[r]] # 0 /\ owner[tok[r]] # NoUser
              /\ \A s \in Token : parent[s] # tok[r]
          BY <2>5, <3>2, <3>7 DEF SequentialInv, RaceInv
        <4>2. Status(tok[r]) = "spent"
          BY <4>1 DEF Status
        <4>3. Life!Succeed(tok[r], t)
          BY <4>1, <4>2, <3>1, <3>4, <3>5 DEF Life!Succeed, States
        <4> QED BY <4>1, <4>3 DEF Life!LifeNext
      <3> QED BY <3>6, <3>7
    <2>6. CASE Logout(r)
      <3>1. PICK t \in Token : /\ Valid(t)
                              /\ live' = [live EXCEPT ![t] = 0]
                              /\ UNCHANGED <<used, owner, parent>>
        BY <2>6 DEF Logout
      <3> DEFINE S == {s \in {t} : Status(s) = "open"}
      <3>2. States' = [s \in Token |-> IF s \in S THEN "closed" ELSE States[s]]
        BY <3>1 DEF States, Status, Valid
      <3>3. Life!Close(S)
        BY <3>1, <3>2 DEF Life!Close, States
      <3> QED BY <3>3 DEF Life!LifeNext
    <2>7. CASE DeleteMembers(r)
      <3> DEFINE S == {s \in snap[r] : Status(s) = "open"}
      <3>1. UNCHANGED <<used, owner, parent>>
        BY <2>7 DEF DeleteMembers
      <3>2. S \subseteq Token
        OBVIOUS
      <3>3. States' = [s \in Token |-> IF s \in S THEN "closed" ELSE States[s]]
        BY <2>7, <3>1 DEF DeleteMembers, States, Status
      <3>4. Life!Close(S)
        BY <3>1, <3>2, <3>3 DEF Life!Close, States
      <3> QED BY <3>2, <3>4 DEF Life!LifeNext
    <2> QED BY <1>2, <2>1, <2>2, <2>3, <2>4, <2>5, <2>6, <2>7
  <1>3. CASE UNCHANGED vars
    BY <1>3, StatesUnchanged DEF vars
  <1> QED BY <1>1, <1>2, <1>3 DEF Next

(***************************************************************************)
(* Requests that do not overlap: the store implements TokenLife.            *)
(***************************************************************************)
THEOREM Implements ==
    ASSUME OneAtATime
    PROVE  Spec => ImplementsTokenLife
  <1>1. Init => Life!LifeInit
    BY DEF Init, Life!LifeInit, Status
  <1>2. TypeOK /\ RaceInv /\ SequentialInv /\ [Next]_vars => [Life!LifeNext]_(Life!life)
    BY LifeStep
  <1> QED BY <1>1, <1>2, SequentialInvariant, PTL DEF Spec, ImplementsTokenLife, Life!LifeSpec

-----------------------------------------------------------------------------
(* LoginRateLimit *)

HIDE AuthAssumption

(* The window is a positive number of ticks.                                  *)
LEMMA SpanIsPositive ==
    Span \in Nat \ {0} /\ Age = 0..(Span - 1) /\ Limit \in Nat \ {0}
  BY RateAssumption DEF Span, Age

(* What a hit does to the counter it is at.                                   *)
LEMMA HitEffect ==
    ASSUME RateTypeOK, NEW r \in Attempt, Hit(r)
    PROVE  /\ key[r] \in Key
           /\ count' = [count EXCEPT ![key[r]] = IF @ > Limit THEN @ ELSE @ + 1]
           /\ ttl' = [ttl EXCEPT ![key[r]] = IF count[key[r]] = 0 THEN Span ELSE @]
           /\ log' = [log EXCEPT ![key[r]] =
                        [a \in Age |-> IF count[key[r]] < Limit THEN @[a] + 1 ELSE @[a]]]
  BY DEF RateTypeOK, AttemptsTyped, Hit, Allowed, Expire

(* An attempt that goes on, or ends, leaves the attempts well typed.          *)
LEMMA ProceedTyped ==
    ASSUME AttemptsTyped, NEW r \in Attempt, stage[r] # "idle",
           NEW m \in {"hit", "ttl", "password", "reset"}, NEW k \in Key \union {NoKey},
           m # "password" => k \in Key,
           Proceed(r, m, k)
    PROVE  AttemptsTyped'
  <1>1. stage' \in [Attempt -> {"idle", "hit", "ttl", "password", "reset"}]
        /\ key' \in [Attempt -> Key \union {NoKey}]
    BY DEF Proceed, AttemptsTyped
  <1>2. \A q \in Attempt : q # r => stage'[q] = stage[q] /\ key'[q] = key[q]
    BY DEF Proceed, AttemptsTyped
  <1>3. stage'[r] = m /\ key'[r] = k
    BY DEF Proceed, AttemptsTyped
  <1> QED BY <1>1, <1>2, <1>3 DEF Proceed, AttemptsTyped

LEMMA FinishTyped ==
    ASSUME AttemptsTyped, NEW r \in Attempt, Finish(r)
    PROVE  AttemptsTyped'
  <1>1. /\ stage' \in [Attempt -> {"idle", "hit", "ttl", "password", "reset"}]
        /\ key' \in [Attempt -> Key \union {NoKey}]
        /\ from' \in [Attempt -> Ip \union {NoKey}]
        /\ who' \in [Attempt -> Email \union {NoKey}]
    BY DEF Finish, AttemptsTyped
  <1>2. \A q \in Attempt :
          q # r => /\ stage'[q] = stage[q] /\ key'[q] = key[q]
                   /\ from'[q] = from[q] /\ who'[q] = who[q]
    BY DEF Finish, AttemptsTyped
  <1>3. stage'[r] = "idle"
    BY DEF Finish, AttemptsTyped
  <1> QED BY <1>1, <1>2, <1>3 DEF AttemptsTyped

(* Types: proved per action, the counters apart from the attempts.           *)
LEMMA RateTypeStep == RateTypeOK /\ [RateNext]_rateVars => RateTypeOK'
  <1> SUFFICES ASSUME CountersTyped, AttemptsTyped, [RateNext]_rateVars
               PROVE  CountersTyped' /\ AttemptsTyped'
    BY DEF RateTypeOK
  <1> USE SpanIsPositive
  <1>1. CASE Elapse
    <2>1. ttl' \in [Key -> 0..Span]
      BY <1>1 DEF Elapse, CountersTyped
    <2>2. count' \in [Key -> 0..(Limit + 1)]
      BY <1>1 DEF Elapse, CountersTyped
    <2>3. log' \in [Key -> [Age -> Nat]]
      <3> SUFFICES ASSUME NEW k \in Key, NEW a \in Age
                   PROVE  (IF a = 0 THEN 0 ELSE log[k][a - 1]) \in Nat
        BY <1>1 DEF Elapse
      <3> a # 0 => a - 1 \in Age
        OBVIOUS
      <3> QED BY DEF CountersTyped
    <2>4. AttemptsTyped'
      BY <1>1 DEF Elapse, AttemptsTyped
    <2> QED BY <2>1, <2>2, <2>3, <2>4 DEF CountersTyped
  <1>2. ASSUME NEW r \in Attempt, BeginLogin(r) PROVE CountersTyped' /\ AttemptsTyped'
    <2>1. PICK e \in Email, i \in Ip :
            /\ who' = [who EXCEPT ![r] = e]
            /\ key' = [key EXCEPT ![r] = e]
            /\ from' = [from EXCEPT ![r] = i]
      BY <1>2 DEF BeginLogin
    <2>2. stage' = [stage EXCEPT ![r] = "hit"]
      BY <1>2 DEF BeginLogin
    <2>3. AttemptsTyped'
      BY <2>1, <2>2 DEF AttemptsTyped, Key
    <2>4. CountersTyped'
      BY <1>2 DEF BeginLogin, CountersTyped
    <2> QED BY <2>3, <2>4
  <1>3. ASSUME NEW r \in Attempt, Hit(r) PROVE CountersTyped' /\ AttemptsTyped'
    <2> DEFINE k == key[r]
    <2>1. /\ k \in Key
          /\ count' = [count EXCEPT ![k] = IF @ > Limit THEN @ ELSE @ + 1]
          /\ ttl' = [ttl EXCEPT ![k] = IF count[k] = 0 THEN Span ELSE @]
          /\ log' = [log EXCEPT ![k] =
                       [a \in Age |-> IF count[k] < Limit THEN @[a] + 1 ELSE @[a]]]
      BY <1>3, HitEffect DEF RateTypeOK
    <2>2. from[r] \in Ip /\ stage[r] = "hit"
      BY <1>3 DEF AttemptsTyped, Hit
    <2>3. \/ Proceed(r, "hit", from[r])
          \/ Proceed(r, "password", NoKey)
          \/ Proceed(r, "ttl", k)
      BY <1>3 DEF Hit
    <2> HIDE DEF k
    <2>4. count' \in [Key -> 0..(Limit + 1)]
      BY <2>1 DEF CountersTyped
    <2>5. ttl' \in [Key -> 0..Span]
      BY <2>1 DEF CountersTyped
    <2>6. log' \in [Key -> [Age -> Nat]]
      <3>1. [a \in Age |-> IF count[k] < Limit THEN log[k][a] + 1 ELSE log[k][a]]
              \in [Age -> Nat]
        BY <2>1 DEF CountersTyped
      <3> QED BY <2>1, <3>1 DEF CountersTyped
    <2>7. AttemptsTyped'
      <3> from[r] \in Key
        BY <2>2 DEF Key
      <3> QED BY <2>1, <2>2, <2>3, ProceedTyped
    <2> QED BY <2>4, <2>5, <2>6, <2>7 DEF CountersTyped
  <1>4. ASSUME NEW r \in Attempt, Refuse(r) \/ PasswordWrong(r) \/ CutShort(r)
        PROVE  CountersTyped' /\ AttemptsTyped'
    <2>1. Finish(r) /\ UNCHANGED <<count, ttl, log>>
      BY <1>4 DEF Refuse, PasswordWrong, CutShort
    <2> QED BY <2>1, FinishTyped DEF CountersTyped
  <1>5. ASSUME NEW r \in Attempt, PasswordRight(r) PROVE CountersTyped' /\ AttemptsTyped'
    <2>1. stage[r] = "password" /\ Proceed(r, "reset", who[r]) /\ UNCHANGED <<count, ttl, log>>
      BY <1>5 DEF PasswordRight
    <2>2. who[r] \in Key
      BY <2>1 DEF AttemptsTyped, Key
    <2> QED BY <2>1, <2>2, ProceedTyped DEF CountersTyped
  <1>6. ASSUME NEW r \in Attempt, Reset(r) PROVE CountersTyped' /\ AttemptsTyped'
    <2>1. CountersTyped'
      <3>1. NoLog \in [Age -> Nat]
        BY DEF NoLog
      <3>2. PICK k : /\ count' = [count EXCEPT ![k] = 0]
                     /\ ttl' = [ttl EXCEPT ![k] = 0]
                     /\ log' = [log EXCEPT ![k] = NoLog]
        BY <1>6 DEF Reset
      <3> 0 \in 0..(Limit + 1) /\ 0 \in 0..Span
        OBVIOUS
      <3>3. count' \in [Key -> 0..(Limit + 1)] BY <3>2 DEF CountersTyped
      <3>4. ttl' \in [Key -> 0..Span] BY <3>2 DEF CountersTyped
      <3>5. log' \in [Key -> [Age -> Nat]] BY <3>1, <3>2 DEF CountersTyped
      <3> QED BY <3>3, <3>4, <3>5 DEF CountersTyped
    <2>2. stage[r] = "reset" /\ from[r] \in Key
      BY <1>6 DEF Reset, AttemptsTyped, Key
    <2>3. Proceed(r, "reset", from[r]) \/ Finish(r)
      BY <1>6 DEF Reset
    <2> QED BY <2>1, <2>2, <2>3, ProceedTyped, FinishTyped
  <1>7. CASE UNCHANGED rateVars
    BY <1>7 DEF rateVars, CountersTyped, AttemptsTyped
  <1> QED BY <1>1, <1>2, <1>3, <1>4, <1>5, <1>6, <1>7 DEF RateNext

(* Every state of the rate limiter is well typed.                             *)
THEOREM RateTypeCorrect == RateSpec => []RateTypeOK
  <1>1. RateInit => RateTypeOK
    BY SpanIsPositive DEF RateInit, RateTypeOK, CountersTyped, AttemptsTyped, NoLog
  <1> QED BY <1>1, RateTypeStep, PTL DEF RateSpec

-----------------------------------------------------------------------------
(* A step that leaves a counter, its time and its log alone keeps its window. *)
LEMMA SameWindow ==
    ASSUME NEW k \in Key, WindowInv,
           count'[k] = count[k], ttl'[k] = ttl[k], log'[k] = log[k]
    PROVE  /\ \A a, b \in Age : a <= b => log'[k][a] <= log'[k][b]
           /\ IF count'[k] = 0
              THEN ttl'[k] = 0 /\ log'[k][0] = 0 /\ Recent(k)' <= Limit
              ELSE \E a \in Age : CountedSince(k, a)'
  BY DEF WindowInv, CountedSince, Recent

(* The window's invariant, kept by time, by a hit and by a reset.             *)
LEMMA WindowStep ==
    RateTypeOK /\ WindowInv /\ [RateNext]_rateVars => WindowInv'
  <1> SUFFICES ASSUME RateTypeOK, WindowInv, [RateNext]_rateVars, NEW k \in Key
               PROVE  /\ \A a, b \in Age : a <= b => log'[k][a] <= log'[k][b]
                      /\ IF count'[k] = 0
                         THEN ttl'[k] = 0 /\ log'[k][0] = 0 /\ Recent(k)' <= Limit
                         ELSE \E a \in Age : CountedSince(k, a)'
    BY DEF WindowInv
  <1> USE SpanIsPositive
  <1>1. /\ count[k] \in Nat
        /\ ttl[k] \in Nat
        /\ \A a \in Age : log[k][a] \in Nat
        /\ 0 \in Age /\ Span - 1 \in Age
    BY DEF RateTypeOK, CountersTyped, AttemptsTyped
  <1>2. Recent(k) \in Nat
    BY <1>1 DEF Recent
  <1>3. CASE Elapse
    <2>1. /\ ttl'[k] = (IF ttl[k] > 0 THEN ttl[k] - 1 ELSE 0)
          /\ count'[k] = (IF ttl[k] = 1 THEN 0 ELSE count[k])
          /\ log'[k] = [a \in Age |-> IF a = 0 THEN 0 ELSE log[k][a - 1]]
      BY <1>3 DEF Elapse
    <2>2. \A a \in Age : a # 0 => a - 1 \in Age
      OBVIOUS
    <2>3. log'[k][0] = 0 /\ \A a \in Age : a # 0 => log'[k][a] = log[k][a - 1]
      BY <2>1
    <2>4. \A a, b \in Age : a <= b => log'[k][a] <= log'[k][b]
      <3> SUFFICES ASSUME NEW a \in Age, NEW b \in Age, a <= b
                   PROVE  log'[k][a] <= log'[k][b]
        OBVIOUS
      <3>1. CASE a = 0
        <4>1. log'[k][b] \in Nat
          <5>1. CASE b = 0 BY <5>1, <2>3
          <5>2. CASE b # 0 BY <5>2, <2>2, <2>3, <1>1
          <5> QED BY <5>1, <5>2
        <4> QED BY <3>1, <4>1, <2>3
      <3>2. CASE a # 0
        <4>1. b # 0 /\ a - 1 \in Age /\ b - 1 \in Age /\ a - 1 <= b - 1
          BY <3>2
        <4> QED BY <4>1, <3>2, <2>3 DEF WindowInv
      <3> QED BY <3>1, <3>2
    <2>5. Recent(k)' <= Recent(k) /\ Recent(k)' \in Nat
      <3>1. CASE Span = 1 BY <3>1, <2>3, <1>1 DEF Recent
      <3>2. CASE Span # 1
        <4>1. Span - 2 \in Age /\ Span - 2 <= Span - 1 /\ (Span - 1) - 1 = Span - 2
              /\ Span - 1 # 0
          BY <3>2
        <4>2. log[k][Span - 2] <= log[k][Span - 1]
          BY <4>1, <1>1 DEF WindowInv
        <4> QED BY <4>1, <4>2, <2>3, <1>1 DEF Recent
      <3> QED BY <3>1, <3>2
    <2>6. CASE count[k] = 0
      <3>1. ttl[k] = 0 /\ Recent(k) <= Limit BY <2>6 DEF WindowInv
      <3>2. ttl'[k] = 0 /\ count'[k] = 0
        BY <3>1, <2>6, <2>1
      <3>3. Recent(k)' <= Limit
        BY <3>1, <2>5, <1>2
      <3> QED BY <3>2, <3>3, <2>3, <2>4
    <2>7. CASE count[k] # 0
      <3>1. PICK a \in Age : CountedSince(k, a)
        BY <2>7 DEF WindowInv
      <3>2. /\ a + ttl[k] = Span /\ ttl[k] # 0
            /\ log[k][a] <= count[k] /\ log[k][a] <= Limit
            /\ Recent(k) <= log[k][a] + Limit
        BY <3>1, <1>1 DEF CountedSince
      <3>3. CASE ttl[k] = 1
        <4>1. Recent(k) = log[k][a]
          BY <3>2, <3>3 DEF Recent
        <4> QED BY <4>1, <3>2, <3>3, <2>1, <2>3, <2>4, <2>5, <1>1, <1>2
      <3>4. CASE ttl[k] # 1
        <4>1. a + 1 \in Age /\ a + 1 # 0 /\ (a + 1) - 1 = a /\ (a + 1) + ttl'[k] = Span
          BY <3>2, <3>4, <2>1, <1>1
        <4>2. log'[k][a + 1] = log[k][a]
          BY <4>1, <2>3
        <4>3. count'[k] = count[k]
          BY <3>4, <2>1
        <4>4. CountedSince(k, a + 1)'
          BY <4>1, <4>2, <4>3, <3>2, <2>5, <1>1, <1>2 DEF CountedSince
        <4> QED BY <4>1, <4>3, <4>4, <2>4, <2>7
      <3> QED BY <3>3, <3>4
    <2> QED BY <2>6, <2>7
  <1>4. ASSUME NEW r \in Attempt, Hit(r), k # key[r]
        PROVE  count'[k] = count[k] /\ ttl'[k] = ttl[k] /\ log'[k] = log[k]
    <2> DEFINE c == IF count[key[r]] > Limit THEN count[key[r]] ELSE count[key[r]] + 1
               t == IF count[key[r]] = 0 THEN Span ELSE ttl[key[r]]
               l == [a \in Age |-> IF count[key[r]] < Limit THEN log[key[r]][a] + 1
                                                            ELSE log[key[r]][a]]
    <2>1. /\ count' = [count EXCEPT ![key[r]] = c]
          /\ ttl' = [ttl EXCEPT ![key[r]] = t]
          /\ log' = [log EXCEPT ![key[r]] = l]
      BY <1>4, HitEffect
    <2> HIDE DEF c, t, l
    <2> QED BY <2>1, <1>4 DEF RateTypeOK, CountersTyped
  <1>5. ASSUME NEW r \in Attempt, Hit(r), k = key[r]
        PROVE  /\ \A a, b \in Age : a <= b => log'[k][a] <= log'[k][b]
               /\ count'[k] # 0
               /\ \E a \in Age : CountedSince(k, a)'
    <2>1. /\ count'[k] = (IF count[k] > Limit THEN count[k] ELSE count[k] + 1)
          /\ ttl'[k] = (IF count[k] = 0 THEN Span ELSE ttl[k])
          /\ \A a \in Age :
               log'[k][a] = (IF count[k] < Limit THEN log[k][a] + 1 ELSE log[k][a])
      BY <1>5, HitEffect DEF RateTypeOK, CountersTyped, AttemptsTyped
    <2>2. ASSUME NEW a \in Age, NEW b \in Age, a <= b
          PROVE  log'[k][a] <= log'[k][b]
      <3>1. log[k][a] <= log[k][b] /\ log[k][a] \in Nat /\ log[k][b] \in Nat
        BY <2>2, <1>1 DEF WindowInv
      <3>2. CASE count[k] < Limit
        <4> log'[k][a] = log[k][a] + 1 /\ log'[k][b] = log[k][b] + 1
          BY <2>1, <3>2
        <4> QED BY <3>1
      <3>3. CASE ~(count[k] < Limit)
        <4> log'[k][a] = log[k][a] /\ log'[k][b] = log[k][b]
          BY <2>1, <3>3
        <4> QED BY <3>1
      <3> QED BY <3>2, <3>3
    <2>3. count'[k] # 0
      BY <2>1, <1>1
    <2>4. CASE count[k] = 0
      <3>1. log[k][0] = 0 /\ Recent(k) <= Limit
        BY <2>4 DEF WindowInv
      <3>2. /\ ttl'[k] = Span /\ count'[k] = 1 /\ log'[k][0] = 1
            /\ Recent(k)' = Recent(k) + 1
        BY <3>1, <2>1, <2>4, <1>1 DEF Recent
      <3>3. CountedSince(k, 0)'
        BY <3>1, <3>2, <1>2 DEF CountedSince
      <3> QED BY <3>3, <2>2, <2>3, <1>1
    <2>5. CASE count[k] # 0
      <3>1. PICK a \in Age : CountedSince(k, a)
        BY <2>5 DEF WindowInv
      <3>2. /\ a + ttl[k] = Span /\ log[k][a] <= count[k] /\ log[k][a] <= Limit
            /\ Recent(k) <= log[k][a] + Limit /\ log[k][a] \in Nat
        BY <3>1, <1>1 DEF CountedSince
      <3>3. ttl'[k] = ttl[k]
        BY <2>1, <2>5
      <3>4. CASE count[k] < Limit
        <4>1. log'[k][a] = log[k][a] + 1 /\ Recent(k)' = Recent(k) + 1
          BY <3>4, <2>1, <1>1 DEF Recent
        <4>2. count'[k] = count[k] + 1
          BY <3>4, <2>1, <1>1
        <4>3. log'[k][a] <= count'[k] /\ log'[k][a] <= Limit
          BY <4>1, <4>2, <3>2, <3>4, <1>1
        <4>4. Recent(k)' <= log'[k][a] + Limit
          BY <4>1, <3>2, <1>2
        <4>5. CountedSince(k, a)'
          BY <4>3, <4>4, <3>2, <3>3 DEF CountedSince
        <4> QED BY <4>5, <2>2, <2>3
      <3>5. CASE ~(count[k] < Limit)
        <4>1. log'[k][a] = log[k][a] /\ Recent(k)' = Recent(k)
          BY <3>5, <2>1, <1>1 DEF Recent
        <4>2. count'[k] \in Nat /\ count'[k] >= count[k]
          BY <2>1, <1>1
        <4>3. CountedSince(k, a)'
          BY <4>1, <4>2, <3>2, <3>3, <1>1, <1>2 DEF CountedSince
        <4> QED BY <4>3, <2>2, <2>3
      <3> QED BY <3>4, <3>5
    <2> QED BY <2>4, <2>5
  <1>6. ASSUME NEW r \in Attempt, Reset(r), k # key[r]
        PROVE  count'[k] = count[k] /\ ttl'[k] = ttl[k] /\ log'[k] = log[k]
    BY <1>6 DEF Reset, RateTypeOK, CountersTyped, AttemptsTyped
  <1>7. ASSUME NEW r \in Attempt, Reset(r), k = key[r]
        PROVE  count'[k] = 0 /\ ttl'[k] = 0 /\ log'[k] = NoLog
    BY <1>7 DEF Reset, RateTypeOK, CountersTyped, AttemptsTyped
  <1>8. ASSUME NEW r \in Attempt, Reset(r), k = key[r]
        PROVE  /\ \A a, b \in Age : a <= b => log'[k][a] <= log'[k][b]
               /\ count'[k] = 0 /\ ttl'[k] = 0 /\ log'[k][0] = 0 /\ Recent(k)' <= Limit
    BY <1>7, <1>8, <1>1 DEF NoLog, Recent
  <1>9. ASSUME \/ UNCHANGED rateVars
               \/ \E r \in Attempt :
                    \/ BeginLogin(r) \/ Refuse(r) \/ CutShort(r)
                    \/ PasswordRight(r) \/ PasswordWrong(r)
        PROVE  UNCHANGED <<count, ttl, log>>
    BY <1>9 DEF rateVars, BeginLogin, Refuse, PasswordRight, PasswordWrong, CutShort
  <1> QED BY <1>3, <1>4, <1>5, <1>6, <1>8, <1>9, SameWindow DEF RateNext

(* The window's invariant holds in every state.                               *)
THEOREM WindowCorrect == RateSpec => []WindowInv
  <1>1. RateInit => WindowInv
    BY SpanIsPositive DEF RateInit, WindowInv, NoLog, Recent
  <1> QED BY <1>1, RateTypeCorrect, WindowStep, PTL DEF RateSpec

(* At most twice the limit in any span of the window's length, for every      *)
(* limit, window and clock (app/common/rate_limit.py, "최대 2배").            *)
THEOREM TwiceTheLimitAtMost == RateSpec => []AtMostTwiceTheLimit
  <1>1. RateTypeOK /\ WindowInv => AtMostTwiceTheLimit
    <2> SUFFICES ASSUME RateTypeOK, WindowInv, NEW k \in Key PROVE Recent(k) <= 2 * Limit
      BY DEF AtMostTwiceTheLimit
    <2> USE SpanIsPositive
    <2>1. ttl[k] \in 0..Span /\ log[k] \in [Age -> Nat] BY DEF RateTypeOK, CountersTyped, AttemptsTyped
    <2>2. Recent(k) \in Nat BY <2>1 DEF Recent
    <2>3. CASE count[k] = 0 BY <2>2, <2>3 DEF WindowInv
    <2>4. CASE count[k] # 0
      <3>1. PICK a \in Age : CountedSince(k, a)
        BY <2>4 DEF WindowInv
      <3>2. log[k][a] \in Nat BY <2>1
      <3> QED BY <2>2, <3>1, <3>2 DEF CountedSince
    <2> QED BY <2>3, <2>4
  <1> QED BY <1>1, RateTypeCorrect, WindowCorrect, PTL

-----------------------------------------------------------------------------
(* Rounding to the nearest unit does not exceed a whole number of units.      *)
LEMMA RoundedWithin ==
    ASSUME NEW n \in Nat, NEW w \in Nat, NEW s \in Nat \ {0}, n <= w * s
    PROVE  (2 * n + s) \div (2 * s) \in 0..w
  <1> DEFINE q == (2 * n + s) \div (2 * s)
  <1>1. q \in Nat /\ q * (2 * s) <= 2 * n + s
    OBVIOUS
  <1>2. q * (2 * s) <= 2 * (w * s) + s
    BY <1>1
  <1> HIDE DEF q
  <1>3. ASSUME q >= w + 1 PROVE FALSE
    <2>1. q * (2 * s) >= (w + 1) * (2 * s)
      BY <1>1, <1>3
    <2>2. (w + 1) * (2 * s) = 2 * (w * s) + 2 * s
      OBVIOUS
    <2> QED BY <1>1, <1>2, <2>1, <2>2
  <1>4. q <= w BY <1>1, <1>3
  <1> QED BY <1>1, <1>4 DEF q

(* Retry-After is a whole number of seconds from one to the window, for       *)
(* every window and clock (RateLimiter.hit).                                  *)
THEOREM RetryAfterAlwaysUsable == RateSpec => RetryAfterIsUsable
  <1>1. RateTypeOK /\ [RateNext]_rateVars =>
          [\A r \in Attempt : Refuse(r) => RetryAfter(key[r]) \in 1..Window]_rateVars
    <2> SUFFICES ASSUME RateTypeOK, NEW r \in Attempt, Refuse(r)
                 PROVE  RetryAfter(key[r]) \in 1..Window
      OBVIOUS
    <2>1. key[r] \in Key BY DEF Refuse, RateTypeOK, AttemptsTyped
    <2>2. ttl[key[r]] \in Nat /\ ttl[key[r]] <= Window * TicksPerSecond
      BY <2>1, RateAssumption DEF RateTypeOK, CountersTyped, Span
    <2>3. RedisTtl(key[r]) \in 0..Window BY <2>2, RateAssumption, RoundedWithin DEF RedisTtl
    <2> QED BY <2>3, RateAssumption DEF RetryAfter
  <1> QED BY <1>1, RateTypeCorrect, PTL DEF RateSpec, RetryAfterIsUsable

=============================================================================
