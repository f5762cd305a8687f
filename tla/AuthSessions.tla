---------------------------- MODULE AuthSessions ----------------------------
(***************************************************************************)
(* Refresh-token sessions: app/modules/auth (AuthService and the Redis      *)
(* RefreshTokenStore), with the account flag user_is_active they consult.   *)
(*                                                                          *)
(* A token is identified by its jti.  Redis keeps, with expiry times,       *)
(*     refresh:{u}:{jti}        live        the token may be used           *)
(*     refresh_index:{u}        index       the jtis of a user's tokens     *)
(*     refresh_used:{u}:{jti}   used        the token was rotated           *)
(* A request runs in a thread of its own; every step below is one Redis     *)
(* command, one MULTI/EXEC pipeline or one database read or commit, so the  *)
(* steps of two requests interleave as they do in the service.              *)
(*                                                                          *)
(* Times are ticks of a discrete clock, Second ticks to a second: Redis and *)
(* the service's arithmetic see fractions of a second, JWT does not.        *)
(***************************************************************************)
EXTENDS Naturals

CONSTANTS User, Token, Request,
          NoUser, NoToken,
          Second,       \* ticks in a second
          TTL,          \* REFRESH_TOKEN_EXPIRE_DAYS, in seconds
          Horizon       \* the clock stops here (bounds the model)

ASSUME AuthAssumption ==
    /\ NoUser \notin User
    /\ NoToken \notin Token
    /\ Second \in Nat \ {0}
    /\ TTL \in Nat \ {0}
    /\ Horizon \in Nat

VARIABLES
    now,        \* the clock
    active,     \* [User -> BOOLEAN]: user_is_active in the users table
    live,       \* [Token -> Nat]: when the active key expires, 0 if deleted
    used,       \* [Token -> Nat]: when the used mark expires, 0 if never set
    index,      \* [User -> SUBSET Token]: the user's index set
    indexTill,  \* [User -> Nat]: when the index key expires
    owner,      \* [Token -> User or NoUser]: the token's sub, once issued
    exp,        \* [Token -> Nat]: the token's exp claim
    pc,         \* [Request -> step]: what the request does next
    user,       \* [Request -> User or NoUser]: whom it serves
    tok,        \* [Request -> Token or NoToken]: the refresh token presented
    snap,       \* [Request -> SUBSET Token]: the SMEMBERS reply of revoke_all
    \* history variables, read by no action
    parent,     \* [Token -> Token or NoToken]: rotated to make this token
    before,     \* [Request -> SUBSET Token]: tokens alive when it started
    revoked     \* SUBSET Token: tokens alive until a logout deleted them

redis == <<live, used, index, indexTill>>
claims == <<owner, exp>>
local == <<pc, user, tok, snap>>
history == <<parent, before, revoked>>
vars == <<now, active, redis, claims, local, history>>

Step == {"idle", "verify", "mark", "account", "rotate", "issue", "members", "delete"}

-----------------------------------------------------------------------------
(* Redis drops a key when its time to live has run out.                     *)

Live(t) == live[t] > now
Used(t) == used[t] > now
Members(u) == IF indexTill[u] > now THEN index[u] ELSE {}

LiveOf(u) == {t \in Token : owner[t] = u /\ Live(t)}

(* decode_token: PyJWT refuses a token from its exp claim on. *)
Valid(t) == owner[t] # NoUser /\ now < exp[t]

(* The exp claim is written in whole seconds. *)
ExpClaim == ((now + TTL * Second) \div Second) * Second

(* int((exp - now).total_seconds()), then max(_, 1): whole seconds again. *)
Remaining(t) == IF exp[t] > now THEN (exp[t] - now) \div Second ELSE 0
MarkSecondsCapped(t) == IF Remaining(t) > 1 THEN 1 ELSE Remaining(t)  \* mutant: min for max
MarkSeconds(t) == IF Remaining(t) > 1 THEN Remaining(t) ELSE 1

-----------------------------------------------------------------------------
Init ==
    /\ now = 0
    /\ active = [u \in User |-> TRUE]
    /\ live = [t \in Token |-> 0]
    /\ used = [t \in Token |-> 0]
    /\ index = [u \in User |-> {}]
    /\ indexTill = [u \in User |-> 0]
    /\ owner = [t \in Token |-> NoUser]
    /\ exp = [t \in Token |-> 0]
    /\ pc = [r \in Request |-> "idle"]
    /\ user = [r \in Request |-> NoUser]
    /\ tok = [r \in Request |-> NoToken]
    /\ snap = [r \in Request |-> {}]
    /\ parent = [t \in Token |-> NoToken]
    /\ before = [r \in Request |-> {}]
    /\ revoked = {}

(* A request for user u, presenting token t, takes slot r. *)
Begin(r, step, u, t) ==
    /\ pc[r] = "idle"
    /\ pc' = [pc EXCEPT ![r] = step]
    /\ user' = [user EXCEPT ![r] = u]
    /\ tok' = [tok EXCEPT ![r] = t]
    /\ before' = [before EXCEPT ![r] = LiveOf(u)]
    /\ UNCHANGED <<snap, parent, revoked>>

Goto(r, step) ==
    /\ pc' = [pc EXCEPT ![r] = step]
    /\ UNCHANGED <<user, tok, snap, history>>

(* The request answers (or its process dies) and its slot is free again. *)
End(r) ==
    /\ pc' = [pc EXCEPT ![r] = "idle"]
    /\ user' = [user EXCEPT ![r] = NoUser]
    /\ tok' = [tok EXCEPT ![r] = NoToken]
    /\ snap' = [snap EXCEPT ![r] = {}]
    /\ before' = [before EXCEPT ![r] = {}]

-----------------------------------------------------------------------------
(* AuthService.login, from the account check on: the password was right and *)
(* the account was active when it was read.                                 *)
Login(r) ==
    \E u \in User :
        /\ active[u]
        /\ Begin(r, "issue", u, NoToken)
        /\ UNCHANGED <<now, active, redis, claims>>

Refresh(r) ==
    \E t \in Token :
        /\ Valid(t)
        /\ Begin(r, "verify", owner[t], t)
        /\ UNCHANGED <<now, active, redis, claims>>

VerifyActiveWithGrace(r) ==  \* mutant: a token just rotated is still accepted
    /\ pc[r] = "verify"
    /\ Goto(r, IF Live(tok[r]) \/ Used(tok[r]) THEN "account" ELSE "mark")
    /\ UNCHANGED <<now, active, redis, claims>>

(* RefreshTokenStore.verify, GET: a stored hash is that of the token itself,*)
(* since the service alone signs tokens and never signs a jti twice.        *)
VerifyActive(r) ==
    /\ pc[r] = "verify"
    /\ Goto(r, IF Live(tok[r]) THEN "account" ELSE "mark")
    /\ UNCHANGED <<now, active, redis, claims>>

(* RefreshTokenStore.verify, EXISTS: REUSED goes on to revoke_all. *)
VerifyUsed(r) ==
    /\ pc[r] = "mark"
    /\ Used(tok[r])
    /\ Goto(r, "members")
    /\ UNCHANGED <<now, active, redis, claims>>

(* RefreshTokenStore.verify, EXISTS: UNKNOWN, the request alone is refused. *)
VerifyUnknown(r) ==
    /\ pc[r] = "mark"
    /\ ~Used(tok[r])
    /\ End(r)
    /\ UNCHANGED <<now, active, redis, claims, parent, revoked>>

(* AuthService.refresh: get_by_id and the user_is_active check. *)
CheckAccount(r) ==
    /\ pc[r] = "account"
    /\ Goto(r, IF active[user[r]] THEN "rotate" ELSE "members")
    /\ UNCHANGED <<now, active, redis, claims>>

RotateWithoutDel(r) ==  \* mutant: the active key is left to its TTL
    /\ pc[r] = "rotate"
    /\ LET t == tok[r] IN
        /\ index' = [index EXCEPT ![user[r]] = @ \ {t}]
        /\ used' = [used EXCEPT ![t] = now + MarkSeconds(t) * Second]
    /\ Goto(r, "issue")
    /\ UNCHANGED <<now, active, live, indexTill, claims>>

(* RefreshTokenStore.rotate: DEL, SREM and SET EX in one transaction. *)
Rotate(r) ==
    /\ pc[r] = "rotate"
    /\ LET t == tok[r] IN
        /\ live' = [live EXCEPT ![t] = 0]
        /\ index' = [index EXCEPT ![user[r]] = @ \ {t}]
        /\ used' = [used EXCEPT ![t] = now + MarkSeconds(t) * Second]
    /\ Goto(r, "issue")
    /\ UNCHANGED <<now, active, indexTill, claims>>

SaveExpireNX(u, t) ==  \* mutant: the index TTL is set once and never extended
    /\ live' = [live EXCEPT ![t] = now + TTL * Second]
    /\ index' = [index EXCEPT ![u] = Members(u) \union {t}]
    /\ indexTill' = [indexTill EXCEPT ![u] = IF @ > now THEN @ ELSE now + TTL * Second]
    /\ UNCHANGED used

(* RefreshTokenStore.save: SET EX, SADD and EXPIRE in one transaction. *)
Save(u, t) ==
    /\ live' = [live EXCEPT ![t] = now + TTL * Second]
    /\ index' = [index EXCEPT ![u] = Members(u) \union {t}]
    /\ indexTill' = [indexTill EXCEPT ![u] = now + TTL * Second]
    /\ UNCHANGED used

(* AuthService._issue_tokens: create_refresh_token draws a fresh jti. *)
Issue(r) ==
    /\ pc[r] = "issue"
    /\ \E t \in Token :
        /\ owner[t] = NoUser
        /\ owner' = [owner EXCEPT ![t] = user[r]]
        /\ exp' = [exp EXCEPT ![t] = ExpClaim]
        /\ parent' = [parent EXCEPT ![t] = tok[r]]
        /\ Save(user[r], t)
    /\ End(r)
    /\ UNCHANGED <<now, active, revoked>>

LogoutByRotate(r) ==  \* mutant: logout consumes the token the way a rotation does
    \E t \in Token :
        /\ pc[r] = "idle"
        /\ Valid(t)
        /\ live' = [live EXCEPT ![t] = 0]
        /\ index' = [index EXCEPT ![owner[t]] = @ \ {t}]
        /\ used' = [used EXCEPT ![t] = now + MarkSeconds(t) * Second]
        /\ revoked' = revoked \union {s \in {t} : Live(s)}
        /\ UNCHANGED <<now, active, indexTill, claims, local, parent, before>>

(* AuthService.logout: decode_token, then RefreshTokenStore.revoke. *)
Logout(r) ==
    \E t \in Token :
        /\ pc[r] = "idle"
        /\ Valid(t)
        /\ live' = [live EXCEPT ![t] = 0]
        /\ index' = [index EXCEPT ![owner[t]] = @ \ {t}]
        /\ revoked' = revoked \union {s \in {t} : Live(s)}
        /\ UNCHANGED <<now, active, used, indexTill, claims, local, parent, before>>

(* POST /auth/logout-all: get_current_user let the user in. *)
LogoutAll(r) ==
    \E u \in User :
        /\ active[u]
        /\ Begin(r, "members", u, NoToken)
        /\ UNCHANGED <<now, active, redis, claims>>

(* RefreshTokenStore.revoke_all: SMEMBERS ... *)
ListMembers(r) ==
    /\ pc[r] = "members"
    /\ pc' = [pc EXCEPT ![r] = "delete"]
    /\ snap' = [snap EXCEPT ![r] = Members(user[r])]
    /\ UNCHANGED <<now, active, redis, claims, user, tok, history>>

(* ... then DEL of each listed key and of the index, in one transaction. *)
DeleteMembers(r) ==
    /\ pc[r] = "delete"
    /\ live' = [t \in Token |-> IF t \in snap[r] THEN 0 ELSE live[t]]
    /\ index' = [index EXCEPT ![user[r]] = {}]
    /\ indexTill' = [indexTill EXCEPT ![user[r]] = 0]
    /\ revoked' = revoked \union {t \in snap[r] : Live(t)}
    /\ End(r)
    /\ UNCHANGED <<now, active, used, claims, parent>>

(* UserService.deactivate, committed. *)
Deactivate(r) ==
    \E u \in User :
        /\ pc[r] = "idle"
        /\ active[u]
        /\ active' = [active EXCEPT ![u] = FALSE]
        /\ UNCHANGED <<now, redis, claims, local, history>>

(* A Redis error or the death of the process cuts a request short. *)
Crash(r) ==
    /\ pc[r] # "idle"
    /\ End(r)
    /\ UNCHANGED <<now, active, redis, claims, parent, revoked>>

Tick ==
    /\ now < Horizon
    /\ now' = now + 1
    /\ UNCHANGED <<active, redis, claims, local, history>>

Next ==
    \/ Tick
    \/ \E r \in Request :
        \/ Login(r) \/ Refresh(r) \/ Logout(r) \/ LogoutAll(r) \/ Deactivate(r)
        \/ VerifyActive(r) \/ VerifyUsed(r) \/ VerifyUnknown(r)
        \/ CheckAccount(r) \/ Rotate(r) \/ Issue(r)
        \/ ListMembers(r) \/ DeleteMembers(r)
        \/ Crash(r)

Spec == Init /\ [][Next]_vars

-----------------------------------------------------------------------------
(***************************************************************************)
(* Types, and what a busy request slot holds: a user always, a refresh     *)
(* token from its decoding to its rotation (AuthService.refresh).          *)
(***************************************************************************)
TypeOK ==
    /\ now \in Nat
    /\ active \in [User -> BOOLEAN]
    /\ live \in [Token -> Nat]
    /\ used \in [Token -> Nat]
    /\ index \in [User -> SUBSET Token]
    /\ indexTill \in [User -> Nat]
    /\ owner \in [Token -> User \union {NoUser}]
    /\ exp \in [Token -> Nat]
    /\ pc \in [Request -> Step]
    /\ user \in [Request -> User \union {NoUser}]
    /\ tok \in [Request -> Token \union {NoToken}]
    /\ snap \in [Request -> SUBSET Token]
    /\ parent \in [Token -> Token \union {NoToken}]
    /\ before \in [Request -> SUBSET Token]
    /\ revoked \in SUBSET Token
    /\ \A r \in Request :
        /\ pc[r] # "idle" => user[r] \in User
        /\ pc[r] \in {"verify", "mark", "account", "rotate"} => tok[r] \in Token

-----------------------------------------------------------------------------
(* Properties that hold whatever the interleaving.                          *)

(***************************************************************************)
(* A rotated token is never live again: no later save, by whichever        *)
(* request, brings its active key back (RefreshTokenStore.rotate, save).    *)
(***************************************************************************)
ConsumedStaysDead == \A t \in Token : used[t] # 0 => ~Live(t)

(***************************************************************************)
(* A refresh yields a token only if the one it presented was live when the  *)
(* request arrived: the checks of AuthService.refresh may grow stale, but   *)
(* a token that was dead by then cannot be refreshed by any race.           *)
(***************************************************************************)
StaleTokenYieldsNothing ==
    \A r \in Request :
        /\ pc[r] \in {"account", "rotate", "issue"}
        /\ tok[r] # NoToken
        => tok[r] \in before[r]

(***************************************************************************)
(* revoke_all cannot reach another user: the index of a user, and the list  *)
(* a revocation read from it, name that user's tokens only, whatever was    *)
(* saved, rotated or deleted since SMEMBERS (RefreshTokenStore.revoke_all). *)
(***************************************************************************)
IndexNamesOwnTokens ==
    /\ \A u \in User : \A t \in index[u] : owner[t] = u
    /\ \A r \in Request : \A t \in snap[r] : owner[t] = user[r]

(***************************************************************************)
(* The used mark lapses less than a second before the token does, so that   *)
(* a reuse is told from a logout until the token's last second, for every   *)
(* moment at which it was rotated (AuthService.refresh computes remaining,  *)
(* rotate applies max(_, 1)).                                               *)
(***************************************************************************)
MarkCoversToken == \A t \in Token : used[t] # 0 => used[t] + Second > exp[t]

(***************************************************************************)
(* Why they hold: a token not yet issued has no keys; a busy request's      *)
(* token is its user's, and one that was dead when the request arrived is   *)
(* dead now; only revoke_all holds a list of members.  Inductive.           *)
(***************************************************************************)
RaceInv ==
    /\ \A t \in Token :
        /\ owner[t] = NoUser => live[t] = 0 /\ used[t] = 0
        /\ used[t] # 0 => live[t] = 0
    /\ \A r \in Request :
        /\ tok[r] \in Token => owner[tok[r]] = user[r] /\ user[r] \in User
        /\ tok[r] \in Token \ before[r] => live[tok[r]] <= now
        /\ pc[r] # "delete" => snap[r] = {}
    /\ StaleTokenYieldsNothing
    /\ IndexNamesOwnTokens
    /\ MarkCoversToken

-----------------------------------------------------------------------------
(* Properties that hold while requests do not overlap.                      *)

(***************************************************************************)
(* A refresh token is good for one rotation: no two tokens come from the    *)
(* same parent (README 4, "Refresh Token은 1회용").                          *)
(***************************************************************************)
OneTimeUse ==
    \A s, t \in Token : parent[s] = parent[t] /\ parent[s] # NoToken => s = t

(***************************************************************************)
(* The index lists every live token of the user and outlives them all, so   *)
(* that revoke_all needs no KEYS (token_store.py, module docstring).        *)
(***************************************************************************)
IndexCoversLive == \A u \in User : LiveOf(u) \subseteq Members(u)

(***************************************************************************)
(* "Log out on all devices" and the answer to a reused token leave none of  *)
(* the tokens alive that were alive when the request arrived                *)
(* (RefreshTokenStore.revoke_all).                                          *)
(***************************************************************************)
RevokeAllIsComplete ==
    [][\A r \in Request : DeleteMembers(r) => \A t \in before[r] : live'[t] <= now]_vars

(***************************************************************************)
(* A token that was logged out while alive is never rotated afterwards, so  *)
(* it bears no used mark and submitting it again costs the user no other    *)
(* session (token_store.py, "로그아웃은 이 표식을 남기지 않으므로").           *)
(***************************************************************************)
LoggedOutIsNotConsumed == \A t \in revoked : used[t] = 0

(***************************************************************************)
(* Why they hold: from its check to its rotation a token stays open, from   *)
(* its rotation to the issue it has no heir; nothing is saved between       *)
(* SMEMBERS and the DEL.  Inductive when there is one request at a time.    *)
(***************************************************************************)
SequentialInv ==
    /\ \A r \in Request :
        /\ pc[r] \in {"account", "rotate"} => live[tok[r]] # 0
        /\ pc[r] = "issue" /\ tok[r] # NoToken =>
              used[tok[r]] # 0 /\ \A s \in Token : parent[s] # tok[r]
        /\ pc[r] \in {"rotate", "issue"} => active[user[r]]
        /\ \A t \in before[r] : owner[t] = user[r]
        /\ pc[r] = "delete" => LiveOf(user[r]) \subseteq snap[r]
    /\ \A t \in Token : parent[t] # NoToken => owner[t] # NoUser /\ used[parent[t]] # 0
    /\ \A t \in revoked : live[t] = 0 /\ owner[t] # NoUser
    /\ \A t \in Token :
        /\ live[t] <= now + TTL * Second
        /\ Live(t) => t \in index[owner[t]] /\ live[t] <= indexTill[owner[t]]
    /\ OneTimeUse
    /\ LoggedOutIsNotConsumed

-----------------------------------------------------------------------------
(* The state of a token as TokenLife sees it. *)
Status(t) ==
    IF owner[t] = NoUser THEN "fresh"
    ELSE IF used[t] # 0 THEN "spent"
    ELSE IF live[t] # 0 THEN "open"
    ELSE "closed"

Life == INSTANCE TokenLife WITH status <- [t \in Token |-> Status(t)]

(***************************************************************************)
(* While requests do not overlap, the store implements the promise of       *)
(* rotation: every step of AuthService is a step of TokenLife or none.      *)
(***************************************************************************)
ImplementsTokenLife == Life!LifeSpec

=============================================================================
