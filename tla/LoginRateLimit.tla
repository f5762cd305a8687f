--------------------------- MODULE LoginRateLimit ---------------------------
(***************************************************************************)
(* The limit on login attempts: a fixed-window counter in Redis for each    *)
(* email and for each client address (app/common/rate_limit.py), hit and    *)
(* reset by AuthService.login, whose requests interleave command by         *)
(* command.                                                                 *)
(*                                                                          *)
(* A key's time to live is what is left of it, in ticks, so that no clock   *)
(* is needed.  A count beyond the limit counts as one beyond it: only the   *)
(* comparison with the limit is ever used.                                  *)
(***************************************************************************)
EXTENDS Naturals

CONSTANTS Email, Ip, Attempt, NoKey,
          Limit,    \* LOGIN_RATE_LIMIT_MAX_ATTEMPTS
          Window,   \* LOGIN_RATE_LIMIT_WINDOW_SECONDS
          TicksPerSecond

ASSUME RateAssumption ==
    /\ Email \intersect Ip = {}
    /\ NoKey \notin Email \union Ip
    /\ {Limit, Window, TicksPerSecond} \subseteq Nat \ {0}

VARIABLES
    count,      \* [Key -> Nat]: the counter, 0 if there is no key
    ttl,        \* [Key -> Nat]: ticks the key has left
    stage,      \* [Attempt -> {"idle", "hit", "ttl", "password", "reset"}]
    from,       \* [Attempt -> Ip or NoKey]
    who,        \* [Attempt -> Email or NoKey]
    key,        \* [Attempt -> Key or NoKey]: the counter it is at
    log         \* history: [Key -> [a -> hits allowed in the last a + 1 ticks
                \* and since a reset]]

Key == Email \union Ip
Span == Window * TicksPerSecond
Age == 0..(Span - 1)
rateVars == <<count, ttl, stage, from, who, key, log>>

NoLog == [a \in Age |-> 0]

RateInit ==
    /\ count = [k \in Key |-> 0]
    /\ ttl = [k \in Key |-> 0]
    /\ stage = [r \in Attempt |-> "idle"]
    /\ from = [r \in Attempt |-> NoKey]
    /\ who = [r \in Attempt |-> NoKey]
    /\ key = [r \in Attempt |-> NoKey]
    /\ log = [k \in Key |-> NoLog]

-----------------------------------------------------------------------------
(* POST /auth/login *)
BeginLogin(r) ==
    /\ stage[r] = "idle"
    /\ stage' = [stage EXCEPT ![r] = "hit"]
    /\ \E e \in Email, i \in Ip :
        /\ who' = [who EXCEPT ![r] = e]
        /\ key' = [key EXCEPT ![r] = e]
        /\ from' = [from EXCEPT ![r] = i]
    /\ UNCHANGED <<count, ttl, log>>

Proceed(r, step, k) ==
    /\ stage' = [stage EXCEPT ![r] = step]
    /\ key' = [key EXCEPT ![r] = k]
    /\ UNCHANGED <<from, who>>

Finish(r) ==
    /\ stage' = [stage EXCEPT ![r] = "idle"]
    /\ key' = [key EXCEPT ![r] = NoKey]
    /\ from' = [from EXCEPT ![r] = NoKey]
    /\ who' = [who EXCEPT ![r] = NoKey]

AllowedOneMore(n) == n < Limit + 1  \* mutant: the count is read before INCR
Allowed(n) == n < Limit

ExpireAlways(k) == ttl' = [ttl EXCEPT ![k] = Span]  \* mutant: EXPIRE without NX

(* EXPIRE NX *)
Expire(k) == ttl' = [ttl EXCEPT ![k] = IF count[k] = 0 THEN Span ELSE @]

(* RateLimiter.hit: INCR and EXPIRE in one transaction.  The email's counter *)
(* is hit before the address's (_check_login_rate_limit).                   *)
Hit(r) ==
    /\ stage[r] = "hit"
    /\ LET k == key[r] IN
        /\ count' = [count EXCEPT ![k] = IF @ > Limit THEN @ ELSE @ + 1]
        /\ Expire(k)
        /\ log' = [log EXCEPT ![k] = [a \in Age |-> IF Allowed(count[k]) THEN @[a] + 1 ELSE @[a]]]
        /\ IF Allowed(count[k])
           THEN IF k \in Email THEN Proceed(r, "hit", from[r]) ELSE Proceed(r, "password", NoKey)
           ELSE Proceed(r, "ttl", k)

(* Redis rounds a TTL to the nearest second; it is -2 without a key. *)
RedisTtl(k) == (2 * ttl[k] + TicksPerSecond) \div (2 * TicksPerSecond)

RetryAfterRaw(k) == RedisTtl(k)  \* mutant: no fallback to the window
RetryAfter(k) == IF RedisTtl(k) > 0 THEN RedisTtl(k) ELSE Window

(* RateLimiter.hit, TTL: RateLimitedError answers with RetryAfter(key[r]). *)
Refuse(r) ==
    /\ stage[r] = "ttl"
    /\ Finish(r)
    /\ UNCHANGED <<count, ttl, log>>

(* AuthService.login: verify_password, and the account is active. *)
PasswordRight(r) ==
    /\ stage[r] = "password"
    /\ Proceed(r, "reset", who[r])
    /\ UNCHANGED <<count, ttl, log>>

PasswordWrong(r) ==
    /\ stage[r] = "password"
    /\ Finish(r)
    /\ UNCHANGED <<count, ttl, log>>

(* _reset_login_rate_limit: DEL of one counter, then of the other. *)
Reset(r) ==
    /\ stage[r] = "reset"
    /\ LET k == key[r] IN
        /\ count' = [count EXCEPT ![k] = 0]
        /\ ttl' = [ttl EXCEPT ![k] = 0]
        /\ log' = [log EXCEPT ![k] = NoLog]
        /\ IF k \in Email THEN Proceed(r, "reset", from[r]) ELSE Finish(r)

(* A Redis error, or the death of the process. *)
CutShort(r) ==
    /\ stage[r] # "idle"
    /\ Finish(r)
    /\ UNCHANGED <<count, ttl, log>>

(* A tick passes; keys whose time is up are gone. *)
Elapse ==
    /\ ttl' = [k \in Key |-> IF ttl[k] > 0 THEN ttl[k] - 1 ELSE 0]
    /\ count' = [k \in Key |-> IF ttl[k] = 1 THEN 0 ELSE count[k]]
    /\ log' = [k \in Key |-> [a \in Age |-> IF a = 0 THEN 0 ELSE log[k][a - 1]]]
    /\ UNCHANGED <<stage, from, who, key>>

RateNext ==
    \/ Elapse
    \/ \E r \in Attempt :
        \/ BeginLogin(r) \/ Hit(r) \/ Refuse(r) \/ PasswordRight(r) \/ PasswordWrong(r)
        \/ Reset(r) \/ CutShort(r)

RateSpec == RateInit /\ [][RateNext]_rateVars

(* Time passes, whatever the clients do. *)
RateFairSpec == RateSpec /\ WF_rateVars(Elapse)

-----------------------------------------------------------------------------
(* Hits allowed to a key in the last Window seconds, since it was reset. *)
Recent(k) == log[k][Span - 1]

(***************************************************************************)
(* A fixed window lets at most twice the limit through in any span of the   *)
(* window's length between two resets ("경계 시점에 최대 2배", rate_limit.py),*)
(* for each email and each address, however the attempts interleave.        *)
(***************************************************************************)
AtMostTwiceTheLimit == \A k \in Key : Recent(k) <= 2 * Limit

(***************************************************************************)
(* Types, and what an attempt holds while it runs: an email and an address, *)
(* and the counter it is at (AuthService.login).                            *)
(***************************************************************************)
CountersTyped ==
    /\ count \in [Key -> 0..(Limit + 1)]
    /\ ttl \in [Key -> 0..Span]
    /\ log \in [Key -> [Age -> Nat]]

AttemptsTyped ==
    /\ stage \in [Attempt -> {"idle", "hit", "ttl", "password", "reset"}]
    /\ from \in [Attempt -> Ip \union {NoKey}]
    /\ who \in [Attempt -> Email \union {NoKey}]
    /\ key \in [Attempt -> Key \union {NoKey}]
    /\ \A r \in Attempt :
        /\ stage[r] # "idle" => from[r] \in Ip /\ who[r] \in Email
        /\ stage[r] \in {"hit", "ttl", "reset"} => key[r] \in Key

RateTypeOK == CountersTyped /\ AttemptsTyped

(***************************************************************************)
(* Why at most twice the limit: a counter exists while it has time left; in *)
(* its window, begun a ticks ago, no more was allowed than it counts, and   *)
(* no more than the limit before that.  Inductive.                          *)
(***************************************************************************)
CountedSince(k, a) ==
    /\ a + ttl[k] = Span
    /\ log[k][a] <= count[k]
    /\ log[k][a] <= Limit
    /\ Recent(k) <= log[k][a] + Limit

WindowInv ==
    \A k \in Key :
        /\ \A a, b \in Age : a <= b => log[k][a] <= log[k][b]
        /\ IF count[k] = 0
           THEN ttl[k] = 0 /\ log[k][0] = 0 /\ Recent(k) <= Limit
           ELSE \E a \in Age : CountedSince(k, a)

(***************************************************************************)
(* A refused client is told a wait between a second and the window, though  *)
(* the key may expire or be reset between INCR and TTL (RateLimiter.hit).   *)
(***************************************************************************)
RetryAfterIsUsable ==
    [][\A r \in Attempt : Refuse(r) => RetryAfter(key[r]) \in 1..Window]_rateVars

(***************************************************************************)
(* No one is locked out for good, even if attempts never stop: every window *)
(* ends (RateLimiter.hit, why EXPIRE has NX).                               *)
(***************************************************************************)
EveryWindowEnds == \A k \in Key : count[k] > Limit ~> count[k] = 0

=============================================================================
