------------------------------ MODULE TokenLife ------------------------------
(***************************************************************************)
(* What rotation promises of refresh tokens (auth/service.py, module        *)
(* docstring): a token is good for one rotation, a rotated token has one    *)
(* heir, and a token that was logged out is out of the game for good.       *)
(* Neither Redis, nor requests, nor time: AuthSessions has to implement     *)
(* this, its clock and its races being invisible here.                      *)
(***************************************************************************)
CONSTANTS Token, NoToken

VARIABLES
    status,     \* [Token -> {"fresh", "open", "spent", "closed"}]
    parent      \* [Token -> Token or NoToken]

life == <<status, parent>>

LifeInit ==
    /\ status = [t \in Token |-> "fresh"]
    /\ parent = [t \in Token |-> NoToken]

(* A login opens a session. *)
Open(t) ==
    /\ status[t] = "fresh"
    /\ status' = [status EXCEPT ![t] = "open"]
    /\ UNCHANGED parent

(* A rotation consumes the token it was shown ... *)
Spend(t) ==
    /\ status[t] = "open"
    /\ status' = [status EXCEPT ![t] = "spent"]
    /\ UNCHANGED parent

(* ... and hands out its one heir. *)
Succeed(p, t) ==
    /\ status[p] = "spent"
    /\ \A s \in Token : parent[s] # p
    /\ status[t] = "fresh"
    /\ status' = [status EXCEPT ![t] = "open"]
    /\ parent' = [parent EXCEPT ![t] = p]

(* Logging out, on one device or on all, closes sessions. *)
Close(S) ==
    /\ \A t \in S : status[t] = "open"
    /\ status' = [t \in Token |-> IF t \in S THEN "closed" ELSE status[t]]
    /\ UNCHANGED parent

LifeNext ==
    \/ \E t \in Token : Open(t) \/ Spend(t)
    \/ \E p, t \in Token : Succeed(p, t)
    \/ \E S \in SUBSET Token : Close(S)

LifeSpec == LifeInit /\ [][LifeNext]_life

=============================================================================
