------------------------------ MODULE Accounts ------------------------------
(***************************************************************************)
(* Accounts (app/modules/users): UserService.create, update and deactivate. *)
(*                                                                          *)
(* Sign-ups for one email race between the SELECT that looks for it and     *)
(* the INSERT: what decides is the lock an uncommitted INSERT holds on the  *)
(* entry of the UNIQUE index.  A SELECT reads the snapshot of its           *)
(* transaction, a change the rows as they are.                              *)
(***************************************************************************)
EXTENDS Naturals

CONSTANTS Email, Request, Name, NoEmail, NoRequest,
          MaxFailures   \* connections that may be lost (bounds the model)

ASSUME AccountsAssumption ==
    /\ NoEmail \notin Email
    /\ NoRequest \notin Request
    /\ MaxFailures \in Nat

VARIABLES
    account,    \* [Email -> {"none", "active", "inactive"}]: committed rows
    name,       \* [Email -> Name]: user_nickname (any, while there is no row)
    inserter,   \* [Email -> Request or NoRequest]: holds the index entry
    pc,         \* [Request -> step]: what the request does next
    email,      \* [Request -> Email or NoEmail]: whose account it is about
    view,       \* [Request -> SUBSET Email]: its snapshot, the emails taken
    answer,     \* history, [Request -> ...]: what the last sign-up was told
    failures    \* history: connections lost so far

rows == <<account, name, inserter>>
vars == <<rows, pc, email, view, answer, failures>>

Taken == {e \in Email : account[e] # "none"}
Idle(r) == pc[r] = "idle"

Init ==
    /\ account = [e \in Email |-> "none"]
    /\ name \in [Email -> Name]
    /\ inserter = [e \in Email |-> NoRequest]
    /\ pc = [r \in Request |-> "idle"]
    /\ email = [r \in Request |-> NoEmail]
    /\ view = [r \in Request |-> {}]
    /\ answer = [r \in Request |-> "none"]
    /\ failures = 0

-----------------------------------------------------------------------------
(* A request about account e; its first SELECT fixes its snapshot. *)
Begin(r, e, step) ==
    /\ Idle(r)
    /\ pc' = [pc EXCEPT ![r] = step]
    /\ email' = [email EXCEPT ![r] = e]
    /\ view' = [view EXCEPT ![r] = Taken]
    /\ answer' = [answer EXCEPT ![r] = "none"]
    /\ UNCHANGED <<rows, failures>>

Goto(r, step) ==
    /\ pc' = [pc EXCEPT ![r] = step]
    /\ UNCHANGED <<email, view, answer, failures>>

(* The request answers a, and its session is closed. *)
End(r, a) ==
    /\ pc' = [pc EXCEPT ![r] = "idle"]
    /\ view' = [view EXCEPT ![r] = {}]
    /\ answer' = [answer EXCEPT ![r] = a]
    /\ UNCHANGED <<email, failures>>

(* UserService.create, called: exists_by_email has read. *)
SignUp(r) == \E e \in Email : Begin(r, e, "exists")

ExistsDirty(r) ==  \* mutant: SELECT sees rows that are not committed
    email[r] \in view[r] \/ inserter[email[r]] # NoRequest

Exists(r) == email[r] \in view[r]

(* create's first check, and hash_password *)
CheckEmail(r) ==
    /\ pc[r] = "exists"
    /\ \/ Exists(r) /\ End(r, "taken")
       \/ ~Exists(r) /\ Goto(r, "insert")
    /\ UNCHANGED rows

(* UserRepository.add, flush: INSERT takes the index entry ... *)
Insert(r) ==
    /\ pc[r] = "insert"
    /\ account[email[r]] = "none" /\ inserter[email[r]] = NoRequest
    /\ inserter' = [inserter EXCEPT ![email[r]] = r]
    /\ Goto(r, "commit")
    /\ UNCHANGED <<account, name>>

(* ... waits for the transaction that has it ... *)
Wait(r) ==
    /\ pc[r] = "insert"
    /\ inserter[email[r]] # NoRequest
    /\ Goto(r, "wait")
    /\ UNCHANGED rows

(* ... or fails, IntegrityError, when a row has it: create rolls back. *)
Duplicate(r) ==
    /\ pc[r] \in {"insert", "wait"}
    /\ account[email[r]] # "none" /\ inserter[email[r]] = NoRequest
    /\ Goto(r, "recheck")
    /\ UNCHANGED rows

CommitLeftOpen(r) ==  \* mutant: no commit, and the session is not closed
    /\ pc[r] = "commit"
    /\ End(r, "created")
    /\ UNCHANGED rows

(* commit: the row is there for all, and the index entry is unlocked. *)
Commit(r) ==
    /\ pc[r] = "commit"
    /\ \E n \in Name : name' = [name EXCEPT ![email[r]] = n]
    /\ account' = [account EXCEPT ![email[r]] = "active"]
    /\ inserter' = [inserter EXCEPT ![email[r]] = NoRequest]
    /\ End(r, "created")

RecheckOldSnapshot(r) ==  \* mutant: no rollback before exists_by_email
    /\ pc[r] = "recheck"
    /\ End(r, IF email[r] \in view[r] THEN "taken" ELSE "error")
    /\ UNCHANGED rows

(* exists_by_email again, in a new transaction and on its snapshot *)
Recheck(r) ==
    /\ pc[r] = "recheck"
    /\ End(r, IF email[r] \in Taken THEN "taken" ELSE "error")
    /\ UNCHANGED rows

-----------------------------------------------------------------------------
(* get_current_user: the account is active in this session's snapshot. *)
Me(r) == \E e \in Email : account[e] = "active" /\ Begin(r, e, "me")

UpdateWholeRow(r) ==  \* mutant: every column is written back
    /\ pc[r] = "me"
    /\ \E n \in Name : name' = [name EXCEPT ![email[r]] = n]
    /\ account' = [account EXCEPT ![email[r]] = "active"]
    /\ End(r, "none")
    /\ UNCHANGED inserter

(* UserService.update writes the nickname alone. *)
Update(r) ==
    /\ pc[r] = "me"
    /\ \E n \in Name : name' = [name EXCEPT ![email[r]] = n]
    /\ End(r, "none")
    /\ UNCHANGED <<account, inserter>>

(* UserService.deactivate *)
Deactivate(r) ==
    /\ pc[r] = "me"
    /\ account' = [account EXCEPT ![email[r]] = "inactive"]
    /\ End(r, "none")
    /\ UNCHANGED <<name, inserter>>

(* GET /users/me, or an update the columns refuse (a null nickname) *)
Read(r) == pc[r] = "me" /\ End(r, "none") /\ UNCHANGED rows

-----------------------------------------------------------------------------
Lose == failures < MaxFailures /\ failures' = failures + 1

Waiting(e) == {r \in Request : pc[r] = "wait" /\ email[r] = e}

(***************************************************************************)
(* The request's process dies or its connection is lost: its transaction is *)
(* rolled back.  Of the requests waiting for its index entry InnoDB lets    *)
(* one insert; the others are deadlocked with that one, and their           *)
(* OperationalError is no IntegrityError.                                   *)
(***************************************************************************)
Fail(r) ==
    LET e == email[r]
        Heir == IF inserter[e] = r THEN Waiting(e) ELSE {} IN
    /\ Lose
    /\ ~Idle(r)
    /\ \/ /\ Heir = {}
          /\ inserter' = [inserter EXCEPT ![e] = IF @ = r THEN NoRequest ELSE @]
          /\ pc' = [pc EXCEPT ![r] = "idle"]
          /\ view' = [view EXCEPT ![r] = {}]
          /\ answer' = [answer EXCEPT ![r] = "error"]
       \/ \E h \in Heir :
          LET out == {r} \union (Heir \ {h}) IN
          /\ inserter' = [inserter EXCEPT ![e] = h]
          /\ pc' = [q \in Request |-> IF q \in out THEN "idle" ELSE IF q = h THEN "commit" ELSE pc[q]]
          /\ view' = [q \in Request |-> IF q \in out THEN {} ELSE view[q]]
          /\ answer' = [q \in Request |-> IF q \in out THEN "error" ELSE answer[q]]
    /\ UNCHANGED <<account, name, email>>

(* The connection is lost after the server committed, before it said so. *)
FailCommitted(r) ==
    /\ pc[r] = "commit"
    /\ \E n \in Name : name' = [name EXCEPT ![email[r]] = n]
    /\ account' = [account EXCEPT ![email[r]] = "active"]
    /\ inserter' = [inserter EXCEPT ![email[r]] = NoRequest]
    /\ Lose
    /\ pc' = [pc EXCEPT ![r] = "idle"]
    /\ view' = [view EXCEPT ![r] = {}]
    /\ answer' = [answer EXCEPT ![r] = "error"]
    /\ UNCHANGED email

Advance(r) ==
    \/ CheckEmail(r) \/ Insert(r) \/ Wait(r) \/ Duplicate(r) \/ Commit(r) \/ Recheck(r)

Next ==
    \E r \in Request :
        \/ SignUp(r) \/ Advance(r)
        \/ Me(r) \/ Update(r) \/ Deactivate(r) \/ Read(r)
        \/ Fail(r) \/ FailCommitted(r)

Spec == Init /\ [][Next]_vars

(* The thread pool goes on with every request it has started. *)
FairSpec == Spec /\ \A r \in Request : WF_vars(Advance(r))

-----------------------------------------------------------------------------
(* Types; the lock on an index entry is that of a request about to commit.  *)
TypeOK ==
    /\ account \in [Email -> {"none", "active", "inactive"}]
    /\ name \in [Email -> Name]
    /\ inserter \in [Email -> Request \union {NoRequest}]
    /\ pc \in [Request -> {"idle", "exists", "insert", "wait", "commit", "recheck", "me"}]
    /\ email \in [Request -> Email \union {NoEmail}]
    /\ view \in [Request -> SUBSET Email]
    /\ answer \in [Request -> {"none", "created", "taken", "error"}]
    /\ failures \in 0..MaxFailures
    /\ \A r \in Request :
        /\ pc[r] # "idle" \/ answer[r] # "none" => email[r] \in Email
        /\ \A e \in Email : inserter[e] = r <=> pc[r] = "commit" /\ email[r] = e

(***************************************************************************)
(* Of the sign-ups for an email one is told it has the account, even when   *)
(* all of them found the email free (UserService.create).                   *)
(***************************************************************************)
OneWinner ==
    \A r, q \in Request :
        r # q /\ answer[r] = "created" /\ answer[q] = "created" => email[r] # email[q]

(***************************************************************************)
(* What a sign-up is told is so: "created" when the row is stored, since    *)
(* the service commits before it answers (session.py), and "taken" when a   *)
(* row has the email, never for one that may yet be rolled back.            *)
(***************************************************************************)
EveryAnswerIsTrue ==
    \A r \in Request : answer[r] \in {"created", "taken"} => account[email[r]] # "none"

(***************************************************************************)
(* A sign-up that loses the race is told so, and gets no server error,      *)
(* unless a connection was lost (the IntegrityError branch of create).      *)
(***************************************************************************)
LosersAreTold == failures = 0 => \A r \in Request : answer[r] # "error"

(* Why: an INSERT holds an email no row has, a duplicate one that a row has. *)
SignUpInv ==
    /\ \A r \in Request :
        /\ pc[r] \in {"recheck", "me"} => account[email[r]] # "none"
        /\ view[r] \subseteq Taken
    /\ \A e \in Email : inserter[e] # NoRequest => account[e] = "none"
    /\ OneWinner
    /\ EveryAnswerIsTrue
    /\ LosersAreTold

(***************************************************************************)
(* An account once deactivated stays so, whatever profile update of its     *)
(* user was under way (UserService.update, deactivate).                     *)
(***************************************************************************)
DeactivationIsFinal ==
    [][\A e \in Email : account[e] = "inactive" => account'[e] = "inactive"]_vars

(* A request as the registry sees it: a sign-up or one of the account's user. *)
Asked(r) == CASE pc[r] = "idle" -> "nothing" [] pc[r] = "me" -> "me" [] OTHER -> "sign-up"

Registry ==
    INSTANCE UserRegistry WITH asked <- [r \in Request |-> Asked(r)], about <- email, told <- answer

(***************************************************************************)
(* Snapshots, the second look at an email, waiting for an index entry and   *)
(* its inheritance are invisible: sign-ups, profile updates and             *)
(* deactivations happen one at a time, each at one moment between its call  *)
(* and its answer (UserService.create, update, deactivate).                 *)
(***************************************************************************)
ImplementsUserRegistry == Registry!RegistrySpec

(***************************************************************************)
(* Every sign-up ends: none waits for ever for another one's INSERT         *)
(* (UserService.create, get_db).                                            *)
(***************************************************************************)
SignUpsEnd == \A r \in Request : pc[r] \in {"exists", "insert", "wait", "recheck"} ~> Idle(r)

=============================================================================
