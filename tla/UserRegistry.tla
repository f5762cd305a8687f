---------------------------- MODULE UserRegistry ----------------------------
(***************************************************************************)
(* What the users' service promises (user_service.py): a sign-up is one     *)
(* indivisible test-and-set of its email, done before it is answered, and   *)
(* an account is active until it is deactivated, for good.  A lost          *)
(* connection leaves unsaid, never half done, whether it was.               *)
(* No snapshots, index entries or locks: Accounts has to implement this.    *)
(***************************************************************************)
CONSTANTS Email, Request, NoEmail

VARIABLES
    account,    \* [Email -> {"none", "active", "inactive"}]
    asked,      \* [Request -> {"nothing", "sign-up", "me"}]
    about,      \* [Request -> Email or NoEmail]: the account it is about
    told        \* [Request -> {"none", "created", "taken", "error"}]

registry == <<account, asked, about, told>>

RegistryInit ==
    /\ account = [e \in Email |-> "none"]
    /\ asked = [r \in Request |-> "nothing"]
    /\ about = [r \in Request |-> NoEmail]
    /\ told = [r \in Request |-> "none"]

(* Anyone may ask for an account, its user to change it. *)
Ask(r, e, what) ==
    /\ asked[r] = "nothing"
    /\ what = "me" => account[e] = "active"
    /\ asked' = [asked EXCEPT ![r] = what]
    /\ about' = [about EXCEPT ![r] = e]
    /\ told' = [told EXCEPT ![r] = "none"]
    /\ UNCHANGED account

Answer(S, a) ==
    /\ \A r \in S : asked[r] # "nothing"
    /\ asked' = [r \in Request |-> IF r \in S THEN "nothing" ELSE asked[r]]
    /\ told' = [r \in Request |-> IF r \in S THEN a ELSE told[r]]
    /\ UNCHANGED about

Register(r) ==
    /\ asked[r] = "sign-up"
    /\ account[about[r]] = "none"
    /\ account' = [account EXCEPT ![about[r]] = "active"]

Created(r) == Register(r) /\ Answer({r}, "created")

Taken(r) ==
    /\ asked[r] = "sign-up"
    /\ account[about[r]] # "none"
    /\ Answer({r}, "taken")
    /\ UNCHANGED account

(* The user's requests are served, the last one by deactivating the account. *)
Served(r) == asked[r] = "me" /\ Answer({r}, "none") /\ UNCHANGED account

Deactivated(r) ==
    /\ asked[r] = "me"
    /\ account' = [account EXCEPT ![about[r]] = "inactive"]
    /\ Answer({r}, "none")

(* One request loses its connection, and with it those that waited for it.   *)
Lost(r, S) ==
    /\ r \in S
    /\ \A q \in S \ {r} : asked[q] = "sign-up" /\ about[q] = about[r]
    /\ Answer(S, "error")
    /\ (S = {r} /\ Register(r)) \/ UNCHANGED account

RegistryNext ==
    \/ \E r \in Request, e \in Email, what \in {"sign-up", "me"} : Ask(r, e, what)
    \/ \E r \in Request : Created(r) \/ Taken(r) \/ Served(r) \/ Deactivated(r)
    \/ \E r \in Request, S \in SUBSET Request : Lost(r, S)

RegistrySpec == RegistryInit /\ [][RegistryNext]_registry

=============================================================================
