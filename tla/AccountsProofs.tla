--------------------------- MODULE AccountsProofs ---------------------------
(* Proofs about Accounts, for any emails and any number of requests.        *)
EXTENDS Accounts, TLAPS

(***************************************************************************)
(* A failure takes from its request, and from those deadlocked with it, all *)
(* they had; an index entry passes to one that waited for it (InnoDB, Fail).*)
(***************************************************************************)
LEMMA FailEffect ==
  ASSUME TypeOK, NEW r \in Request, Fail(r)
  PROVE  \E out \in SUBSET Request, h \in Request \union {NoRequest} :
           /\ pc[r] # "idle" /\ r \in out /\ h \notin out
           /\ \A q \in out \ {r} : pc[q] = "wait" /\ email[q] = email[r]
           /\ h # NoRequest => pc[r] = "commit" /\ pc[h] = "wait" /\ email[h] = email[r]
           /\ inserter' = [inserter EXCEPT ![email[r]] = IF @ = r THEN h ELSE @]
           /\ pc' = [q \in Request |-> IF q \in out THEN "idle" ELSE IF q = h THEN "commit" ELSE pc[q]]
           /\ view' = [q \in Request |-> IF q \in out THEN {} ELSE view[q]]
           /\ answer' = [q \in Request |-> IF q \in out THEN "error" ELSE answer[q]]
<1> DEFINE e == email[r]
           Heir == IF inserter[e] = r THEN Waiting(e) ELSE {}
<1>1. pc[r] # "idle" /\ e \in Email
  BY DEF Fail, Idle, TypeOK
<1>2. ASSUME Heir = {},
             inserter' = [inserter EXCEPT ![e] = IF @ = r THEN NoRequest ELSE @],
             pc' = [pc EXCEPT ![r] = "idle"],
             view' = [view EXCEPT ![r] = {}],
             answer' = [answer EXCEPT ![r] = "error"]
      PROVE  /\ pc' = [q \in Request |-> IF q \in {r} THEN "idle" ELSE IF q = NoRequest THEN "commit" ELSE pc[q]]
             /\ view' = [q \in Request |-> IF q \in {r} THEN {} ELSE view[q]]
             /\ answer' = [q \in Request |-> IF q \in {r} THEN "error" ELSE answer[q]]
  <2>1. pc = [q \in Request |-> pc[q]]
    BY DEF TypeOK
  <2>2. view = [q \in Request |-> view[q]]
    BY DEF TypeOK
  <2>3. answer = [q \in Request |-> answer[q]]
    BY DEF TypeOK
  <2>4. pc' = [q \in Request |-> IF q \in {r} THEN "idle" ELSE IF q = NoRequest THEN "commit" ELSE pc[q]]
    BY <1>2, <2>1, AccountsAssumption
  <2>5. view' = [q \in Request |-> IF q \in {r} THEN {} ELSE view[q]]
    BY <1>2, <2>2
  <2>6. answer' = [q \in Request |-> IF q \in {r} THEN "error" ELSE answer[q]]
    BY <1>2, <2>3
  <2> QED BY <2>4, <2>5, <2>6
<1>3. ASSUME NEW h \in Heir,
             inserter' = [inserter EXCEPT ![e] = h]
      PROVE  /\ h \in Request /\ h # NoRequest /\ h # r
             /\ pc[r] = "commit" /\ pc[h] = "wait" /\ email[h] = email[r]
             /\ inserter' = [inserter EXCEPT ![e] = IF @ = r THEN h ELSE @]
             /\ {r} \union (Heir \ {h}) \in SUBSET Request
             /\ \A q \in Heir : pc[q] = "wait" /\ email[q] = email[r]
  <2>1. inserter[e] = r /\ h \in Waiting(e)
    BY <1>3
  <2>2. pc[r] = "commit"
    BY <1>1, <2>1 DEF TypeOK
  <2>3. h \in Request /\ pc[h] = "wait" /\ email[h] = email[r]
    BY <2>1 DEF Waiting
  <2> QED BY <1>1, <1>3, <2>1, <2>2, <2>3, AccountsAssumption DEF Waiting, TypeOK
<1>4. CASE \E h \in Heir :
             LET out == {r} \union (Heir \ {h}) IN
             /\ inserter' = [inserter EXCEPT ![e] = h]
             /\ pc' = [q \in Request |-> IF q \in out THEN "idle" ELSE IF q = h THEN "commit" ELSE pc[q]]
             /\ view' = [q \in Request |-> IF q \in out THEN {} ELSE view[q]]
             /\ answer' = [q \in Request |-> IF q \in out THEN "error" ELSE answer[q]]
  <2>1. PICK h \in Heir :
             LET out == {r} \union (Heir \ {h}) IN
             /\ inserter' = [inserter EXCEPT ![e] = h]
             /\ pc' = [q \in Request |-> IF q \in out THEN "idle" ELSE IF q = h THEN "commit" ELSE pc[q]]
             /\ view' = [q \in Request |-> IF q \in out THEN {} ELSE view[q]]
             /\ answer' = [q \in Request |-> IF q \in out THEN "error" ELSE answer[q]]
    BY <1>4
  <2> DEFINE out == {r} \union (Heir \ {h})
  <2>2. h \notin out
    BY <1>3, <2>1
  <2>3. \A q \in out \ {r} : pc[q] = "wait" /\ email[q] = email[r]
    BY <1>3, <2>1
  <2> HIDE DEF Heir, e
  <2>4. out \in SUBSET Request /\ h \in Request \union {NoRequest} /\ r \in out
    BY <1>3, <2>1
  <2> QED BY <1>1, <1>3, <2>1, <2>2, <2>3, <2>4 DEF e
<1>5. CASE /\ Heir = {}
           /\ inserter' = [inserter EXCEPT ![e] = IF @ = r THEN NoRequest ELSE @]
           /\ pc' = [pc EXCEPT ![r] = "idle"]
           /\ view' = [view EXCEPT ![r] = {}]
           /\ answer' = [answer EXCEPT ![r] = "error"]
  <2>1. {r} \in SUBSET Request /\ NoRequest \notin {r}
    BY AccountsAssumption
  <2>2. \A q \in {r} \ {r} : pc[q] = "wait" /\ email[q] = email[r]
    OBVIOUS
  <2> QED BY <1>1, <1>2, <1>5, <2>1, <2>2
<1> QED BY <1>4, <1>5 DEF Fail

(***************************************************************************)
(* Every step preserves the types and the lock discipline of the UNIQUE     *)
(* index (all of UserService).                                              *)
(***************************************************************************)
LEMMA TypeStep == TypeOK /\ [Next]_vars => TypeOK'
<1> SUFFICES ASSUME TypeOK, [Next]_vars PROVE TypeOK'
  OBVIOUS
<1> USE AccountsAssumption
<1>1. CASE UNCHANGED vars
  BY <1>1 DEF vars, rows, TypeOK
<1>2. Taken \subseteq Email
  BY DEF Taken
<1>3. ASSUME NEW r \in Request, SignUp(r) \/ Me(r) PROVE TypeOK'
  <2>1. PICK e \in Email, step \in {"exists", "me"} : Begin(r, e, step)
    BY <1>3 DEF SignUp, Me
  <2> QED BY <1>2, <2>1 DEF Begin, Idle, rows, TypeOK
<1>4. ASSUME NEW r \in Request, CheckEmail(r) PROVE TypeOK'
  BY <1>4 DEF CheckEmail, End, Goto, rows, TypeOK
<1>5. ASSUME NEW r \in Request, Insert(r) PROVE TypeOK'
  BY <1>5 DEF Insert, Goto, TypeOK
<1>6. ASSUME NEW r \in Request, Wait(r) \/ Duplicate(r) \/ Recheck(r) PROVE TypeOK'
  BY <1>6 DEF Wait, Duplicate, Recheck, End, Goto, rows, TypeOK
<1>7. ASSUME NEW r \in Request, Commit(r) PROVE TypeOK'
  BY <1>7 DEF Commit, End, TypeOK
<1>8. ASSUME NEW r \in Request, Update(r) \/ Deactivate(r) \/ Read(r) PROVE TypeOK'
  BY <1>8 DEF Update, Deactivate, Read, End, rows, TypeOK
<1>9. ASSUME NEW r \in Request, FailCommitted(r) PROVE TypeOK'
  BY <1>9 DEF FailCommitted, Lose, TypeOK
<1>10. ASSUME NEW r \in Request, Fail(r) PROVE TypeOK'
  <2>1. PICK out \in SUBSET Request, h \in Request \union {NoRequest} :
           /\ pc[r] # "idle" /\ r \in out /\ h \notin out
           /\ \A q \in out \ {r} : pc[q] = "wait" /\ email[q] = email[r]
           /\ h # NoRequest => pc[r] = "commit" /\ pc[h] = "wait" /\ email[h] = email[r]
           /\ inserter' = [inserter EXCEPT ![email[r]] = IF @ = r THEN h ELSE @]
           /\ pc' = [q \in Request |-> IF q \in out THEN "idle" ELSE IF q = h THEN "commit" ELSE pc[q]]
           /\ view' = [q \in Request |-> IF q \in out THEN {} ELSE view[q]]
           /\ answer' = [q \in Request |-> IF q \in out THEN "error" ELSE answer[q]]
    BY <1>10, FailEffect
  <2>2. UNCHANGED <<account, name, email>> /\ failures' \in 0..MaxFailures
    BY <1>10 DEF Fail, Lose, TypeOK
  <2>3. \A q \in Request : \A e \in Email : inserter'[e] = q <=> pc'[q] = "commit" /\ email'[q] = e
    BY <2>1, <2>2 DEF TypeOK
  <2>4. inserter' \in [Email -> Request \union {NoRequest}]
    BY <2>1 DEF TypeOK
  <2>5. \A q \in Request : pc'[q] # "idle" \/ answer'[q] # "none" => email'[q] \in Email
    BY <2>1, <2>2 DEF TypeOK
  <2>6. pc' \in [Request -> {"idle", "exists", "insert", "wait", "commit", "recheck", "me"}]
    BY <2>1 DEF TypeOK
  <2>7. view' \in [Request -> SUBSET Email] /\ answer' \in [Request -> {"none", "created", "taken", "error"}]
    BY <2>1 DEF TypeOK
  <2> QED BY <2>2, <2>3, <2>4, <2>5, <2>6, <2>7 DEF TypeOK
<1> QED BY <1>1, <1>3, <1>4, <1>5, <1>6, <1>7, <1>8, <1>9, <1>10 DEF Next, Advance

(***************************************************************************)
(* The types hold, and no two requests hold an entry of the UNIQUE index.   *)
(***************************************************************************)
THEOREM TypeCorrect == Spec => []TypeOK
<1>1. Init => TypeOK
  BY AccountsAssumption DEF Init, TypeOK
<1> QED BY <1>1, TypeStep, PTL DEF Spec

(***************************************************************************)
(* No row is ever removed (users are deactivated, not deleted).             *)
(***************************************************************************)
LEMMA RowsStay ==
  TypeOK /\ [Next]_vars => \A e \in Email : account[e] # "none" => account'[e] # "none"
<1> SUFFICES ASSUME TypeOK, [Next]_vars, NEW e \in Email, account[e] # "none"
             PROVE  account'[e] # "none"
  OBVIOUS
<1>1. ASSUME NEW r \in Request, Commit(r) \/ FailCommitted(r) \/ Deactivate(r)
      PROVE  account'[e] # "none"
  BY <1>1 DEF Commit, FailCommitted, Deactivate, TypeOK
<1>2. ASSUME NEW r \in Request,
             \/ SignUp(r) \/ Me(r) \/ CheckEmail(r) \/ Insert(r) \/ Wait(r) \/ Duplicate(r)
             \/ Recheck(r) \/ Update(r) \/ Read(r) \/ Fail(r)
      PROVE  UNCHANGED account
  BY <1>2 DEF SignUp, Me, Begin, CheckEmail, Insert, Wait, Duplicate, Recheck, Update, Read, Fail, rows
<1> QED BY <1>1, <1>2 DEF Next, Advance, vars, rows

(***************************************************************************)
(* The invariant behind what sign-ups are told holds in every behaviour:    *)
(* the index entry serialises the INSERTs for an email (UserService.create).*)
(***************************************************************************)
THEOREM SignUpsAreRight == Spec => []SignUpInv
<1>1. Init => SignUpInv
  BY DEF Init, SignUpInv, Taken, OneWinner, EveryAnswerIsTrue, LosersAreTold
<1>2. TypeOK /\ SignUpInv /\ [Next]_vars => SignUpInv'
  <2> SUFFICES ASSUME TypeOK, SignUpInv, [Next]_vars PROVE SignUpInv'
    OBVIOUS
  <2> USE AccountsAssumption DEF SignUpInv, Taken, OneWinner, EveryAnswerIsTrue, LosersAreTold
  <2>1. \A e \in Email : account[e] # "none" => account'[e] # "none"
    BY RowsStay
  <2>2. \A r \in Request : answer[r] \in {"created", "taken"} => email[r] \in Email
    BY DEF TypeOK
  <2>3. CASE UNCHANGED vars
    BY <2>3 DEF vars, rows
  <2>4. ASSUME NEW r \in Request, SignUp(r) \/ Me(r) PROVE SignUpInv'
    <3>1. PICK e \in Email, step \in {"exists", "me"} :
            Begin(r, e, step) /\ (step = "me" => account[e] # "none")
      BY <2>4 DEF SignUp, Me
    <3> QED BY <3>1 DEF Begin, rows, TypeOK
  <2>5. ASSUME NEW r \in Request, CheckEmail(r) PROVE SignUpInv'
    BY <2>5 DEF CheckEmail, Exists, End, Goto, rows, TypeOK
  <2>6. ASSUME NEW r \in Request, Insert(r) PROVE SignUpInv'
    BY <2>6 DEF Insert, Goto, TypeOK
  <2>7. ASSUME NEW r \in Request, Wait(r) \/ Duplicate(r) PROVE SignUpInv'
    BY <2>7 DEF Wait, Duplicate, Goto, rows, TypeOK
  <2>8. ASSUME NEW r \in Request, Recheck(r) PROVE SignUpInv'
    BY <2>8 DEF Recheck, End, rows, TypeOK
  <2>9. ASSUME NEW r \in Request, Commit(r) PROVE SignUpInv'
    BY <2>1, <2>9 DEF Commit, End, TypeOK
  <2>10. ASSUME NEW r \in Request, Update(r) \/ Deactivate(r) \/ Read(r) PROVE SignUpInv'
    BY <2>1, <2>10 DEF Update, Deactivate, Read, End, rows, TypeOK
  <2>11. ASSUME NEW r \in Request, FailCommitted(r) PROVE SignUpInv'
    BY <2>1, <2>11 DEF FailCommitted, Lose, TypeOK
  <2>12. ASSUME NEW r \in Request, Fail(r) PROVE SignUpInv'
    <3>1. PICK out \in SUBSET Request, h \in Request \union {NoRequest} :
           /\ pc[r] # "idle" /\ r \in out /\ h \notin out
           /\ \A q \in out \ {r} : pc[q] = "wait" /\ email[q] = email[r]
           /\ h # NoRequest => pc[r] = "commit" /\ pc[h] = "wait" /\ email[h] = email[r]
           /\ inserter' = [inserter EXCEPT ![email[r]] = IF @ = r THEN h ELSE @]
           /\ pc' = [q \in Request |-> IF q \in out THEN "idle" ELSE IF q = h THEN "commit" ELSE pc[q]]
           /\ view' = [q \in Request |-> IF q \in out THEN {} ELSE view[q]]
           /\ answer' = [q \in Request |-> IF q \in out THEN "error" ELSE answer[q]]
      BY <2>12, FailEffect
    <3>2. UNCHANGED <<account, email>> /\ failures' # 0
      BY <2>12 DEF Fail, Lose, TypeOK
    <3>3. \A e \in Email : inserter'[e] # NoRequest => account'[e] = "none"
      BY <3>1, <3>2 DEF TypeOK
    <3>4. \A q \in Request : (pc'[q] \in {"recheck", "me"} => pc[q] \in {"recheck", "me"}) /\ view'[q] \subseteq view[q]
      BY <3>1 DEF TypeOK
    <3>5. \A q \in Request : answer'[q] \in {"created", "taken"} => answer'[q] = answer[q]
      BY <3>1
    <3> QED BY <3>2, <3>3, <3>4, <3>5 DEF TypeOK
  <2> QED BY <2>3, <2>4, <2>5, <2>6, <2>7, <2>8, <2>9, <2>10, <2>11, <2>12 DEF Next, Advance
<1> QED BY <1>1, <1>2, TypeCorrect, PTL DEF Spec

(***************************************************************************)
(* However many sign-ups for an email race, one of them is told it has the  *)
(* account (UserService.create).                                            *)
(***************************************************************************)
THEOREM OneWinnerPerEmail == Spec => []OneWinner
<1>1. SignUpInv => OneWinner
  BY DEF SignUpInv
<1> QED BY <1>1, SignUpsAreRight, PTL

(***************************************************************************)
(* A sign-up told "created" or "taken" is told so with reason               *)
(* (UserService.create, session.py).                                        *)
(***************************************************************************)
THEOREM AnswersAreTrue == Spec => []EveryAnswerIsTrue
<1>1. SignUpInv => EveryAnswerIsTrue
  BY DEF SignUpInv
<1> QED BY <1>1, SignUpsAreRight, PTL

(***************************************************************************)
(* While no connection is lost, losing the race for an email is no server   *)
(* error: create's second look at it finds the winner's row.                *)
(***************************************************************************)
THEOREM LosersHearConflict == Spec => []LosersAreTold
<1>1. SignUpInv => LosersAreTold
  BY DEF SignUpInv
<1> QED BY <1>1, SignUpsAreRight, PTL

(***************************************************************************)
(* No profile update and no sign-up reactivates an account                  *)
(* (UserService.update, deactivate).                                        *)
(***************************************************************************)
THEOREM DeactivatedForEver == Spec => DeactivationIsFinal
<1> DEFINE Final == \A e \in Email : account[e] = "inactive" => account'[e] = "inactive"
<1>1. TypeOK /\ SignUpInv /\ [Next]_vars => [Final]_vars
  <2> SUFFICES ASSUME TypeOK, SignUpInv, Next, NEW e \in Email, account[e] = "inactive"
               PROVE  account'[e] = "inactive"
    OBVIOUS
  <2>1. ASSUME NEW r \in Request, Commit(r) \/ FailCommitted(r) PROVE account'[e] = "inactive"
    <3>1. account[email[r]] = "none"
      BY <2>1, AccountsAssumption DEF Commit, FailCommitted, SignUpInv, TypeOK
    <3> QED BY <2>1, <3>1 DEF Commit, FailCommitted, TypeOK
  <2>2. ASSUME NEW r \in Request, Deactivate(r) PROVE account'[e] = "inactive"
    BY <2>2 DEF Deactivate, TypeOK
  <2>3. ASSUME NEW r \in Request,
               \/ SignUp(r) \/ Me(r) \/ CheckEmail(r) \/ Insert(r) \/ Wait(r) \/ Duplicate(r)
               \/ Recheck(r) \/ Update(r) \/ Read(r) \/ Fail(r)
        PROVE  UNCHANGED account
    BY <2>3 DEF SignUp, Me, Begin, CheckEmail, Insert, Wait, Duplicate, Recheck, Update, Read, Fail, rows
  <2> QED BY <2>1, <2>2, <2>3 DEF Next, Advance
<1>2. DeactivationIsFinal <=> [][Final]_vars
  BY PTL DEF DeactivationIsFinal
<1> QED BY <1>1, <1>2, TypeCorrect, SignUpsAreRight, PTL DEF Spec

-----------------------------------------------------------------------------
(* The registry that Accounts implements *)

LEMMA AskedIs ==
    ASSUME NEW r \in Request
    PROVE  /\ pc[r] = "idle" => Asked(r) = "nothing"
           /\ pc[r] = "me" => Asked(r) = "me"
           /\ pc[r] \notin {"idle", "me"} => Asked(r) = "sign-up"
  BY DEF Asked

LEMMA AskedIsNext ==
    ASSUME NEW r \in Request
    PROVE  /\ pc'[r] = "idle" => Asked(r)' = "nothing"
           /\ pc'[r] = "me" => Asked(r)' = "me"
           /\ pc'[r] \notin {"idle", "me"} => Asked(r)' = "sign-up"
  BY DEF Asked

(* A sign-up that only gets further is none of the registry's business.     *)
LEMMA GotoIsStutter ==
    ASSUME TypeOK, NEW r \in Request, NEW step \in {"insert", "commit", "wait", "recheck"},
           pc[r] \notin {"idle", "me"}, Goto(r, step), UNCHANGED account
    PROVE  UNCHANGED Registry!registry
<1>1. \A q \in Request : Asked(q)' = Asked(q)
  <2> SUFFICES ASSUME NEW q \in Request PROVE Asked(q)' = Asked(q)
    OBVIOUS
  <2>1. pc'[q] = pc[q] \/ (q = r /\ pc'[q] \notin {"idle", "me"})
    BY DEF Goto, TypeOK
  <2> QED
    BY <2>1, AskedIs, AskedIsNext
<1>2. UNCHANGED <<email, answer>>
  BY DEF Goto
<1> QED
  BY <1>1, <1>2 DEF Registry!registry

(* Requests that end are answered, and no other. *)
LEMMA EndsAreAnswers ==
    ASSUME TypeOK, NEW S \in SUBSET Request, NEW a, \A r \in S : ~Idle(r),
           \A q \in Request : q \in S => pc'[q] = "idle",
           \A q \in Request \ S : Asked(q)' = Asked(q),
           answer' = [q \in Request |-> IF q \in S THEN a ELSE answer[q]],
           UNCHANGED email
    PROVE  Registry!Answer(S, a)
<1>1. \A r \in S : Asked(r) # "nothing"
  BY AskedIs DEF Idle, Asked
<1>2. \A q \in Request : Asked(q)' = IF q \in S THEN "nothing" ELSE Asked(q)
  BY AskedIsNext
<1> QED
  BY <1>1, <1>2 DEF Registry!Answer

LEMMA EndAnswers ==
    ASSUME TypeOK, NEW r \in Request, NEW a, ~Idle(r),
           pc' = [pc EXCEPT ![r] = "idle"], answer' = [answer EXCEPT ![r] = a], UNCHANGED email
    PROVE  Registry!Answer({r}, a)
<1>1. \A q \in Request \ {r} : pc'[q] = pc[q]
  BY DEF TypeOK
<1>2. /\ {r} \in SUBSET Request /\ \A q \in {r} : ~Idle(q)
      /\ \A q \in Request : q \in {r} => pc'[q] = "idle"
  BY DEF TypeOK
<1>3. \A q \in Request \ {r} : Asked(q)' = Asked(q)
  BY <1>1 DEF Asked
<1>4. answer' = [q \in Request |-> IF q \in {r} THEN a ELSE answer[q]]
  BY DEF TypeOK
<1> QED
  BY <1>2, <1>3, <1>4, EndsAreAnswers

(***************************************************************************)
(* Every step of a request is one of the registry, or none: an INSERT       *)
(* commits only where no row is, "taken" is said only where one is.         *)
(***************************************************************************)
LEMMA RegistryStep ==
    ASSUME TypeOK, SignUpInv, [Next]_vars
    PROVE  [Registry!RegistryNext]_(Registry!registry)
<1> USE DEF Registry!RegistryNext
<1>1. CASE UNCHANGED vars
  BY <1>1 DEF vars, rows, Registry!registry, Asked
<1>2. ASSUME NEW r \in Request, SignUp(r) \/ Me(r)
      PROVE  Registry!RegistryNext
  <2>1. PICK e \in Email, step \in {"exists", "me"} :
          Begin(r, e, step) /\ (step = "me" => account[e] = "active")
    BY <1>2 DEF SignUp, Me
  <2>2. PICK what \in {"sign-up", "me"} :
          /\ what = "me" => step = "me"
          /\ step = "me" => what = "me"
    OBVIOUS
  <2>3. pc[r] = "idle" /\ pc'[r] = step /\ \A q \in Request \ {r} : pc'[q] = pc[q]
    BY <2>1 DEF Begin, Idle, TypeOK
  <2>4. Asked(r) = "nothing" /\ Asked(r)' = what
    BY <2>2, <2>3, AskedIs, AskedIsNext
  <2>5. \A q \in Request \ {r} : Asked(q)' = Asked(q)
    BY <2>3 DEF Asked
  <2>6. Registry!Ask(r, e, what)
    BY <2>1, <2>2, <2>4, <2>5 DEF Registry!Ask, Begin, rows
  <2> QED
    BY <2>6
<1>3. ASSUME NEW r \in Request, ~Idle(r), pc[r] # "me", End(r, "taken"), UNCHANGED account,
             account[email[r]] # "none"
      PROVE  Registry!RegistryNext
  <2>1. Registry!Answer({r}, "taken")
    BY <1>3, EndAnswers DEF End
  <2>2. Asked(r) = "sign-up"
    BY <1>3, AskedIs DEF Idle
  <2>3. Registry!Taken(r)
    BY <1>3, <2>1, <2>2 DEF Registry!Taken
  <2> QED
    BY <2>3
<1>4. ASSUME NEW r \in Request, CheckEmail(r)
      PROVE  [Registry!RegistryNext]_(Registry!registry)
  <2>1. pc[r] = "exists" /\ ~Idle(r) /\ UNCHANGED account
    BY <1>4 DEF CheckEmail, Idle, rows
  <2>2. CASE Exists(r) /\ End(r, "taken")
    <3>1. account[email[r]] # "none"
      BY <2>2 DEF Exists, SignUpInv, Taken
    <3> QED
      BY <1>3, <2>1, <2>2, <3>1
  <2>3. CASE Goto(r, "insert")
    BY <2>1, <2>3, GotoIsStutter
  <2> QED
    BY <1>4, <2>2, <2>3 DEF CheckEmail
<1>5. ASSUME NEW r \in Request, Insert(r) \/ Wait(r) \/ Duplicate(r)
      PROVE  UNCHANGED Registry!registry
  <2>1. /\ pc[r] \notin {"idle", "me"} /\ UNCHANGED account
        /\ \E step \in {"commit", "wait", "recheck"} : Goto(r, step)
    BY <1>5 DEF Insert, Wait, Duplicate, rows
  <2> QED
    BY <2>1, GotoIsStutter
<1>6. ASSUME NEW r \in Request, Recheck(r)
      PROVE  Registry!RegistryNext
  <2>1. pc[r] = "recheck" /\ UNCHANGED account
    BY <1>6 DEF Recheck, rows
  <2>2. email[r] \in Email /\ account[email[r]] # "none"
    BY <2>1 DEF TypeOK, SignUpInv
  <2>3. End(r, "taken")
    BY <1>6, <2>2 DEF Recheck, Taken
  <2> QED
    BY <1>3, <2>1, <2>2, <2>3 DEF Idle
<1>7. ASSUME NEW r \in Request, pc[r] = "commit",
             account' = [account EXCEPT ![email[r]] = "active"]
      PROVE  Registry!Register(r)
  <2>1. email[r] \in Email /\ inserter[email[r]] = r
    BY <1>7 DEF TypeOK
  <2>2. account[email[r]] = "none"
    BY <2>1, AccountsAssumption DEF SignUpInv
  <2>3. Asked(r) = "sign-up"
    BY <1>7, AskedIs
  <2> QED
    BY <1>7, <2>2, <2>3 DEF Registry!Register
<1>8. ASSUME NEW r \in Request, Commit(r)
      PROVE  Registry!RegistryNext
  <2>1. Registry!Answer({r}, "created")
    BY <1>8, EndAnswers DEF Commit, End, Idle
  <2>2. Registry!Created(r)
    BY <1>7, <1>8, <2>1 DEF Commit, Registry!Created
  <2> QED
    BY <2>2
<1>9. ASSUME NEW r \in Request, Update(r) \/ Deactivate(r) \/ Read(r)
      PROVE  Registry!RegistryNext
  <2>1. pc[r] = "me" /\ End(r, "none")
    BY <1>9 DEF Update, Deactivate, Read
  <2>2. Registry!Answer({r}, "none") /\ Asked(r) = "me"
    BY <2>1, EndAnswers, AskedIs DEF End, Idle
  <2>3. CASE UNCHANGED account
    BY <2>2, <2>3 DEF Registry!Served
  <2>4. CASE account' = [account EXCEPT ![email[r]] = "inactive"]
    BY <2>2, <2>4 DEF Registry!Deactivated
  <2> QED
    BY <1>9, <2>3, <2>4 DEF Update, Deactivate, Read, rows
<1>10. ASSUME NEW r \in Request, FailCommitted(r)
       PROVE  Registry!RegistryNext
  <2>1. Registry!Answer({r}, "error")
    BY <1>10, EndAnswers DEF FailCommitted, Idle
  <2>2. Registry!Register(r)
    BY <1>7, <1>10 DEF FailCommitted
  <2>3. Registry!Lost(r, {r})
    BY <2>1, <2>2 DEF Registry!Lost
  <2> QED
    BY <2>3
<1>11. ASSUME NEW r \in Request, Fail(r)
       PROVE  Registry!RegistryNext
  <2>1. PICK out \in SUBSET Request, h \in Request \union {NoRequest} :
           /\ pc[r] # "idle" /\ r \in out /\ h \notin out
           /\ \A q \in out \ {r} : pc[q] = "wait" /\ email[q] = email[r]
           /\ h # NoRequest => pc[h] = "wait"
           /\ pc' = [q \in Request |-> IF q \in out THEN "idle" ELSE IF q = h THEN "commit" ELSE pc[q]]
           /\ answer' = [q \in Request |-> IF q \in out THEN "error" ELSE answer[q]]
    BY <1>11, FailEffect
  <2>2. UNCHANGED <<account, email>>
    BY <1>11 DEF Fail
  <2>3. \A q \in Request \ out : Asked(q)' = Asked(q)
    <3> SUFFICES ASSUME NEW q \in Request \ out PROVE Asked(q)' = Asked(q)
      OBVIOUS
    <3>1. CASE q = h
      <4>1. pc[q] = "wait" /\ pc'[q] = "commit"
        BY <2>1, <3>1, AccountsAssumption
      <4> QED
        BY <4>1, AskedIs, AskedIsNext
    <3>2. CASE q # h
      <4>1. pc'[q] = pc[q]
        BY <2>1, <3>2
      <4> QED
        BY <4>1 DEF Asked
    <3> QED
      BY <3>1, <3>2
  <2>4. \A q \in out : ~Idle(q) /\ pc'[q] = "idle"
    BY <2>1 DEF Idle
  <2>5. Registry!Answer(out, "error")
    BY <2>1, <2>2, <2>3, <2>4, EndsAreAnswers
  <2>6. \A q \in out \ {r} : Asked(q) = "sign-up" /\ email[q] = email[r]
    BY <2>1, AskedIs
  <2>7. Registry!Lost(r, out)
    BY <2>1, <2>2, <2>5, <2>6 DEF Registry!Lost
  <2> QED
    BY <2>7
<1> QED
  BY <1>1, <1>2, <1>4, <1>5, <1>6, <1>8, <1>9, <1>10, <1>11 DEF Next, Advance

(***************************************************************************)
(* The service implements the registry: a sign-up is one indivisible        *)
(* test-and-set, for any number that race (UserService.create, update,      *)
(* deactivate).                                                             *)
(***************************************************************************)
THEOREM Implements == Spec => ImplementsUserRegistry
<1>1. Init => Registry!RegistryInit
  BY DEF Init, Registry!RegistryInit, Asked
<1>2. TypeOK /\ SignUpInv /\ [Next]_vars => [Registry!RegistryNext]_(Registry!registry)
  BY RegistryStep
<1> QED
  BY <1>1, <1>2, TypeCorrect, SignUpsAreRight, PTL
  DEF Spec, ImplementsUserRegistry, Registry!RegistrySpec

=============================================================================
