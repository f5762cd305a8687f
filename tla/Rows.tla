--------------------------------- MODULE Rows ---------------------------------
(***************************************************************************)
(* A table whose rows come and go while clients read it: the published       *)
(* posts, the comments of a post, the pending reports.                      *)
(***************************************************************************)
EXTENDS Integers, FiniteSets

CONSTANTS MaxRow, MaxSecond     \* bounds: ids given out, seconds told apart

ASSUME RowsAssumption == MaxRow \in Nat /\ MaxSecond \in Nat \ {0}

Row == 1..MaxRow

VARIABLES
    kind,       \* the table: "posts", "comments" or "reports"
    row,        \* [Row -> "none", "pending", "listed" or "gone"]
    second      \* [Row -> created_at, which has whole seconds]

rows == <<kind, row, second>>

Kind == {"posts", "comments", "reports"}

InitRows ==
    /\ kind \in Kind
    /\ row = [r \in Row |-> "none"]
    /\ second = [r \in Row |-> 1]

(* Committed, and neither deleted, hidden nor processed.                    *)
Listed == {r \in Row : row[r] = "listed"}

(* The id and CURRENT_TIMESTAMP are taken by the INSERT, before the commit:  *)
(* rows come into the list in any order, and where a statement waited for   *)
(* its id the order of ids is not that of seconds.  No list of posts uses   *)
(* theirs.                                                                 *)
Insert(r) ==
    /\ row[r] = "none"
    /\ \A q \in Row : q < r => row[q] # "none"
    /\ \E s \in 1..(IF kind = "posts" THEN 1 ELSE MaxSecond) :
          second' = [second EXCEPT ![r] = s]
    /\ row' = [row EXCEPT ![r] = "pending"]
    /\ UNCHANGED kind

Commit(r) ==
    /\ row[r] = "pending"
    /\ row' = [row EXCEPT ![r] = "listed"]
    /\ UNCHANGED <<kind, second>>

RollBack(r) ==
    /\ row[r] = "pending"
    /\ row' = [row EXCEPT ![r] = "gone"]
    /\ UNCHANGED <<kind, second>>

(* A post is deleted or hidden, a comment deleted; a decision takes every    *)
(* pending report of its target.                                           *)
Withdraw(S) ==
    /\ S # {} /\ S \subseteq Listed
    /\ kind # "reports" => Cardinality(S) = 1
    /\ row' = [r \in Row |-> IF r \in S THEN "gone" ELSE row[r]]
    /\ UNCHANGED <<kind, second>>
===============================================================================
