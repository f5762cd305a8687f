-------------------------------- MODULE Pages --------------------------------
(***************************************************************************)
(* Page by page through a list that changes between the pages: list_posts,   *)
(* the comments' list_by_post and list_reports.                             *)
(*                                                                         *)
(* Total and items of one answer are read in one REPEATABLE READ snapshot,   *)
(* so a request is one step.  Nothing ties one request to the next.  The    *)
(* client that asks for page 1, 2, ... total_pages is external.             *)
(***************************************************************************)
EXTENDS Rows

CONSTANT MaxSize    \* le of PageParams.size

ASSUME SizeAssumption == MaxSize \in Nat

VARIABLES
    size,       \* PageParams.size, the same for every page of a walk
    page,       \* the page last read, 0 before the first
    pages,      \* total_pages of that answer
    base,       \* history: what the list held when page 1 was read
    seen,       \* rows the client was given
    twice,      \* history: some row was given again
    entered,    \* history: a row entered the list since page 1 was read
    left        \* history: a row left it since

walk == <<size, page, pages, base, seen, twice, entered, left>>

InitWalk ==
    /\ size \in 1..MaxSize
    /\ page = 0 /\ pages = 0 /\ base = {} /\ seen = {}
    /\ twice = FALSE /\ entered = FALSE /\ left = FALSE

-----------------------------------------------------------------------------
(* ORDER BY post_id DESC; (created_at, comment_id), reversed; created_at     *)
(* DESC alone, where rows of one second have the order MySQL gives them in   *)
(* that query.                                                             *)
Before(q, r, tie) ==
    CASE kind = "posts" -> q > r
      [] kind = "comments" -> second[q] > second[r] \/ (second[q] = second[r] /\ q > r)
      [] kind = "reports" -> second[q] > second[r] \/ (second[q] = second[r] /\ tie[q] > tie[r])

Tie == {f \in [Row -> Row] : \A q, r \in Row : f[q] = f[r] => q = r}

Ahead(r, tie) == {q \in Listed : Before(q, r, tie)}

offset(p) == (p - 1) * size

(* OFFSET offset LIMIT size, or the slice of the sorted list.               *)
ShownOneMore(p, tie) ==     \* mutant: the slice includes its end
    {r \in Listed : LET n == Cardinality(Ahead(r, tie)) IN offset(p) <= n /\ n <= offset(p) + size}

Shown(p, tie) ==
    {r \in Listed : LET n == Cardinality(Ahead(r, tie)) IN offset(p) <= n /\ n < offset(p) + size}

TotalPagesFloor ==          \* mutant: the last, partial page is not counted
    Cardinality(Listed) \div size

TotalPages ==
    IF Listed = {} THEN 0 ELSE (Cardinality(Listed) + size - 1) \div size

-----------------------------------------------------------------------------
Give(p, tie) ==
    /\ page' = p /\ pages' = TotalPages
    /\ seen' = seen \union Shown(p, tie)
    /\ twice' = (twice \/ Shown(p, tie) \intersect seen # {})
    /\ UNCHANGED <<rows, size, entered, left>>

FirstPage(tie) ==
    /\ page = 0
    /\ base' = Listed
    /\ Give(1, tie)

NextPage(tie) ==
    /\ 0 < page /\ page < pages
    /\ Give(page + 1, tie)
    /\ UNCHANGED base

Quiet == UNCHANGED <<size, page, pages, base, seen, twice>>

Create(r) == Insert(r) /\ UNCHANGED walk

Rejected(r) == RollBack(r) /\ UNCHANGED walk

Enter(r) == Commit(r) /\ Quiet /\ entered' = (entered \/ page > 0) /\ UNCHANGED left

Leave(S) == Withdraw(S) /\ Quiet /\ left' = (left \/ page > 0) /\ UNCHANGED entered

PagesInit == InitRows /\ InitWalk

PagesNext ==
    \/ \E r \in Row : Create(r) \/ Rejected(r) \/ Enter(r)
    \/ \E S \in SUBSET Listed : Leave(S)
    \/ \E tie \in Tie : FirstPage(tie) \/ NextPage(tie)

-----------------------------------------------------------------------------
Over == 0 < page /\ pages <= page

Tied ==
    /\ kind = "reports"
    /\ \E q, r \in Row : q # r /\ row[q] # "none" /\ row[r] # "none" /\ second[q] = second[r]

(* A client that reads every page misses a row only if one left the list     *)
(* meanwhile -- and reports of one second, for which the query has no order. *)
NothingMissedWithoutWithdrawal == Over /\ ~left /\ ~Tied => base \subseteq seen

(* It is given a row twice only if one entered meanwhile (or, again, for     *)
(* reports of one second).                                                 *)
NothingTwiceWithoutCreation == twice => entered \/ Tied
===============================================================================
