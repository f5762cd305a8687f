------------------------------ MODULE PostLikes ------------------------------
(***************************************************************************)
(* The likes of one post, written behind: a like or unlike goes to a Redis  *)
(* key post_like:{post}:{user}, and a job of every worker process moves     *)
(* the keys to the table posts_like every five minutes                      *)
(* (app/modules/posts, PostRepository and post_like_sync).                  *)
(*                                                                          *)
(* A database session reads from the snapshot its first SELECT took         *)
(* (MySQL's REPEATABLE READ); a request's is that of get_current_user.      *)
(* Keys of different posts share nothing but the job's batch, which the     *)
(* keys of different users of one post show as well.                        *)
(***************************************************************************)
EXTENDS Integers, FiniteSets

CONSTANTS User, NoUser, Request, Worker,
          MaxLike,      \* like and unlike requests (bounds the model)
          MaxCrash      \* worker deaths (bounds the model)

ASSUME LikesAssumption ==
    /\ IsFiniteSet(User) /\ IsFiniteSet(Worker)
    /\ NoUser \notin User
    /\ MaxLike \in Nat
    /\ MaxCrash \in Nat

VARIABLES
    cache,      \* [User -> {"none", "1", "0"}]: the user's Redis key
    row,        \* [User -> Nat]: like_id of the user's row, 0 if there is none
    lastRow,    \* [User -> Nat]: AUTO_INCREMENT, as far as this user sees it
    \* requests
    pc,         \* [Request -> {"idle", "get", "set", "keys", "count"}]
    who,        \* [Request -> User or NoUser]
    goal,       \* [Request -> BOOLEAN]: like or unlike; a view: by the author
    view,       \* [Request -> [User -> Nat]]: the session's snapshot of row
    pend,       \* [Request -> [User -> status]]: the MGET reply
    likes,      \* like and unlike requests so far
    \* the job, one instance per worker process
    wpc,        \* [Worker -> {"idle", "scan", "look", "delete"}]
    must,       \* [Worker -> SUBSET User]: keys SCAN still has to return
    cur,        \* [Worker -> <<user, status>>]: the key in hand
    wview,      \* [Worker -> [User -> Nat]]: the session's snapshot of row
    adds, dels, \* [Worker -> SUBSET User]: inserts and deletes to commit
    done,       \* [Worker -> SUBSET User]: processed_keys
    crashes,
    \* history variables, read by no action
    want,       \* [User -> BOOLEAN]: the last choice acknowledged to the user
    tainted,    \* SUBSET User: a request of theirs overlapped the job
    mixed       \* SUBSET Request: those under way that overlapped a job or a choice

requestVars == <<pc, who, goal, view, pend, likes>>
jobVars == <<wpc, must, cur, wview, adds, dels, done, crashes>>
historyVars == <<want, tainted, mixed>>
vars == <<cache, row, lastRow, requestVars, jobVars, historyVars>>

Status == {"none", "1", "0"}
NoRows == [u \in User |-> 0]
NoKeys == [u \in User |-> "none"]
Present == {u \in User : cache[u] # "none"}

-----------------------------------------------------------------------------
Init ==
    /\ cache = NoKeys
    /\ row = NoRows
    /\ lastRow = NoRows
    /\ pc = [r \in Request |-> "idle"]
    /\ who = [r \in Request |-> NoUser]
    /\ goal = [r \in Request |-> FALSE]
    /\ view = [r \in Request |-> NoRows]
    /\ pend = [r \in Request |-> NoKeys]
    /\ likes = 0
    /\ wpc = [w \in Worker |-> "idle"]
    /\ must = [w \in Worker |-> {}]
    /\ cur = [w \in Worker |-> <<NoUser, "none">>]
    /\ wview = [w \in Worker |-> NoRows]
    /\ adds = [w \in Worker |-> {}]
    /\ dels = [w \in Worker |-> {}]
    /\ done = [w \in Worker |-> {}]
    /\ crashes = 0
    /\ want = [u \in User |-> FALSE]
    /\ tainted = {}
    /\ mixed = {}

-----------------------------------------------------------------------------
(* Requests                                                                 *)

(* get_current_user reads the user: the session's snapshot is taken.        *)
Begin(r, step) ==
    /\ pc[r] = "idle"
    /\ pc' = [pc EXCEPT ![r] = step]
    /\ \E u \in User : who' = [who EXCEPT ![r] = u]
    /\ \E g \in BOOLEAN : goal' = [goal EXCEPT ![r] = g]
    /\ view' = [view EXCEPT ![r] = row]
    /\ UNCHANGED <<pend, jobVars, cache, row, lastRow, want>>

End(r) ==
    /\ pc' = [pc EXCEPT ![r] = "idle"]
    /\ who' = [who EXCEPT ![r] = NoUser]
    /\ goal' = [goal EXCEPT ![r] = FALSE]
    /\ view' = [view EXCEPT ![r] = NoRows]
    /\ pend' = [pend EXCEPT ![r] = NoKeys]
    /\ UNCHANGED likes

Acknowledge(r) == want' = [want EXCEPT ![who[r]] = goal[r]]

(* POST or DELETE /posts/{post_id}/like *)
BeginLike(r) ==
    /\ likes < MaxLike
    /\ likes' = likes + 1
    /\ Begin(r, "get")

(* PostRepository.get_like: the key if there is one, the snapshot if not. *)
IsLiked(u, rows) == IF cache[u] # "none" THEN cache[u] = "1" ELSE rows[u] # 0

(* like_post and unlike_post return at once if the choice already stands. *)
AlreadySo(r) ==
    /\ pc[r] = "get"
    /\ IsLiked(who[r], view[r]) = goal[r]
    /\ Acknowledge(r)
    /\ End(r)
    /\ UNCHANGED <<cache, row, lastRow, jobVars>>

MustChange(r) ==
    /\ pc[r] = "get"
    /\ IsLiked(who[r], view[r]) # goal[r]
    /\ pc' = [pc EXCEPT ![r] = "set"]
    /\ UNCHANGED <<cache, row, lastRow, who, goal, view, pend, likes, jobVars, want>>

(* add_like and delete_like *)
SetKey(r) ==
    /\ pc[r] = "set"
    /\ cache' = [cache EXCEPT ![who[r]] = IF goal[r] THEN "1" ELSE "0"]
    /\ Acknowledge(r)
    /\ End(r)
    /\ UNCHANGED <<row, lastRow, jobVars>>

(* GET /posts/{post_id}: PostService.get_detail *)
BeginView(r) ==
    /\ Begin(r, "keys")
    /\ UNCHANGED likes

(* count_likes, SCAN and MGET (one step: a key set in between is missed, as *)
(* if it had been set after both).  Before it, a reader who is not the      *)
(* author has committed the view counter, which ends the snapshot.          *)
ReadKeys(r) ==
    /\ pc[r] = "keys"
    /\ pend' = [pend EXCEPT ![r] = cache]
    /\ pc' = [pc EXCEPT ![r] = "count"]
    /\ UNCHANGED <<cache, row, lastRow, who, goal, view, likes, jobVars, want>>

CountView(r) == IF goal[r] THEN view[r] ELSE row

CountLikesTwice(rows, keys) ==  \* mutant: saved likes are not subtracted
    Cardinality({u \in User : rows[u] # 0}) + Cardinality({u \in User : keys[u] = "1"})

CountLikesBlind(rows, keys) ==  \* mutant: an unlike counts though never saved
    Cardinality({u \in User : rows[u] # 0})
    + Cardinality({u \in User : keys[u] = "1" /\ rows[u] = 0})
    - Cardinality({u \in User : keys[u] = "0"})

(* count_likes: the rows, corrected by the pending keys that differ. *)
CountLikes(rows, keys) ==
    Cardinality({u \in User : rows[u] # 0})
    + Cardinality({u \in User : keys[u] = "1" /\ rows[u] = 0})
    - Cardinality({u \in User : keys[u] = "0" /\ rows[u] # 0})

Count(r) ==
    /\ pc[r] = "count"
    /\ End(r)
    /\ UNCHANGED <<cache, row, lastRow, jobVars, want>>

(* A Redis or database error, or the death of the process. *)
Fail(r) ==
    /\ pc[r] # "idle"
    /\ End(r)
    /\ UNCHANGED <<cache, row, lastRow, jobVars, want>>

-----------------------------------------------------------------------------
(* The job: PostRepository.scan_like_to_db                                  *)

JobEnd(w) ==
    /\ wpc' = [wpc EXCEPT ![w] = "idle"]
    /\ cur' = [cur EXCEPT ![w] = <<NoUser, "none">>]
    /\ wview' = [wview EXCEPT ![w] = NoRows]
    /\ adds' = [adds EXCEPT ![w] = {}]
    /\ dels' = [dels EXCEPT ![w] = {}]
    /\ done' = [done EXCEPT ![w] = {}]

(* The scan will return every key there from its start to its end. *)
JobStart(w) ==
    /\ wpc[w] = "idle"
    /\ Present # {}
    /\ wpc' = [wpc EXCEPT ![w] = "scan"]
    /\ must' = [must EXCEPT ![w] = Present]
    /\ UNCHANGED <<cache, row, lastRow, cur, wview, adds, dels, done, crashes,
                   requestVars, want>>

(* The next key, which may have been set or deleted since, and its GET. *)
JobGet(w) ==
    /\ wpc[w] = "scan"
    /\ \E u \in (must[w] \union Present) \ done[w] :
        cur' = [cur EXCEPT ![w] = <<u, cache[u]>>]
    /\ wpc' = [wpc EXCEPT ![w] = "look"]
    /\ UNCHANGED <<cache, row, lastRow, must, wview, adds, dels, done, crashes,
                   requestVars, want>>

(* The SELECT, the first of which takes the snapshot, and db.add or delete. *)
JobLook(w) ==
    /\ wpc[w] = "look"
    /\ LET u == cur[w][1]
           status == cur[w][2]
           rows == IF done[w] = {} THEN row ELSE wview[w]
       IN  /\ wview' = [wview EXCEPT ![w] = rows]
           /\ adds' = [adds EXCEPT ![w] = @ \union {v \in {u} : status = "1" /\ rows[u] = 0}]
           /\ dels' = [dels EXCEPT ![w] = @ \union {v \in {u} : status = "0" /\ rows[u] # 0}]
           /\ done' = [done EXCEPT ![w] = @ \union {u}]
    /\ wpc' = [wpc EXCEPT ![w] = "scan"]
    /\ UNCHANGED <<cache, row, lastRow, must, cur, crashes, requestVars, want>>

CommittedAddsOnly(w) ==  \* mutant: unlikes are not carried over
    [u \in User |-> IF u \in adds[w] THEN lastRow[u] + 1 ELSE row[u]]

(* What the commit makes of the table: a DELETE by like_id misses a row that *)
(* another job has replaced.                                                *)
Committed(w) ==
    [u \in User |-> IF u \in adds[w] THEN lastRow[u] + 1
                    ELSE IF u \in dels[w] /\ row[u] = wview[w][u] THEN 0
                    ELSE row[u]]

ScanOver(w) == wpc[w] = "scan" /\ must[w] \subseteq done[w]

JobCommit(w) ==
    /\ ScanOver(w)
    /\ \A u \in adds[w] : row[u] = 0
    /\ row' = Committed(w)
    /\ lastRow' = [u \in User |-> IF u \in adds[w] THEN lastRow[u] + 1 ELSE lastRow[u]]
    /\ wpc' = [wpc EXCEPT ![w] = "delete"]
    /\ UNCHANGED <<cache, must, cur, wview, adds, dels, done, crashes, requestVars, want>>

(* uq_posts_like_post_id_user_id, found at the commit or when a later SELECT *)
(* flushes the inserts: the batch is rolled back, the keys stay.            *)
JobDuplicate(w) ==
    /\ ScanOver(w) \/ wpc[w] = "look"
    /\ \E u \in adds[w] : row[u] # 0
    /\ must' = [must EXCEPT ![w] = {}]
    /\ JobEnd(w)
    /\ UNCHANGED <<cache, row, lastRow, crashes, requestVars, want>>

JobDeleteChanged(w) ==  \* mutant: keys that changed no row are left there
    /\ wpc[w] = "delete"
    /\ cache' = [u \in User |-> IF u \in adds[w] \union dels[w] THEN "none" ELSE cache[u]]
    /\ must' = [v \in Worker |-> IF v = w THEN {} ELSE must[v] \ done[w]]
    /\ JobEnd(w)
    /\ UNCHANGED <<row, lastRow, crashes, requestVars, want>>

(* DEL of the processed keys; no scan has to return them any more. *)
JobDelete(w) ==
    /\ wpc[w] = "delete"
    /\ cache' = [u \in User |-> IF u \in done[w] THEN "none" ELSE cache[u]]
    /\ must' = [v \in Worker |-> IF v = w THEN {} ELSE must[v] \ done[w]]
    /\ JobEnd(w)
    /\ UNCHANGED <<row, lastRow, crashes, requestVars, want>>

(* The process dies, or Redis or the database fails, at any step. *)
JobCrash(w) ==
    /\ wpc[w] # "idle"
    /\ crashes < MaxCrash
    /\ crashes' = crashes + 1
    /\ must' = [must EXCEPT ![w] = {}]
    /\ JobEnd(w)
    /\ UNCHANGED <<cache, row, lastRow, requestVars, want>>

-----------------------------------------------------------------------------
Busy == {w \in Worker : wpc[w] # "idle"}
Choosing == {who[r] : r \in {q \in Request : pc[q] \in {"get", "set"}}}

(* Who has been through an overlap, recorded as each step leads into one. *)
Record ==
    /\ tainted' = tainted \union
         (IF Cardinality(Busy') > 1 THEN User ELSE IF Busy' # {} THEN Choosing' ELSE {})
    /\ mixed' = {r \in Request :
         /\ pc'[r] # "idle"
         /\ r \in mixed \/ Busy' # {} \/ \E q \in Request \ {r} : pc'[q] \in {"get", "set"}}

Step ==
    \/ \E r \in Request :
        \/ BeginLike(r) \/ AlreadySo(r) \/ MustChange(r) \/ SetKey(r)
        \/ BeginView(r) \/ ReadKeys(r) \/ Count(r) \/ Fail(r)
    \/ \E w \in Worker :
        \/ JobStart(w) \/ JobGet(w) \/ JobLook(w) \/ JobCommit(w)
        \/ JobDuplicate(w) \/ JobDelete(w) \/ JobCrash(w)

Next == Step /\ Record

Spec == Init /\ [][Next]_vars

(***************************************************************************)
(* The scheduler starts the job again and again and the job does not stop   *)
(* in its middle; requests under way come to their end.  No user has to do  *)
(* anything, and the job may die MaxCrash times.                            *)
(***************************************************************************)
Advance(r) == AlreadySo(r) \/ MustChange(r) \/ SetKey(r) \/ ReadKeys(r) \/ Count(r)
Work(w) ==
    JobStart(w) \/ JobGet(w) \/ JobLook(w) \/ JobCommit(w) \/ JobDuplicate(w) \/ JobDelete(w)

Fairness ==
    /\ \A r \in Request : WF_vars(Advance(r) /\ Record)
    /\ \A w \in Worker : WF_vars(Work(w) /\ Record)

FairSpec == Spec /\ Fairness

-----------------------------------------------------------------------------
TypeOK ==
    /\ cache \in [User -> Status] /\ row \in [User -> Nat] /\ lastRow \in [User -> Nat]
    /\ pc \in [Request -> {"idle", "get", "set", "keys", "count"}]
    /\ who \in [Request -> User \union {NoUser}]
    /\ goal \in [Request -> BOOLEAN]
    /\ view \in [Request -> [User -> Nat]] /\ pend \in [Request -> [User -> Status]]
    /\ likes \in Nat
    /\ wpc \in [Worker -> {"idle", "scan", "look", "delete"}]
    /\ must \in [Worker -> SUBSET User]
    /\ cur \in [Worker -> (User \union {NoUser}) \X Status]
    /\ wview \in [Worker -> [User -> Nat]]
    /\ adds \in [Worker -> SUBSET User] /\ dels \in [Worker -> SUBSET User]
    /\ done \in [Worker -> SUBSET User]
    /\ crashes \in Nat
    /\ want \in [User -> BOOLEAN] /\ tainted \subseteq User /\ mixed \subseteq Request
    /\ \A r \in Request : pc[r] # "idle" => who[r] \in User
    /\ \A w \in Worker : wpc[w] = "look" => cur[w][1] \in User

(* What the service shows a user of their own like, sessions apart. *)
Liked(u) == IsLiked(u, row)

(***************************************************************************)
(* The choice of a user none of whose requests overlapped a run of the job, *)
(* and the job no other run of itself, stands at every moment: through the  *)
(* scan, the commit, the deletion of the keys, a crash between the two and  *)
(* the run that repeats the work, and whatever other users did meanwhile    *)
(* (PostRepository.scan_like_to_db, get_like).                              *)
(***************************************************************************)
UndisturbedChoiceStands == \A u \in User \ tainted : Liked(u) = want[u]

(***************************************************************************)
(* A reader whom no run of the job and no other user's choice overlapped    *)
(* counts the users whose choice it is to like the post, saved or pending   *)
(* (PostRepository.count_likes).                                            *)
(***************************************************************************)
UndisturbedCountIsExact ==
    [][\A r \in Request :
        Count(r) /\ r \notin mixed /\ tainted = {} =>
            CountLikes(CountView(r), pend[r]) = Cardinality({u \in User : want[u]})]_vars

(***************************************************************************)
(* No count is negative, whatever the job did between the MGET and the two  *)
(* SELECTs (PostRepository.count_likes adds differences to a total).        *)
(***************************************************************************)
CountIsNatural ==
    [][\A r \in Request : Count(r) => CountLikes(CountView(r), pend[r]) >= 0]_vars

(***************************************************************************)
(* Once the requests have stopped, every key is moved to the table, though  *)
(* jobs crash and collide (post_like_sync, every five minutes).             *)
(***************************************************************************)
KeysAreMovedInTheEnd ==
    <>[](\A r \in Request : pc[r] \notin {"get", "set"}) => <>[](Present = {})

=============================================================================
