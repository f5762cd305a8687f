------------------------------ MODULE WorkerPool ------------------------------
(***************************************************************************)
(* One server process: FastAPI runs every `def` dependency and handler of   *)
(* a request as a hop on a thread of its pool (main.py, lifespan), and the  *)
(* hops share SQLAlchemy's connection pool (session.py) and redis-py's      *)
(* (redis.py).  Between two hops a request has no thread, but its session   *)
(* keeps the connection that get_current_user took.  post_like_sync is      *)
(* `async def`: while it runs, the event loop does nothing else.            *)
(*                                                                         *)
(* FastAPI, anyio and the pools are external, modelled from how src/ sets   *)
(* them up: threads are handed out first come, first served; get_db's exit  *)
(* has a limiter of its own.  The hops of get_redis and of get_storage are  *)
(* folded into their neighbours.                                           *)
(***************************************************************************)
EXTENDS Integers, Sequences, FiniteSets

CONSTANTS
    Request,        \* requests in flight (slots)
    Job,            \* post_like_sync
    Threads,        \* THREADPOOL_MAX_WORKERS, also the Redis pool's limit
    Connections     \* DB_POOL_SIZE + DB_MAX_OVERFLOW

(* _validate_pool_capacity *)
ASSUME CapacityAssumption ==
    /\ Threads \in Nat \ {0} /\ Connections \in Nat /\ Threads <= Connections
    /\ IsFiniteSet(Request) /\ Job \notin Request

Actor == Request \union {Job}

VARIABLES
    stage,      \* [Actor -> Stage]: the hop it is in or waits for
    queue,      \* requests waiting for a thread
    running,    \* requests on a thread
    done,       \* ... whose hop has returned, which the loop has not seen yet
    asking,     \* actors blocked in the connection pool
    holds,      \* actors with a database connection
    redis       \* actors with a Redis connection, during a command

vars == <<stage, queue, running, done, asking, holds, redis>>
pools == <<asking, holds, redis>>

Hop == {"enter", "user", "handler", "failed", "response"}
Stage == Hop \union {"out", "send", "exit", "sync", "clean"}

LoopFree == stage[Job] = "out"

(* Those executing code of the application ... *)
Working == (running \ done) \union (IF LoopFree THEN {} ELSE {Job})

(* ... that is not blocked in a call. *)
Awake == Working \ (asking \union redis)

Init ==
    /\ stage = [a \in Actor |-> "out"]
    /\ queue = <<>>
    /\ running = {} /\ done = {} /\ asking = {} /\ holds = {} /\ redis = {}

-----------------------------------------------------------------------------
(* The event loop *)

Enqueue(r, s) ==
    /\ stage' = [stage EXCEPT ![r] = s]
    /\ queue' = Append(queue, r)

Arrive(r) ==
    /\ LoopFree
    /\ stage[r] = "out"
    /\ Enqueue(r, "enter")
    /\ UNCHANGED <<running, done, pools>>

StartOneMore ==     \* mutant: total_tokens is left above THREADPOOL_MAX_WORKERS
    /\ LoopFree
    /\ queue # <<>>
    /\ Cardinality(running) < Threads + 1
    /\ running' = running \union {Head(queue)}
    /\ queue' = Tail(queue)
    /\ UNCHANGED <<stage, done, pools>>

(* A free thread takes the next hop. *)
Start ==
    /\ LoopFree
    /\ queue # <<>>
    /\ Cardinality(running) < Threads
    /\ running' = running \union {Head(queue)}
    /\ queue' = Tail(queue)
    /\ UNCHANGED <<stage, done, pools>>

(* What follows a hop: public endpoints have no get_current_user, and that   *)
(* one queries the database unless the bearer token fails (401); handlers    *)
(* without a response model have no serialisation hop.                       *)
Follows(r) ==
    CASE stage[r] = "enter" -> {"user", "handler"}
      [] stage[r] = "user" -> IF r \in holds THEN {"handler", "send"} ELSE {"send"}
      [] stage[r] = "handler" -> {"response", "send"}
      [] OTHER -> {"send"}

(* The loop sees that a hop is over, frees its thread and queues the next. *)
HopDone(r) ==
    /\ LoopFree
    /\ r \in done
    /\ running' = running \ {r}
    /\ done' = done \ {r}
    /\ \E s \in Follows(r) :
          \/ s # "send" /\ Enqueue(r, s)
          \/ s = "send" /\ stage' = [stage EXCEPT ![r] = s] /\ UNCHANGED queue
    /\ UNCHANGED pools

(* The response has been sent: get_db's exit starts, on a thread of its own ... *)
Sent(r) ==
    /\ LoopFree
    /\ stage[r] = "send"
    /\ stage' = [stage EXCEPT ![r] = "exit"]
    /\ UNCHANGED <<queue, running, done, pools>>

CloseNever(r) ==    \* mutant: get_db without its finally
    /\ stage[r] = "exit"
    /\ stage' = [stage EXCEPT ![r] = "out"]
    /\ UNCHANGED <<queue, running, done, pools>>

(* ... and closes the session. *)
Close(r) ==
    /\ stage[r] = "exit"
    /\ stage' = [stage EXCEPT ![r] = "out"]
    /\ holds' = holds \ {r}
    /\ UNCHANGED <<queue, running, done, asking, redis>>

-----------------------------------------------------------------------------
(* Application code, on a thread or, the job, on the loop itself. *)

(* A session's first query since it began, or since its commit *)
Ask(a) ==
    /\ a \in Awake \ holds
    /\ stage[a] \in {"user", "handler", "sync"}
    /\ asking' = asking \union {a}
    /\ UNCHANGED <<stage, queue, running, done, holds, redis>>

Take(a) ==
    /\ a \in asking
    /\ Cardinality(holds) < Connections
    /\ asking' = asking \ {a}
    /\ holds' = holds \union {a}
    /\ UNCHANGED <<stage, queue, running, done, redis>>

(* The dependency or handler returns. *)
Finish(r) ==
    /\ r \in running \intersect Awake
    /\ done' = done \union {r}
    /\ UNCHANGED <<stage, queue, running, pools>>

(* It, or the job, is left by an exception. *)
Raise(a) ==
    /\ stage' = [stage EXCEPT ![a] = IF a = Job THEN "out" ELSE "failed"]
    /\ done' = done \union ({a} \ {Job})

TimeOutNever(a) == FALSE    \* mutant: no pool_timeout

(* DB_POOL_TIMEOUT *)
TimeOut(a) ==
    /\ a \in asking
    /\ Cardinality(holds) >= Connections
    /\ Raise(a)
    /\ asking' = asking \ {a}
    /\ UNCHANGED <<queue, running, holds, redis>>

(* session.commit or rollback gives the connection back. *)
Commit(a) ==
    /\ a \in Awake \intersect holds
    /\ stage[a] \in {"handler", "sync"}
    /\ holds' = holds \ {a}
    /\ stage' = [stage EXCEPT ![a] = IF a = Job THEN "clean" ELSE @]
    /\ UNCHANGED <<queue, running, done, asking, redis>>

Commands(a) == a \in Awake /\ stage[a] \in {"handler", "sync", "clean"}

Command(a) ==
    /\ Commands(a)
    /\ Cardinality(redis) < Threads
    /\ redis' = redis \union {a}
    /\ UNCHANGED <<stage, queue, running, done, asking, holds>>

Reply(a) ==
    /\ a \in redis
    /\ redis' = redis \ {a}
    /\ UNCHANGED <<stage, queue, running, done, asking, holds>>

(* MaxConnectionsError; post_like_sync closes its session. *)
Refused(a) ==
    /\ Commands(a)
    /\ Cardinality(redis) >= Threads
    /\ Raise(a)
    /\ holds' = holds \ ({a} \intersect {Job})
    /\ UNCHANGED <<queue, running, asking, redis>>

-----------------------------------------------------------------------------
(* The scheduler *)

JobStart ==
    /\ LoopFree
    /\ stage' = [stage EXCEPT ![Job] = "sync"]
    /\ UNCHANGED <<queue, running, done, pools>>

(* Nothing to move, or everything moved *)
JobEnd ==
    /\ Job \in Awake
    /\ Job \notin holds
    /\ stage' = [stage EXCEPT ![Job] = "out"]
    /\ UNCHANGED <<queue, running, done, pools>>

-----------------------------------------------------------------------------
Code(a) ==
    \/ Ask(a) \/ Take(a) \/ TimeOut(a) \/ Commit(a)
    \/ Command(a) \/ Reply(a) \/ Refused(a)

Serve(r) ==
    \/ Arrive(r) \/ HopDone(r) \/ Sent(r) \/ Close(r)
    \/ Finish(r) \/ Code(r)

RequestNext == Start \/ \E r \in Request : Serve(r)

JobNext == JobStart \/ JobEnd \/ Code(Job)

Next == RequestNext \/ JobNext

Spec == Init /\ [][Next]_vars

(* The loop serves what is ready in turn, and the job returns to it only     *)
(* after five minutes (SF); a blocked call gets its connection or times out; *)
(* Redis answers or its socket times out; code comes to its end (SF, for it *)
(* may be in one command after another).                                   *)
Fairness ==
    /\ SF_vars(Start)
    /\ \A r \in Request :
          /\ SF_vars(HopDone(r)) /\ SF_vars(Sent(r))
          /\ SF_vars(Finish(r)) /\ WF_vars(Close(r))
    /\ \A a \in Actor : WF_vars(Take(a) \/ TimeOut(a)) /\ WF_vars(Reply(a))
    /\ SF_vars(JobEnd) /\ SF_vars(Commit(Job))

FairSpec == Spec /\ Fairness

-----------------------------------------------------------------------------
(* Properties *)

(* A request has a place in the process as its stage says, one at most, and  *)
(* none when it is out: no connection outlives its request.                  *)
TypeOK ==
    /\ stage \in [Actor -> Stage]
    /\ \A r \in Request : stage[r] \notin {"sync", "clean"}
    /\ stage[Job] \in {"out", "sync", "clean"}
    /\ queue \in Seq(Request)
    /\ running \subseteq Request
    /\ \A r \in running : stage[r] \in Hop
    /\ done \subseteq running
    /\ asking \subseteq Actor /\ holds \subseteq Actor /\ redis \subseteq Working
    /\ asking \subseteq Working \ (holds \union redis)
    /\ \A a \in holds : stage[a] # "out"

(* Everyone at work waits for a connection, and no one who has one can give *)
(* it back: only pool_timeout, and an error, can move the process.          *)
Stuck ==
    /\ asking # {}
    /\ Cardinality(holds) >= Connections
    /\ Working \subseteq asking
    /\ \A r \in Request : stage[r] # "exit"
    /\ LoopFree =>
          /\ done = {} /\ \A r \in Request : stage[r] # "send"
          /\ queue = <<>> \/ Cardinality(running) >= Threads

InProcess == {r \in Request : stage[r] # "out"}

(* The thread pool being no larger than the connection pool, no load leads  *)
(* to the pool's timeout (_validate_pool_capacity; README, 알아둬야 할 설계  *)
(* 결정 1) -- below Connections + Threads requests, or below Connections     *)
(* ones while the job runs: then there may be no other way on.              *)
StuckTakesACrowd ==
    Stuck => Cardinality(InProcess) >= Connections + (IF LoopFree THEN Threads ELSE 0)

(* While the job rests, a Redis command finds a connection: there are as    *)
(* many as threads, and a thread needs one at a time (redis.py).            *)
RedisSuffices ==
    \A r \in Request : LoopFree /\ Commands(r) => Cardinality(redis) < Threads

(* Every request is answered and leaves, whatever it has to wait for: the    *)
(* loop, a thread, a connection, behind the job or not.                     *)
EveryRequestEnds == \A r \in Request : stage[r] = "enter" ~> stage[r] = "out"
=============================================================================
