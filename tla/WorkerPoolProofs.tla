--------------------------- MODULE WorkerPoolProofs ---------------------------
(***************************************************************************)
(* WorkerPool for every size of the two pools and any number of requests:   *)
(* what the thread pool's limit guarantees, and from how many requests on   *)
(* it no longer does.                                                      *)
(***************************************************************************)
EXTENDS WorkerPool, FiniteSetTheorems, TLAPS

(* A request waits for a thread in one place of the queue, for a hop. *)
QueueIsExact ==
    /\ \A i \in 1 .. Len(queue) :
          stage[queue[i]] \in Hop /\ queue[i] \notin running
    /\ \A i, j \in 1 .. Len(queue) : queue[i] = queue[j] => i = j

(* No request is forgotten: one in a hop has a thread or is in the queue. *)
NoneForgotten ==
    \A r \in Request :
       stage[r] \in Hop /\ r \notin running => \E i \in 1 .. Len(queue) : queue[i] = r

Inv == TypeOK /\ QueueIsExact /\ NoneForgotten

(* Append keeps what is there and adds one last element. *)
LEMMA AppendFacts ==
    ASSUME NEW S, NEW q \in Seq(S), NEW r \in S
    PROVE  /\ Append(q, r) \in Seq(S)
           /\ Len(q) \in Nat /\ Len(Append(q, r)) = Len(q) + 1
           /\ \A i \in 1 .. Len(q) : Append(q, r)[i] = q[i]
           /\ Append(q, r)[Len(q) + 1] = r
  OBVIOUS

(* Tail moves everything but the head one place up. *)
LEMMA TailFacts ==
    ASSUME NEW S, NEW q \in Seq(S), q # <<>>
    PROVE  /\ Head(q) \in S /\ Head(q) = q[1]
           /\ Tail(q) \in Seq(S)
           /\ Len(q) \in Nat \ {0} /\ Len(Tail(q)) = Len(q) - 1
           /\ \A i \in 1 .. Len(q) - 1 : Tail(q)[i] = q[i + 1]
  OBVIOUS

(* A request that is not in the queue is appended: Inv's part on the queue. *)
LEMMA EnqueueStep ==
    ASSUME Inv, NEW r \in Request, NEW s \in Hop,
           Enqueue(r, s), r \notin running',
           running' \subseteq running, running \subseteq running' \union {r},
           r \in running \/ stage[r] \notin Hop
    PROVE  queue' \in Seq(Request) /\ QueueIsExact' /\ NoneForgotten'
  <1> USE DEF Inv, TypeOK, Actor
  <1>1. /\ queue' \in Seq(Request)
        /\ Len(queue) \in Nat /\ Len(queue') = Len(queue) + 1
        /\ \A i \in 1 .. Len(queue) : queue'[i] = queue[i]
        /\ queue'[Len(queue) + 1] = r
    BY AppendFacts DEF Enqueue
  <1>2. /\ stage'[r] = s
        /\ \A a \in Request \ {r} : stage'[a] = stage[a]
    BY DEF Enqueue
  <1>3. \A i \in 1 .. Len(queue) : queue[i] \in Request /\ queue[i] # r
    BY DEF QueueIsExact
  <1>4. QueueIsExact'
    <2>1. ASSUME NEW i \in 1 .. Len(queue')
          PROVE  stage'[queue'[i]] \in Hop /\ queue'[i] \notin running'
      <3>1. CASE i = Len(queue) + 1
        BY <1>1, <1>2, <3>1
      <3>2. CASE i \in 1 .. Len(queue)
        BY <1>1, <1>2, <1>3, <3>2 DEF QueueIsExact
      <3> QED BY <1>1, <3>1, <3>2
    <2>2. \A i, j \in 1 .. Len(queue') : queue'[i] = queue'[j] => i = j
      BY <1>1, <1>3 DEF QueueIsExact
    <2> QED BY <2>1, <2>2 DEF QueueIsExact
  <1>5. NoneForgotten'
    <2> SUFFICES ASSUME NEW t \in Request, stage'[t] \in Hop, t \notin running'
                 PROVE  \E i \in 1 .. Len(queue') : queue'[i] = t
      BY DEF NoneForgotten
    <2>1. CASE t = r
      BY <1>1, <2>1
    <2>2. CASE t # r
      <3>1. PICK i \in 1 .. Len(queue) : queue[i] = t
        BY <1>2, <2>2 DEF NoneForgotten
      <3> QED BY <1>1, <3>1
    <2> QED BY <2>1, <2>2
  <1> QED BY <1>1, <1>4, <1>5

(* A step that leaves the queue and the threads alone, and moves no request  *)
(* into a hop or out of one.                                               *)
LEMMA QueueUnmoved ==
    ASSUME Inv, UNCHANGED <<queue, running>>,
           \A r \in Request : stage'[r] \in Hop <=> stage[r] \in Hop
    PROVE  QueueIsExact' /\ NoneForgotten'
  BY DEF Inv, TypeOK, QueueIsExact, NoneForgotten

(* Application code keeps Inv, be it a request's or the job's. *)
LEMMA CodeStep ==
    ASSUME Inv, NEW a \in Actor, Code(a)
    PROVE  Inv'
  <1> USE CapacityAssumption DEF Inv, TypeOK, Actor, Stage, Hop, Working, Awake, LoopFree
  <1>1. CASE Ask(a)
    BY <1>1, QueueUnmoved DEF Ask
  <1>2. CASE Take(a)
    BY <1>2, QueueUnmoved DEF Take
  <1>3. CASE TimeOut(a)
    <2>1. /\ stage' \in [Actor -> Stage]
          /\ \A b \in Actor \ {a} : stage'[b] = stage[b]
          /\ stage'[a] = IF a = Job THEN "out" ELSE "failed"
          /\ done' = done \union ({a} \ {Job}) /\ asking' = asking \ {a}
          /\ UNCHANGED <<queue, running, holds, redis>>
          /\ a \in asking
      BY <1>3 DEF TimeOut, Raise
    <2>2. a \in running \/ a = Job
      BY <2>1
    <2>3. TypeOK'
      BY <2>1, <2>2
    <2> QED BY <2>1, <2>2, <2>3, QueueUnmoved
  <1>4. CASE Commit(a)
    BY <1>4, QueueUnmoved DEF Commit
  <1>5. CASE Command(a)
    BY <1>5, QueueUnmoved DEF Command, Commands
  <1>6. CASE Reply(a)
    BY <1>6, QueueUnmoved DEF Reply
  <1>7. CASE Refused(a)
    <2>1. /\ stage' \in [Actor -> Stage]
          /\ \A b \in Actor \ {a} : stage'[b] = stage[b]
          /\ stage'[a] = IF a = Job THEN "out" ELSE "failed"
          /\ done' = done \union ({a} \ {Job}) /\ holds' = holds \ ({a} \intersect {Job})
          /\ UNCHANGED <<queue, running, asking, redis>>
          /\ a \in Awake
      BY <1>7 DEF Refused, Raise, Commands
    <2>2. a \in running \/ a = Job
      BY <2>1
    <2>3. TypeOK'
      <3>1. CASE a = Job
        BY <2>1, <3>1
      <3>2. CASE a # Job
        <4>1. /\ holds' = holds /\ done' = done \union {a} /\ a \in Request
              /\ stage'[Job] = stage[Job] /\ stage'[a] = "failed"
          BY <2>1, <3>2
        <4> QED BY <2>1, <2>2, <4>1
      <3> QED BY <3>1, <3>2
    <2> QED BY <2>1, <2>2, <2>3, QueueUnmoved
  <1> QED BY <1>1, <1>2, <1>3, <1>4, <1>5, <1>6, <1>7 DEF Code

(* A thread's start takes the head of the queue, and no one else. *)
LEMMA StartStep ==
    ASSUME Inv, Start
    PROVE  Inv'
  <1> USE DEF Inv, TypeOK, Actor, Working, LoopFree
  <1>1. /\ Head(queue) \in Request /\ Head(queue) = queue[1]
        /\ queue' \in Seq(Request)
        /\ Len(queue) \in Nat \ {0} /\ Len(queue') = Len(queue) - 1
        /\ \A i \in 1 .. Len(queue) - 1 : queue'[i] = queue[i + 1]
    BY TailFacts DEF Start
  <1>2. /\ running' = running \union {queue[1]}
        /\ UNCHANGED <<stage, done, asking, holds, redis>>
    BY <1>1 DEF Start, pools
  <1>3. stage[queue[1]] \in Hop /\ queue[1] \in Request /\ queue[1] \notin running
    BY <1>1 DEF QueueIsExact
  <1>4. TypeOK'
    BY <1>1, <1>2, <1>3
  <1>5. QueueIsExact'
    <2>1. \A i \in 1 .. Len(queue') :
             i + 1 \in 1 .. Len(queue) /\ queue'[i] = queue[i + 1] /\ i + 1 # 1
      BY <1>1
    <2>2. \A i \in 1 .. Len(queue') : queue'[i] # queue[1] /\ stage[queue'[i]] \in Hop
                                      /\ queue'[i] \notin running
      <3> SUFFICES ASSUME NEW i \in 1 .. Len(queue')
                   PROVE  queue[i + 1] # queue[1] /\ stage[queue[i + 1]] \in Hop
                          /\ queue[i + 1] \notin running
        BY <2>1
      <3>1. i + 1 \in 1 .. Len(queue) /\ i + 1 # 1 /\ 1 \in 1 .. Len(queue)
        BY <1>1, <2>1
      <3> HIDE DEF Inv, TypeOK
      <3>2. QueueIsExact
        BY DEF Inv
      <3> QED BY <3>1, <3>2 DEF QueueIsExact
    <2>3. \A i, j \in 1 .. Len(queue') : queue'[i] = queue'[j] => i = j
      BY <1>1, <2>1 DEF QueueIsExact
    <2> QED BY <1>2, <2>2, <2>3 DEF QueueIsExact
  <1>6. NoneForgotten'
    <2> SUFFICES ASSUME NEW t \in Request, stage'[t] \in Hop, t \notin running'
                 PROVE  \E i \in 1 .. Len(queue') : queue'[i] = t
      BY DEF NoneForgotten
    <2>1. PICK i \in 1 .. Len(queue) : queue[i] = t
      BY <1>2 DEF NoneForgotten
    <2>2. i # 1
      BY <1>2, <2>1
    <2>3. i - 1 \in 1 .. Len(queue') /\ queue'[i - 1] = t
      BY <1>1, <2>1, <2>2
    <2> QED BY <2>3
  <1> QED BY <1>4, <1>5, <1>6

(* Every step of the process keeps Inv. *)
LEMMA InvStep == Inv /\ [Next]_vars => Inv'
  <1> SUFFICES ASSUME Inv, [Next]_vars PROVE Inv'
    OBVIOUS
  <1> USE CapacityAssumption DEF Actor, Stage, Hop, Working, Awake, LoopFree, pools
  <1>1. CASE Start
    BY <1>1, StartStep
  <1>2. ASSUME NEW r \in Request, Serve(r) PROVE Inv'
    <2> USE DEF Inv, TypeOK
    <2>1. CASE Arrive(r)
      <3>1. queue' \in Seq(Request) /\ QueueIsExact' /\ NoneForgotten'
        BY <2>1, EnqueueStep DEF Arrive
      <3> QED BY <2>1, <3>1 DEF Arrive, Enqueue
    <2>2. CASE HopDone(r)
      <3>1. /\ r \in done /\ running' = running \ {r} /\ done' = done \ {r}
            /\ UNCHANGED pools /\ LoopFree
        BY <2>2 DEF HopDone
      <3>2. PICK s \in Follows(r) :
               \/ s # "send" /\ Enqueue(r, s)
               \/ s = "send" /\ stage' = [stage EXCEPT ![r] = s] /\ UNCHANGED queue
        BY <2>2 DEF HopDone
      <3>3. CASE s # "send"
        <4>1. s \in Hop /\ Enqueue(r, s)
          BY <3>2, <3>3 DEF Follows
        <4>2. queue' \in Seq(Request) /\ QueueIsExact' /\ NoneForgotten'
          BY <3>1, <4>1, EnqueueStep
        <4> QED BY <3>1, <4>1, <4>2 DEF Enqueue
      <3>4. CASE s = "send"
        <4>1. stage' = [stage EXCEPT ![r] = "send"] /\ UNCHANGED queue
          BY <3>2, <3>4
        <4>2. QueueIsExact' /\ NoneForgotten'
          BY <3>1, <4>1 DEF QueueIsExact, NoneForgotten
        <4> QED BY <3>1, <4>1, <4>2
      <3> QED BY <3>3, <3>4
    <2>3. CASE Sent(r)
      BY <2>3, QueueUnmoved DEF Sent
    <2>4. CASE Close(r)
      BY <2>4, QueueUnmoved DEF Close
    <2>5. CASE Finish(r)
      BY <2>5, QueueUnmoved DEF Finish
    <2>6. CASE Code(r)
      BY <2>6, CodeStep
    <2> QED BY <1>2, <2>1, <2>2, <2>3, <2>4, <2>5, <2>6 DEF Serve
  <1>3. CASE JobStart
    BY <1>3, QueueUnmoved DEF JobStart, Inv, TypeOK
  <1>4. CASE JobEnd
    BY <1>4, QueueUnmoved DEF JobEnd, Inv, TypeOK
  <1>5. CASE Code(Job)
    BY <1>5, CodeStep
  <1>6. CASE UNCHANGED vars
    BY <1>6 DEF vars, Inv, TypeOK, QueueIsExact, NoneForgotten
  <1> QED BY <1>1, <1>2, <1>3, <1>4, <1>5, <1>6 DEF Next, RequestNext, JobNext

(* Inv holds at the start. *)
LEMMA InvInit == Init => Inv
  BY CapacityAssumption DEF Init, Inv, TypeOK, QueueIsExact, NoneForgotten, Actor, Stage, Hop, Working

(* Requests, their hops and the connections they hold stay in step, the job  *)
(* running or not: no connection outlives its request (get_db's finally).   *)
THEOREM TypeCorrect == Spec => []TypeOK
  <1>1. Inv => TypeOK
    BY DEF Inv
  <1> QED BY <1>1, InvInit, InvStep, PTL DEF Spec

-----------------------------------------------------------------------------
(* The limiter bounds the threads, and the job has none. *)
LimitInv == Inv /\ Cardinality(running) <= Threads

(* Every step keeps LimitInv. *)
LEMMA LimitInvariant == Spec => []LimitInv
  <1>1. Init => LimitInv
    BY InvInit, CapacityAssumption, FS_EmptySet DEF Init, LimitInv
  <1>2. ASSUME LimitInv, [Next]_vars PROVE LimitInv'
    <2> USE CapacityAssumption DEF LimitInv
    <2>1. Inv'
      BY <1>2, InvStep
    <2>2. IsFiniteSet(running) /\ Cardinality(running) \in Nat
      BY <1>2, FS_Subset, FS_CardinalityType DEF Inv, TypeOK
    <2>3. CASE Start
      <3>1. running' = running \union {Head(queue)} /\ Cardinality(running) < Threads
        BY <2>3 DEF Start
      <3> DEFINE more == running \union {Head(queue)}
      <3>2. Cardinality(more) = IF Head(queue) \in running
                                THEN Cardinality(running) ELSE Cardinality(running) + 1
        BY <2>2, FS_AddElement
      <3>3. Cardinality(more) <= Threads
        BY <2>2, <3>1, <3>2
      <3> QED BY <2>1, <3>1, <3>3
    <2>4. ASSUME running' \subseteq running PROVE LimitInv'
      <3>1. IsFiniteSet(running') /\ Cardinality(running') <= Cardinality(running)
        BY <2>2, <2>4, FS_Subset
      <3>2. Cardinality(running') \in Nat
        BY <3>1, FS_CardinalityType
      <3> QED BY <1>2, <2>1, <2>2, <3>1, <3>2
    <2>5. ASSUME NEW a \in Actor, Code(a) PROVE UNCHANGED running
      BY <2>5 DEF Code, Ask, Take, TimeOut, Commit, Command, Reply, Refused
    <2>6. ASSUME NEW r \in Request, Serve(r) PROVE running' \subseteq running
      <3>1. CASE Arrive(r) \/ Sent(r) \/ Close(r) \/ Finish(r) \/ HopDone(r)
        BY <3>1 DEF Arrive, Sent, Close, Finish, HopDone
      <3>2. CASE Code(r)
        BY <2>5, <3>2 DEF Actor
      <3> QED BY <2>6, <3>1, <3>2 DEF Serve
    <2>7. JobNext => UNCHANGED running
      BY <2>5 DEF JobNext, JobStart, JobEnd, Actor
    <2> QED BY <1>2, <2>3, <2>4, <2>6, <2>7 DEF Next, RequestNext, vars
  <1> QED BY <1>1, <1>2, PTL DEF Spec

(* While the job rests, a thread's Redis command always finds a connection,  *)
(* under any load: one per thread is enough (redis.py).                     *)
THEOREM RedisSufficesForThreads == Spec => []RedisSuffices
  <1>1. LimitInv => RedisSuffices
    <2> SUFFICES ASSUME LimitInv, LoopFree, NEW a \in Request, Commands(a)
                 PROVE  Cardinality(redis) < Threads
      BY DEF RedisSuffices
    <2>1. /\ redis \subseteq running /\ a \in running /\ a \notin redis
          /\ running \subseteq Request
      BY DEF LimitInv, Inv, TypeOK, Working, Commands, Awake
    <2>2. IsFiniteSet(running) /\ IsFiniteSet(redis)
      BY <2>1, CapacityAssumption, FS_Subset
    <2>3. Cardinality(redis \union {a}) = Cardinality(redis) + 1
      BY <2>1, <2>2, FS_AddElement
    <2>4. Cardinality(redis \union {a}) <= Cardinality(running)
      BY <2>1, <2>2, FS_Subset
    <2>5. Cardinality(redis) \in Nat /\ Cardinality(running) \in Nat
      BY <2>2, FS_CardinalityType
    <2> QED BY <2>3, <2>4, <2>5, CapacityAssumption DEF LimitInv
  <1> QED BY <1>1, LimitInvariant, PTL

(* It takes Connections + Threads requests, or the job and Connections ones, *)
(* for the process to be left to pool_timeout (_validate_pool_capacity).    *)
THEOREM NeverStuckWithoutACrowd == Spec => []StuckTakesACrowd
  <1>1. Inv => StuckTakesACrowd
    <2> SUFFICES ASSUME Inv, Stuck
                 PROVE  Cardinality(InProcess)
                          >= Connections + (IF LoopFree THEN Threads ELSE 0)
      BY DEF StuckTakesACrowd
    <2> USE CapacityAssumption
    <2>1. /\ running \ done \subseteq asking /\ holds \intersect asking = {}
          /\ holds \subseteq InProcess /\ running \subseteq InProcess
      BY DEF Inv, TypeOK, Stuck, LoopFree, Working, Actor, InProcess, Hop
    <2>2. /\ IsFiniteSet(InProcess) /\ Cardinality(InProcess) \in Nat
          /\ IsFiniteSet(running) /\ IsFiniteSet(holds)
          /\ Cardinality(running) \in Nat /\ Cardinality(holds) \in Nat
      <3>1. InProcess \subseteq Request
        BY DEF InProcess
      <3> QED BY <2>1, <3>1, FS_Subset, FS_CardinalityType
    <2>3. CASE ~LoopFree
      <3>1. Cardinality(holds) <= Cardinality(InProcess)
        BY <2>1, <2>2, FS_Subset
      <3> QED BY <2>2, <2>3, <3>1 DEF Stuck
    <2>4. CASE LoopFree
      <3>0. running \subseteq asking
        BY <2>1, <2>4 DEF Stuck
      <3>1. PICK h \in Request : h \in holds
        <4>1. Cardinality(holds) >= 1
          BY <2>2 DEF Stuck
        <4> QED BY <2>1, <2>2, <4>1, FS_EmptySet DEF InProcess
      <3>2. stage[h] \in Hop /\ h \notin running
        BY <2>1, <2>4, <3>0, <3>1 DEF Inv, TypeOK, Stuck, Stage, Actor
      <3>3. queue # <<>>
        <4>1. PICK i \in 1 .. Len(queue) : queue[i] = h
          BY <3>2 DEF Inv, NoneForgotten
        <4> QED BY <4>1
      <3>4. Cardinality(running) >= Threads /\ Cardinality(holds) >= Connections
        BY <2>4, <3>3 DEF Stuck
      <3>5. Cardinality(holds \union running) = Cardinality(holds) + Cardinality(running)
        <4>1. holds \intersect running = {}
          BY <2>1, <3>0
        <4>2. Cardinality(holds \union running)
                = Cardinality(holds) + Cardinality(running) - Cardinality(holds \intersect running)
          BY <2>2, FS_Union
        <4>3. Cardinality(holds \intersect running) = 0
          BY <4>1, FS_EmptySet
        <4> QED BY <2>2, <4>2, <4>3
      <3>6. Cardinality(holds \union running) <= Cardinality(InProcess)
        BY <2>1, <2>2, FS_Subset
      <3> QED BY <2>2, <2>4, <3>4, <3>5, <3>6
    <2> QED BY <2>3, <2>4
  <1> QED BY <1>1, InvInit, InvStep, PTL DEF Spec
=============================================================================
