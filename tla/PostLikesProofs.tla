--------------------------- MODULE PostLikesProofs ---------------------------
(***************************************************************************)
(* Likes for any users, requests and worker processes.                      *)
(*                                                                         *)
(* The argument: as long as a user is not tainted, nothing but the one job  *)
(* under way touches what decides their like, and whatever step it is at,   *)
(* its snapshot is the table, what it holds to commit is what the key asks  *)
(* for and the table lacks, and after the commit key and row agree -- so the *)
(* key can go.  A count no one's choice overlapped reads the table and the  *)
(* keys as they are.                                                       *)
(***************************************************************************)
EXTENDS PostLikes, FiniteSetTheorems, TLAPS

(* Two jobs at once taint everybody. *)
OneJob == \A v, w \in Busy : v = w \/ tainted = User

(* A choice no job overlaps is made in sight of the table as it is. *)
ChoosingFresh ==
    \A r \in Request : pc[r] \in {"get", "set"} /\ who[r] \notin tainted =>
        Busy = {} /\ view[r] = row

(* The job's snapshot, before its commit. *)
SnapshotIsTable ==
    \A w \in Worker : wpc[w] \in {"scan", "look"} /\ done[w] # {} /\ tainted # User =>
        wview[w] = row

(* Between jobs there is nothing to commit. *)
JobHolds ==
    \A w \in Worker :
        /\ adds[w] \union dels[w] \subseteq done[w]
        /\ wpc[w] = "idle" => done[w] = {}

(* What the job knows of an undisturbed user. *)
JobAgrees(w, u) ==
    /\ wpc[w] = "look" /\ cur[w][1] = u => cur[w][2] = cache[u]
    /\ wpc[w] \in {"scan", "look"} /\ u \in done[w] =>
        /\ u \in adds[w] <=> cache[u] = "1" /\ row[u] = 0
        /\ u \in dels[w] <=> cache[u] = "0" /\ row[u] # 0
    /\ wpc[w] = "delete" /\ u \in done[w] =>
        /\ cache[u] = "1" => row[u] # 0
        /\ cache[u] = "0" => row[u] = 0

JobsAgree == \A w \in Worker : \A u \in User \ tainted : JobAgrees(w, u)

(* What a reader nobody overlapped has read. *)
ReaderFresh ==
    \A r \in Request : pc[r] \in {"keys", "count"} /\ r \notin mixed =>
        /\ Busy = {}
        /\ \A q \in Request : pc[q] \notin {"get", "set"}
        /\ view[r] = row
        /\ pc[r] = "count" => pend[r] = cache

LikesInv ==
    /\ OneJob /\ ChoosingFresh /\ SnapshotIsTable /\ JobHolds /\ JobsAgree
    /\ ReaderFresh /\ UndisturbedChoiceStands

-----------------------------------------------------------------------------
(* Types *)

(* What the steps themselves change, Record aside *)
RequestTypes ==
    /\ pc \in [Request -> {"idle", "get", "set", "keys", "count"}]
    /\ who \in [Request -> User \union {NoUser}]
    /\ goal \in [Request -> BOOLEAN]
    /\ view \in [Request -> [User -> Nat]] /\ pend \in [Request -> [User -> Status]]
    /\ likes \in Nat
    /\ \A r \in Request : pc[r] # "idle" => who[r] \in User

JobTypes ==
    /\ wpc \in [Worker -> {"idle", "scan", "look", "delete"}]
    /\ must \in [Worker -> SUBSET User]
    /\ cur \in [Worker -> (User \union {NoUser}) \X Status]
    /\ wview \in [Worker -> [User -> Nat]]
    /\ adds \in [Worker -> SUBSET User] /\ dels \in [Worker -> SUBSET User]
    /\ done \in [Worker -> SUBSET User]
    /\ crashes \in Nat
    /\ \A w \in Worker : wpc[w] = "look" => cur[w][1] \in User

StoreTypes ==
    /\ cache \in [User -> Status] /\ row \in [User -> Nat] /\ lastRow \in [User -> Nat]
    /\ want \in [User -> BOOLEAN]

LEMMA TypeParts ==
    TypeOK <=> RequestTypes /\ JobTypes /\ StoreTypes /\ tainted \subseteq User /\ mixed \subseteq Request
  BY DEF TypeOK, RequestTypes, JobTypes, StoreTypes

LEMMA EmptyTypes == NoRows \in [User -> Nat] /\ NoKeys \in [User -> Status]
  BY DEF NoRows, NoKeys, Status

LEMMA TypeInit == Init => TypeOK
<1> SUFFICES ASSUME Init PROVE TypeOK
  OBVIOUS
<1>1. RequestTypes
  BY EmptyTypes DEF Init, RequestTypes
<1>2. JobTypes
  BY EmptyTypes DEF Init, JobTypes, Status
<1>3. StoreTypes
  BY EmptyTypes DEF Init, StoreTypes
<1> QED
  BY <1>1, <1>2, <1>3, TypeParts DEF Init

(* The steps of a request, by what they do to the stores *)
RequestStep(r) ==
    \/ BeginLike(r) \/ AlreadySo(r) \/ MustChange(r) \/ SetKey(r)
    \/ BeginView(r) \/ ReadKeys(r) \/ Count(r) \/ Fail(r)

JobStep(w) ==
    \/ JobStart(w) \/ JobGet(w) \/ JobLook(w) \/ JobCommit(w)
    \/ JobDuplicate(w) \/ JobDelete(w) \/ JobCrash(w)

LEMMA RequestStepTypes ==
    ASSUME TypeOK, NEW r \in Request, RequestStep(r)
    PROVE  RequestTypes' /\ JobTypes' /\ StoreTypes'
<1> USE LikesAssumption
<1>1. UNCHANGED jobVars
  BY DEF RequestStep, BeginLike, AlreadySo, MustChange, SetKey, BeginView, Begin, ReadKeys, Count, Fail
<1>2. JobTypes'
  BY <1>1 DEF jobVars, JobTypes, TypeOK
<1>3. ASSUME End(r) PROVE RequestTypes'
  BY <1>3, EmptyTypes DEF End, RequestTypes, TypeOK
<1>4. ASSUME NEW step \in {"get", "keys"}, Begin(r, step), likes' \in Nat PROVE RequestTypes'
  BY <1>4 DEF Begin, RequestTypes, TypeOK
<1>5. ASSUME Acknowledge(r), who[r] \in User PROVE want' \in [User -> BOOLEAN]
  BY <1>5, Zenon DEF Acknowledge, TypeOK
<1>6. CASE BeginLike(r)
  <2>1. Begin(r, "get") /\ likes' = likes + 1
    BY <1>6 DEF BeginLike
  <2>2. UNCHANGED <<cache, row, lastRow, want>>
    BY <2>1 DEF Begin
  <2>3. likes' \in Nat
    BY <2>1 DEF TypeOK
  <2> QED
    BY <1>2, <1>4, <2>1, <2>2, <2>3 DEF StoreTypes, TypeOK
<1>7. CASE AlreadySo(r)
  BY <1>2, <1>3, <1>5, <1>7 DEF AlreadySo, StoreTypes, TypeOK
<1>8. CASE MustChange(r)
  BY <1>2, <1>8 DEF MustChange, StoreTypes, RequestTypes, TypeOK
<1>9. CASE SetKey(r)
  BY <1>2, <1>3, <1>5, <1>9 DEF SetKey, StoreTypes, TypeOK, Status
<1>10. CASE BeginView(r)
  BY <1>2, <1>4, <1>10 DEF BeginView, Begin, StoreTypes, TypeOK
<1>11. CASE ReadKeys(r)
  BY <1>2, <1>11 DEF ReadKeys, StoreTypes, RequestTypes, TypeOK
<1>12. CASE Count(r)
  BY <1>2, <1>3, <1>12 DEF Count, StoreTypes, TypeOK
<1>13. CASE Fail(r)
  BY <1>2, <1>3, <1>13 DEF Fail, StoreTypes, TypeOK
<1> QED
  BY <1>6, <1>7, <1>8, <1>9, <1>10, <1>11, <1>12, <1>13 DEF RequestStep

LEMMA JobStepTypes ==
    ASSUME TypeOK, NEW w \in Worker, JobStep(w)
    PROVE  RequestTypes' /\ JobTypes' /\ StoreTypes'
<1> USE LikesAssumption
<1>1. UNCHANGED <<requestVars, want>>
  BY DEF JobStep, JobStart, JobGet, JobLook, JobCommit, JobDuplicate, JobDelete, JobCrash
<1>2. RequestTypes' /\ want' \in [User -> BOOLEAN]
  BY <1>1 DEF requestVars, RequestTypes, TypeOK
<1>3. ASSUME JobEnd(w), must' \in [Worker -> SUBSET User], crashes' \in Nat PROVE JobTypes'
  BY <1>3, EmptyTypes DEF JobEnd, JobTypes, TypeOK, Status
<1>4. CASE JobStart(w)
  BY <1>2, <1>4 DEF JobStart, Present, JobTypes, StoreTypes, TypeOK
<1>5. CASE JobGet(w)
  <2>1. PICK u \in (must[w] \union Present) \ done[w] : cur' = [cur EXCEPT ![w] = <<u, cache[u]>>]
    BY <1>5 DEF JobGet
  <2>2. u \in User
    <3>1. must[w] \union Present \subseteq User
      BY DEF Present, TypeOK
    <3> QED
      BY <3>1
  <2>3. <<u, cache[u]>> \in (User \union {NoUser}) \X Status
    BY <2>2 DEF TypeOK
  <2>4. cur' \in [Worker -> (User \union {NoUser}) \X Status] /\ cur'[w][1] \in User
    BY <2>1, <2>2, <2>3 DEF TypeOK
  <2>5. \A v \in Worker : wpc'[v] = "look" => cur'[v][1] \in User
    <3>1. wpc' = [wpc EXCEPT ![w] = "look"]
      BY <1>5 DEF JobGet
    <3>2. \A v \in Worker : v # w => wpc'[v] = wpc[v] /\ cur'[v] = cur[v]
      BY <2>1, <3>1 DEF TypeOK
    <3> QED
      BY <2>4, <3>2 DEF TypeOK
  <2> QED
    BY <1>2, <1>5, <2>4, <2>5 DEF JobGet, JobTypes, StoreTypes, TypeOK
<1>6. CASE JobLook(w)
  <2> DEFINE rows == IF done[w] = {} THEN row ELSE wview[w]
  <2>1. rows \in [User -> Nat] /\ cur[w][1] \in User
    BY <1>6 DEF JobLook, TypeOK
  <2>2. /\ wview' = [wview EXCEPT ![w] = rows]
        /\ adds' = [adds EXCEPT ![w] = @ \union {v \in {cur[w][1]} : cur[w][2] = "1" /\ rows[cur[w][1]] = 0}]
        /\ dels' = [dels EXCEPT ![w] = @ \union {v \in {cur[w][1]} : cur[w][2] = "0" /\ rows[cur[w][1]] # 0}]
        /\ done' = [done EXCEPT ![w] = @ \union {cur[w][1]}]
    BY <1>6 DEF JobLook
  <2> HIDE DEF rows
  <2>3. /\ wview' \in [Worker -> [User -> Nat]] /\ adds' \in [Worker -> SUBSET User]
        /\ dels' \in [Worker -> SUBSET User] /\ done' \in [Worker -> SUBSET User]
    BY <2>1, <2>2 DEF TypeOK
  <2> QED
    BY <1>2, <1>6, <2>3 DEF JobLook, JobTypes, StoreTypes, TypeOK
<1>7. CASE JobCommit(w)
  <2>1. Committed(w) \in [User -> Nat]
    BY DEF Committed, TypeOK
  <2>2. row' \in [User -> Nat] /\ lastRow' \in [User -> Nat]
    BY <1>7, <2>1 DEF JobCommit, TypeOK
  <2> QED
    BY <1>2, <1>7, <2>2 DEF JobCommit, JobTypes, StoreTypes, TypeOK
<1>8. CASE JobDuplicate(w)
  BY <1>2, <1>3, <1>8 DEF JobDuplicate, StoreTypes, TypeOK
<1>9. CASE JobDelete(w)
  BY <1>2, <1>3, <1>9 DEF JobDelete, StoreTypes, TypeOK, Status
<1>10. CASE JobCrash(w)
  BY <1>2, <1>3, <1>10 DEF JobCrash, StoreTypes, TypeOK
<1> QED
  BY <1>4, <1>5, <1>6, <1>7, <1>8, <1>9, <1>10 DEF JobStep

(* The steps of Spec: a request's or a job's, and the record of it *)
LEMMA NextParts ==
    ASSUME Next
    PROVE  Record /\ ((\E r \in Request : RequestStep(r)) \/ (\E w \in Worker : JobStep(w)))
  BY DEF Next, Step, RequestStep, JobStep

LEMMA TypeStep == TypeOK /\ [Next]_vars => TypeOK'
<1> SUFFICES ASSUME TypeOK, [Next]_vars PROVE TypeOK'
  OBVIOUS
<1>1. CASE Next
  <2>1. RequestTypes' /\ JobTypes' /\ StoreTypes'
    BY <1>1, NextParts, RequestStepTypes, JobStepTypes
  <2>2. Choosing' \subseteq User
    BY <2>1 DEF Choosing, RequestTypes
  <2>3. tainted' \subseteq User /\ mixed' \subseteq Request
    BY <1>1, <2>2 DEF Next, Record, TypeOK
  <2> QED
    BY <2>1, <2>3 DEF TypeOK, RequestTypes, JobTypes, StoreTypes
<1>2. CASE UNCHANGED vars
  BY <1>2 DEF vars, requestVars, jobVars, historyVars, TypeOK
<1> QED
  BY <1>1, <1>2

(* Stores, requests and jobs keep their types (post_repository.py). *)
THEOREM TypeCorrect == Spec => []TypeOK
  BY TypeInit, TypeStep, PTL DEF Spec

-----------------------------------------------------------------------------
(* What the history variables say after a step *)
LEMMA RecordSays ==
    ASSUME TypeOK', Record
    PROVE  /\ tainted \subseteq tainted'
           /\ \A v, w \in Busy' : v = w \/ tainted' = User
           /\ Busy' # {} => Choosing' \subseteq tainted'
           /\ \A r \in Request : pc'[r] # "idle" /\ r \notin mixed' =>
                 /\ r \notin mixed /\ Busy' = {}
                 /\ \A q \in Request \ {r} : pc'[q] \notin {"get", "set"}
<1>1. tainted' \subseteq User
  BY DEF TypeOK
<1>2. ASSUME NEW v \in Busy', NEW w \in Busy', v # w PROVE tainted' = User
  <2>1. IsFiniteSet(Busy')
    <3>1. Busy' \in SUBSET Worker
      BY DEF Busy
    <3> QED
      BY <3>1, LikesAssumption, FS_Subset
  <2>2. IsFiniteSet({v}) /\ Cardinality({v}) = 1
    BY FS_Singleton
  <2>3. Cardinality({v} \union {w}) = 2
    BY <1>2, <2>2, FS_AddElement
  <2>4. {v} \union {w} \in SUBSET Busy'
    BY <1>2
  <2>5. Cardinality({v} \union {w}) <= Cardinality(Busy')
    BY <2>1, <2>4, FS_Subset
  <2>6. Cardinality(Busy') \in Nat
    BY <2>1, FS_CardinalityType
  <2>7. Cardinality(Busy') > 1
    BY <2>3, <2>5, <2>6
  <2> QED
    BY <1>1, <2>7 DEF Record
<1>3. Choosing' \subseteq User
  BY DEF Choosing, TypeOK
<1>4. Busy' # {} => Choosing' \subseteq tainted'
  BY <1>1, <1>3 DEF Record
<1> QED
  BY <1>2, <1>4 DEF Record

(* What a request's step does besides *)
LEMMA RequestStepDoes ==
    ASSUME TypeOK, NEW r \in Request, RequestStep(r)
    PROVE  /\ UNCHANGED <<row, lastRow, wpc, must, cur, wview, adds, dels, done>>
           /\ Busy' = Busy
           /\ \A q \in Request \ {r} :
                 pc'[q] = pc[q] /\ who'[q] = who[q] /\ view'[q] = view[q] /\ pend'[q] = pend[q]
           /\ \/ BeginLike(r) \/ BeginView(r) \/ MustChange(r) \/ ReadKeys(r)
              \/ pc'[r] = "idle"
           /\ cache' = cache \/ SetKey(r)
           /\ want' = want \/ SetKey(r) \/ AlreadySo(r)
<1>1. UNCHANGED <<row, lastRow, wpc, must, cur, wview, adds, dels, done>>
  BY DEF RequestStep, BeginLike, AlreadySo, MustChange, SetKey, BeginView, Begin, ReadKeys,
         Count, Fail, jobVars
<1>2. Busy' = Busy
  BY <1>1 DEF Busy
<1>3. ASSUME End(r)
      PROVE  /\ pc'[r] = "idle"
             /\ \A q \in Request \ {r} :
                   pc'[q] = pc[q] /\ who'[q] = who[q] /\ view'[q] = view[q] /\ pend'[q] = pend[q]
  BY <1>3 DEF End, TypeOK
<1>4. ASSUME NEW step, Begin(r, step)
      PROVE  \A q \in Request \ {r} :
                pc'[q] = pc[q] /\ who'[q] = who[q] /\ view'[q] = view[q] /\ pend'[q] = pend[q]
  BY <1>4 DEF Begin, TypeOK
<1>5. CASE BeginLike(r) \/ BeginView(r)
  BY <1>1, <1>2, <1>4, <1>5 DEF BeginLike, BeginView, Begin
<1>6. CASE MustChange(r) \/ ReadKeys(r)
  BY <1>1, <1>2, <1>6 DEF MustChange, ReadKeys, TypeOK
<1>7. CASE AlreadySo(r) \/ SetKey(r) \/ Count(r) \/ Fail(r)
  BY <1>1, <1>2, <1>3, <1>7 DEF AlreadySo, SetKey, Count, Fail
<1> QED
  BY <1>5, <1>6, <1>7 DEF RequestStep

(* What a job's step does besides *)
LEMMA JobStepDoes ==
    ASSUME TypeOK, NEW w \in Worker, JobStep(w)
    PROVE  /\ UNCHANGED <<pc, who, goal, view, pend, want>>
           /\ w \in Busy \/ w \in Busy'
           /\ row' = row \/ JobCommit(w)
           /\ cache' = cache \/ JobDelete(w)
           /\ \A v \in Worker \ {w} :
                 /\ wpc'[v] = wpc[v] /\ cur'[v] = cur[v] /\ wview'[v] = wview[v]
                 /\ adds'[v] = adds[v] /\ dels'[v] = dels[v] /\ done'[v] = done[v]
           /\ \/ JobStart(w) \/ JobGet(w) \/ JobLook(w) \/ JobCommit(w)
              \/ /\ wpc'[w] = "idle" /\ adds'[w] = {} /\ dels'[w] = {} /\ done'[w] = {}
<1>1. UNCHANGED <<pc, who, goal, view, pend, want>>
  BY DEF JobStep, JobStart, JobGet, JobLook, JobCommit, JobDuplicate, JobDelete, JobCrash, requestVars
<1>2. ASSUME JobEnd(w)
      PROVE  /\ \A v \in Worker \ {w} :
                   /\ wpc'[v] = wpc[v] /\ cur'[v] = cur[v] /\ wview'[v] = wview[v]
                   /\ adds'[v] = adds[v] /\ dels'[v] = dels[v] /\ done'[v] = done[v]
             /\ wpc'[w] = "idle" /\ adds'[w] = {} /\ dels'[w] = {} /\ done'[w] = {}
  BY <1>2 DEF JobEnd, TypeOK
<1>3. CASE JobStart(w)
  BY <1>1, <1>3 DEF JobStart, Busy, TypeOK
<1>4. CASE JobGet(w)
  BY <1>1, <1>4 DEF JobGet, Busy, TypeOK
<1>5. CASE JobLook(w)
  BY <1>1, <1>5 DEF JobLook, Busy, TypeOK
<1>6. CASE JobCommit(w)
  BY <1>1, <1>6 DEF JobCommit, Busy, TypeOK
<1>7. CASE JobDuplicate(w) \/ JobDelete(w) \/ JobCrash(w)
  <2>1. w \in Busy
    BY <1>7 DEF JobDuplicate, JobDelete, JobCrash, ScanOver, Busy
  <2>2. row' = row /\ (cache' = cache \/ JobDelete(w)) /\ JobEnd(w)
    BY <1>7 DEF JobDuplicate, JobDelete, JobCrash
  <2> QED
    BY <1>1, <1>2, <2>1, <2>2
<1> QED
  BY <1>3, <1>4, <1>5, <1>6, <1>7 DEF JobStep

-----------------------------------------------------------------------------
(* A request's step keeps the invariant. *)
LEMMA RequestKeeps ==
    ASSUME TypeOK, TypeOK', LikesInv, Record, NEW r \in Request, RequestStep(r)
    PROVE  LikesInv'
<1> USE DEF LikesInv
<1>1. /\ UNCHANGED <<row, lastRow, wpc, must, cur, wview, adds, dels, done>>
      /\ Busy' = Busy
      /\ \A q \in Request \ {r} :
            pc'[q] = pc[q] /\ who'[q] = who[q] /\ view'[q] = view[q] /\ pend'[q] = pend[q]
      /\ \/ BeginLike(r) \/ BeginView(r) \/ MustChange(r) \/ ReadKeys(r)
         \/ pc'[r] = "idle"
      /\ cache' = cache \/ SetKey(r)
      /\ want' = want \/ SetKey(r) \/ AlreadySo(r)
  BY RequestStepDoes
<1>2. /\ tainted \subseteq tainted'
      /\ \A v, w \in Busy' : v = w \/ tainted' = User
      /\ Busy' # {} => Choosing' \subseteq tainted'
      /\ \A q \in Request : pc'[q] # "idle" /\ q \notin mixed' =>
            /\ q \notin mixed /\ Busy' = {}
            /\ \A p \in Request \ {q} : pc'[p] \notin {"get", "set"}
  BY RecordSays
<1>3. OneJob'
  BY <1>2 DEF OneJob
<1>4. ChoosingFresh'
  <2> SUFFICES ASSUME NEW q \in Request, pc'[q] \in {"get", "set"}, who'[q] \notin tainted'
               PROVE  Busy' = {} /\ view'[q] = row'
    BY DEF ChoosingFresh
  <2>1. Busy' = {}
    BY <1>2 DEF Choosing
  <2>2. CASE q # r
    BY <1>1, <1>2, <2>1, <2>2 DEF ChoosingFresh
  <2>3. CASE q = r /\ BeginLike(r)
    BY <1>1, <2>1, <2>3 DEF BeginLike, Begin, TypeOK
  <2>4. CASE q = r /\ MustChange(r)
    <3>1. pc[r] = "get" /\ UNCHANGED <<who, view>>
      BY <2>4 DEF MustChange
    <3> QED
      BY <1>1, <1>2, <2>1, <2>4, <3>1 DEF ChoosingFresh
  <2>5. CASE q = r /\ (BeginView(r) \/ ReadKeys(r))
    BY <2>5 DEF BeginView, Begin, ReadKeys, TypeOK
  <2> QED
    BY <1>1, <2>2, <2>3, <2>4, <2>5
<1>5. tainted' # User => tainted # User
  BY <1>2 DEF TypeOK
<1>6. SnapshotIsTable' /\ JobHolds'
  BY <1>1, <1>5 DEF SnapshotIsTable, JobHolds
<1>7. ASSUME NEW u \in User \ tainted', SetKey(r), who[r] = u PROVE Busy = {}
  BY <1>2, <1>7 DEF ChoosingFresh, SetKey
<1>8. ASSUME SetKey(r), NEW u \in User, u # who[r] PROVE cache'[u] = cache[u] /\ want'[u] = want[u]
  BY <1>8 DEF SetKey, Acknowledge, TypeOK
<1>9. JobsAgree'
  <2> SUFFICES ASSUME NEW w \in Worker, NEW u \in User \ tainted' PROVE JobAgrees(w, u)'
    BY DEF JobsAgree
  <2>1. u \in User \ tainted
    BY <1>2
  <2>2. CASE wpc[w] = "idle"
    BY <1>1, <2>2 DEF JobAgrees
  <2>3. CASE wpc[w] # "idle"
    <3>1. cache'[u] = cache[u]
      BY <1>1, <1>7, <1>8, <2>3 DEF Busy
    <3> QED
      BY <1>1, <2>1, <3>1 DEF JobsAgree, JobAgrees
  <2> QED
    BY <2>2, <2>3
<1>10. ReaderFresh'
  <2> SUFFICES ASSUME NEW q \in Request, pc'[q] \in {"keys", "count"}, q \notin mixed'
               PROVE  /\ Busy' = {}
                      /\ \A p \in Request : pc'[p] \notin {"get", "set"}
                      /\ view'[q] = row'
                      /\ pc'[q] = "count" => pend'[q] = cache'
    BY DEF ReaderFresh
  <2>1. /\ q \notin mixed /\ Busy' = {}
        /\ \A p \in Request : pc'[p] \notin {"get", "set"}
    BY <1>2
  <2>2. CASE q # r
    <3>1. /\ pc[q] = pc'[q] /\ view[q] = row /\ (pc[q] = "count" => pend[q] = cache)
          /\ pc[r] \notin {"get", "set"}
      BY <1>1, <2>1, <2>2 DEF ReaderFresh
    <3>2. cache' = cache
      BY <1>1, <3>1 DEF SetKey
    <3> QED
      BY <1>1, <2>1, <2>2, <3>1, <3>2
  <2>3. CASE q = r /\ (BeginLike(r) \/ MustChange(r))
    BY <2>3 DEF BeginLike, Begin, MustChange, TypeOK
  <2>4. CASE q = r /\ BeginView(r)
    BY <1>1, <2>1, <2>4 DEF BeginView, Begin, TypeOK
  <2>5. CASE q = r /\ ReadKeys(r)
    BY <1>1, <2>1, <2>5 DEF ReadKeys, ReaderFresh, TypeOK
  <2> QED
    BY <1>1, <2>2, <2>3, <2>4, <2>5
<1>11. UndisturbedChoiceStands'
  <2> SUFFICES ASSUME NEW u \in User \ tainted' PROVE Liked(u)' = want'[u]
    BY DEF UndisturbedChoiceStands
  <2>1. u \in User \ tainted /\ Liked(u) = want[u]
    BY <1>2 DEF UndisturbedChoiceStands
  <2>2. CASE cache'[u] = cache[u] /\ want'[u] = want[u]
    BY <1>1, <2>1, <2>2, Zenon DEF Liked, IsLiked
  <2>3. CASE SetKey(r) /\ who[r] = u
    <3>1. cache'[u] = (IF goal[r] THEN "1" ELSE "0") /\ want'[u] = goal[r]
      BY <2>3 DEF SetKey, Acknowledge, TypeOK
    <3>2. goal[r] \in BOOLEAN
      BY DEF TypeOK
    <3>3. CASE goal[r] = TRUE
      BY <3>1, <3>3 DEF Liked, IsLiked
    <3>4. CASE goal[r] = FALSE
      BY <3>1, <3>4 DEF Liked, IsLiked
    <3> QED
      BY <3>2, <3>3, <3>4
  <2>4. CASE AlreadySo(r) /\ who[r] = u
    <3>1. view[r] = row /\ want'[u] = goal[r] /\ UNCHANGED <<cache, row>>
      BY <2>1, <2>4 DEF AlreadySo, Acknowledge, ChoosingFresh, TypeOK
    <3>2. IsLiked(u, view[r]) = goal[r]
      BY <2>4, Zenon DEF AlreadySo
    <3>3. Liked(u)' = IsLiked(u, view[r])
      BY <3>1, Zenon DEF Liked, IsLiked
    <3> QED
      BY <3>1, <3>2, <3>3, Zenon
  <2>5. CASE AlreadySo(r) /\ who[r] # u
    <3>1. UNCHANGED cache /\ want'[u] = want[u]
      BY <2>5 DEF AlreadySo, Acknowledge, TypeOK
    <3> QED
      BY <2>2, <3>1
  <2> QED
    BY <1>1, <1>8, <2>2, <2>3, <2>4, <2>5
<1> QED
  BY <1>3, <1>4, <1>6, <1>9, <1>10, <1>11

(* A job's step, other jobs idle, on an undisturbed user: what it knows stays *)
(* right, and what the service shows of their like stays the same.          *)
LEMMA JobWorksRight ==
    ASSUME TypeOK, LikesInv, NEW w \in Worker, JobStep(w), NEW u \in User \ tainted
    PROVE  JobAgrees(w, u)' /\ (Liked(u)' <=> Liked(u))
<1> USE DEF LikesInv
<1>1. JobAgrees(w, u) /\ u \in User /\ tainted # User
  BY DEF JobsAgree
<1>2. adds[w] \union dels[w] \subseteq done[w] /\ (wpc[w] = "idle" => done[w] = {})
  BY DEF JobHolds
<1>3. wpc[w] \in {"scan", "look"} /\ done[w] # {} => wview[w] = row
  BY <1>1 DEF SnapshotIsTable
<1>4. CASE JobStart(w)
  <2>1. UNCHANGED <<cache, row, done>> /\ wpc'[w] = "scan" /\ done[w] = {}
    BY <1>2, <1>4 DEF JobStart, TypeOK
  <2> QED
    BY <2>1 DEF JobAgrees, Liked, IsLiked
<1>5. CASE JobGet(w)
  <2>1. PICK x : cur' = [cur EXCEPT ![w] = <<x, cache[x]>>]
    BY <1>5 DEF JobGet
  <2>2. /\ UNCHANGED <<cache, row, adds, dels, done>> /\ wpc[w] = "scan" /\ wpc'[w] = "look"
        /\ cur'[w] = <<x, cache[x]>>
    BY <1>5, <2>1 DEF JobGet, TypeOK
  <2> QED
    BY <1>1, <2>2 DEF JobAgrees, Liked, IsLiked
<1>6. CASE JobLook(w)
  <2> DEFINE x == cur[w][1]
             rows == IF done[w] = {} THEN row ELSE wview[w]
  <2>1. rows = row
    BY <1>3, <1>6 DEF JobLook
  <2>2. /\ UNCHANGED <<cache, row>> /\ wpc[w] = "look" /\ wpc'[w] = "scan"
        /\ adds'[w] = adds[w] \union {v \in {x} : cur[w][2] = "1" /\ row[x] = 0}
        /\ dels'[w] = dels[w] \union {v \in {x} : cur[w][2] = "0" /\ row[x] # 0}
        /\ done'[w] = done[w] \union {x}
    BY <1>6, <2>1 DEF JobLook, TypeOK
  <2> HIDE DEF rows
  <2>3. CASE u = x
    BY <1>1, <1>2, <2>2, <2>3 DEF JobAgrees, Liked, IsLiked
  <2>4. CASE u # x
    BY <1>1, <1>2, <2>2, <2>4 DEF JobAgrees, Liked, IsLiked
  <2> QED
    BY <2>3, <2>4
<1>7. CASE JobCommit(w)
  <2>1. /\ UNCHANGED <<cache, done>> /\ wpc[w] = "scan" /\ wpc'[w] = "delete"
        /\ row'[u] = Committed(w)[u]
    BY <1>7 DEF JobCommit, ScanOver, TypeOK
  <2>2. row'[u] = IF u \in adds[w] THEN lastRow[u] + 1
                  ELSE IF u \in dels[w] /\ row[u] = wview[w][u] THEN 0
                  ELSE row[u]
    BY <1>1, <2>1 DEF Committed
  <2>3. lastRow[u] + 1 # 0
    BY <1>1 DEF TypeOK
  <2>4. CASE u \in done[w]
    <3>1. wview[w] = row
      BY <1>3, <2>1, <2>4
    <3>2. /\ u \in adds[w] <=> cache[u] = "1" /\ row[u] = 0
          /\ u \in dels[w] <=> cache[u] = "0" /\ row[u] # 0
      BY <1>1, <2>1, <2>4 DEF JobAgrees
    <3> QED
      BY <2>1, <2>2, <2>3, <3>1, <3>2 DEF JobAgrees, Liked, IsLiked
  <2>5. CASE u \notin done[w]
    BY <1>2, <2>1, <2>2, <2>5 DEF JobAgrees, Liked, IsLiked
  <2> QED
    BY <2>4, <2>5
<1>8. CASE JobDelete(w)
  <2>1. /\ UNCHANGED row /\ wpc[w] = "delete" /\ wpc'[w] = "idle"
        /\ cache'[u] = IF u \in done[w] THEN "none" ELSE cache[u]
    BY <1>1, <1>8 DEF JobDelete, JobEnd, TypeOK
  <2>2. cache[u] \in {"none", "1", "0"}
    BY DEF TypeOK, Status
  <2> QED
    BY <1>1, <2>1, <2>2 DEF JobAgrees, Liked, IsLiked
<1>9. CASE JobDuplicate(w) \/ JobCrash(w)
  <2>1. UNCHANGED <<cache, row>> /\ wpc'[w] = "idle"
    BY <1>9 DEF JobDuplicate, JobCrash, JobEnd, TypeOK
  <2> QED
    BY <2>1 DEF JobAgrees, Liked, IsLiked
<1> QED
  BY <1>4, <1>5, <1>6, <1>7, <1>8, <1>9 DEF JobStep

(* A job's step keeps the invariant. *)
LEMMA JobKeeps ==
    ASSUME TypeOK, TypeOK', LikesInv, Record, NEW w \in Worker, JobStep(w)
    PROVE  LikesInv'
<1> USE DEF LikesInv
<1>1. /\ UNCHANGED <<pc, who, goal, view, pend, want>>
      /\ w \in Busy \/ w \in Busy'
      /\ row' = row \/ JobCommit(w)
      /\ \A v \in Worker \ {w} :
            /\ wpc'[v] = wpc[v] /\ cur'[v] = cur[v] /\ wview'[v] = wview[v]
            /\ adds'[v] = adds[v] /\ dels'[v] = dels[v] /\ done'[v] = done[v]
      /\ \/ JobStart(w) \/ JobGet(w) \/ JobLook(w) \/ JobCommit(w)
         \/ /\ wpc'[w] = "idle" /\ adds'[w] = {} /\ dels'[w] = {} /\ done'[w] = {}
  BY JobStepDoes
<1>2. /\ tainted \subseteq tainted'
      /\ \A v, x \in Busy' : v = x \/ tainted' = User
      /\ Busy' # {} => Choosing' \subseteq tainted'
      /\ \A q \in Request : pc'[q] # "idle" /\ q \notin mixed' => q \notin mixed /\ Busy' = {}
  BY RecordSays
<1>3. tainted' # User => tainted # User
  BY <1>2 DEF TypeOK
<1>4. ASSUME tainted' # User, NEW v \in Worker \ {w} PROVE wpc'[v] = "idle"
  <2>1. v \in Busy <=> v \in Busy'
    BY <1>1 DEF Busy
  <2>2. v \notin Busy'
    BY <1>1, <1>2, <1>3, <1>4, <2>1 DEF OneJob
  <2> QED
    BY <2>2 DEF Busy
<1>5. OneJob'
  BY <1>2 DEF OneJob
<1>6. ChoosingFresh'
  <2> SUFFICES ASSUME NEW q \in Request, pc'[q] \in {"get", "set"}, who'[q] \notin tainted'
               PROVE  FALSE
    BY DEF ChoosingFresh
  <2>1. Busy' = {}
    BY <1>2 DEF Choosing
  <2>2. Busy = {}
    BY <1>1, <1>2 DEF ChoosingFresh
  <2> QED
    BY <1>1, <2>1, <2>2
<1>7. JobHolds'
  <2> SUFFICES ASSUME NEW v \in Worker
               PROVE  /\ adds'[v] \union dels'[v] \subseteq done'[v]
                      /\ wpc'[v] = "idle" => done'[v] = {}
    BY DEF JobHolds
  <2>1. adds[v] \union dels[v] \subseteq done[v] /\ (wpc[v] = "idle" => done[v] = {})
    BY DEF JobHolds
  <2>2. CASE v # w
    BY <1>1, <2>1, <2>2
  <2>3. CASE v = w /\ (JobStart(w) \/ JobGet(w) \/ JobCommit(w))
    BY <2>1, <2>3 DEF JobStart, JobGet, JobCommit, TypeOK
  <2>4. CASE v = w /\ JobLook(w)
    BY <2>1, <2>4 DEF JobLook, TypeOK
  <2> QED
    BY <1>1, <2>2, <2>3, <2>4
<1>8. SnapshotIsTable'
  <2> SUFFICES ASSUME NEW v \in Worker, wpc'[v] \in {"scan", "look"}, done'[v] # {}, tainted' # User
               PROVE  wview'[v] = row'
    BY DEF SnapshotIsTable
  <2>1. v = w
    BY <1>4
  <2>2. wpc[w] \in {"scan", "look"} /\ done[w] # {} => wview[w] = row
    BY <1>3 DEF SnapshotIsTable
  <2>3. CASE JobStart(w)
    BY <2>1, <2>3 DEF JobStart, JobHolds, TypeOK
  <2>4. CASE JobGet(w)
    BY <2>1, <2>2, <2>4 DEF JobGet, TypeOK
  <2>5. CASE JobLook(w)
    BY <2>1, <2>2, <2>5 DEF JobLook, TypeOK
  <2>6. CASE JobCommit(w)
    BY <2>1, <2>6 DEF JobCommit, TypeOK
  <2> QED
    BY <1>1, <2>1, <2>3, <2>4, <2>5, <2>6
<1>9. JobsAgree'
  <2> SUFFICES ASSUME NEW v \in Worker, NEW u \in User \ tainted' PROVE JobAgrees(v, u)'
    BY DEF JobsAgree
  <2>1. u \in User \ tainted /\ tainted' # User
    BY <1>2
  <2>2. CASE v = w
    BY <2>1, <2>2, JobWorksRight
  <2>3. CASE v # w
    BY <1>4, <2>1, <2>3 DEF JobAgrees
  <2> QED
    BY <2>2, <2>3
<1>10. ReaderFresh'
  <2> SUFFICES ASSUME NEW q \in Request, pc'[q] \in {"keys", "count"}, q \notin mixed'
               PROVE  FALSE
    BY DEF ReaderFresh
  <2>1. q \notin mixed /\ Busy' = {}
    BY <1>2
  <2>2. Busy = {}
    BY <1>1, <2>1 DEF ReaderFresh
  <2> QED
    BY <1>1, <2>1, <2>2
<1>11. UndisturbedChoiceStands'
  <2> SUFFICES ASSUME NEW u \in User \ tainted' PROVE Liked(u)' = want'[u]
    BY DEF UndisturbedChoiceStands
  <2>1. u \in User \ tainted /\ Liked(u) = want[u]
    BY <1>2 DEF UndisturbedChoiceStands
  <2>2. Liked(u)' <=> Liked(u)
    BY <2>1, JobWorksRight
  <2>3. want'[u] = want[u] /\ want[u] \in BOOLEAN
    BY <1>1 DEF TypeOK
  <2>4. Liked(u)' \in BOOLEAN
    BY DEF Liked, IsLiked
  <2> QED
    BY <2>1, <2>2, <2>3, <2>4, Zenon
<1> QED
  BY <1>5, <1>6, <1>7, <1>8, <1>9, <1>10, <1>11

LEMMA LikesInvInit == Init => LikesInv
<1> SUFFICES ASSUME Init PROVE LikesInv
  OBVIOUS
<1>1. Busy = {}
  BY DEF Init, Busy
<1>2. OneJob /\ ChoosingFresh /\ SnapshotIsTable /\ JobHolds /\ ReaderFresh
  BY <1>1 DEF Init, OneJob, ChoosingFresh, SnapshotIsTable, JobHolds, ReaderFresh
<1>3. JobsAgree
  BY DEF Init, JobsAgree, JobAgrees
<1>4. UndisturbedChoiceStands
  BY DEF Init, UndisturbedChoiceStands, Liked, IsLiked, NoRows, NoKeys
<1> QED
  BY <1>2, <1>3, <1>4 DEF LikesInv

LEMMA LikesInvStep == TypeOK /\ TypeOK' /\ LikesInv /\ [Next]_vars => LikesInv'
<1> SUFFICES ASSUME TypeOK, TypeOK', LikesInv, [Next]_vars PROVE LikesInv'
  OBVIOUS
<1>1. CASE Next
  BY <1>1, NextParts, RequestKeeps, JobKeeps
<1>2. CASE UNCHANGED vars
  <2>1. /\ UNCHANGED <<cache, row, pc, who, view, pend, wpc, cur, wview, adds, dels, done>>
        /\ UNCHANGED <<want, tainted, mixed>>
    BY <1>2 DEF vars, requestVars, jobVars, historyVars
  <2>2. Busy' = Busy
    BY <2>1 DEF Busy
  <2> QED
    BY <2>1, <2>2 DEF LikesInv, OneJob, ChoosingFresh, SnapshotIsTable, JobHolds, JobsAgree,
       JobAgrees, ReaderFresh, UndisturbedChoiceStands, Liked, IsLiked
<1> QED
  BY <1>1, <1>2

LEMMA LikesInvAlways == Spec => [](TypeOK /\ LikesInv)
  BY TypeInit, TypeStep, LikesInvInit, LikesInvStep, PTL DEF Spec

(* The choice of a user no job overlapped stands at every moment of every run *)
(* of the job, of a crash in it and of its repetition                       *)
(* (PostRepository.scan_like_to_db, get_like).                              *)
THEOREM ChoiceStands == Spec => []UndisturbedChoiceStands
<1>1. LikesInv => UndisturbedChoiceStands
  BY DEF LikesInv
<1> QED
  BY <1>1, LikesInvAlways, PTL

-----------------------------------------------------------------------------
(* Counting *)

Rows(rows) == {u \in User : rows[u] # 0}

(* The likes a count subtracts are among the rows it has counted.           *)
LEMMA CountedSets ==
    ASSUME NEW rows, NEW keep
    PROVE  LET new == {u \in User : keep[u] = "1" /\ rows[u] = 0}
               old == {u \in User : keep[u] = "0" /\ rows[u] # 0}
           IN  /\ IsFiniteSet(Rows(rows)) /\ IsFiniteSet(new) /\ IsFiniteSet(old)
               /\ Cardinality(Rows(rows)) \in Nat /\ Cardinality(new) \in Nat
               /\ Cardinality(old) \in Nat
               /\ old \subseteq Rows(rows) /\ Cardinality(old) <= Cardinality(Rows(rows))
<1> DEFINE new == {u \in User : keep[u] = "1" /\ rows[u] = 0}
           old == {u \in User : keep[u] = "0" /\ rows[u] # 0}
<1>1. Rows(rows) \subseteq User /\ new \subseteq User /\ old \subseteq Rows(rows)
  BY DEF Rows
<1> HIDE DEF new, old
<1>2. IsFiniteSet(Rows(rows)) /\ IsFiniteSet(new)
  BY <1>1, LikesAssumption, FS_Subset
<1>3. IsFiniteSet(old) /\ Cardinality(old) <= Cardinality(Rows(rows))
  BY <1>1, <1>2, FS_Subset
<1>4. /\ Cardinality(Rows(rows)) \in Nat /\ Cardinality(new) \in Nat
      /\ Cardinality(old) \in Nat
  BY <1>2, <1>3, FS_CardinalityType
<1> QED
  BY <1>1, <1>2, <1>3, <1>4 DEF new, old

(* However rows and keys were read, a count is not negative. *)
LEMMA CountNotNegative ==
    ASSUME NEW rows, NEW keep
    PROVE  CountLikes(rows, keep) >= 0
<1> DEFINE new == {u \in User : keep[u] = "1" /\ rows[u] = 0}
           old == {u \in User : keep[u] = "0" /\ rows[u] # 0}
<1>1. /\ Cardinality(Rows(rows)) \in Nat /\ Cardinality(new) \in Nat /\ Cardinality(old) \in Nat
      /\ Cardinality(old) <= Cardinality(Rows(rows))
  BY CountedSets
<1>2. CountLikes(rows, keep) = Cardinality(Rows(rows)) + Cardinality(new) - Cardinality(old)
  BY DEF CountLikes, Rows
<1> HIDE DEF new, old
<1> QED
  BY <1>1, <1>2

LEMMA JoinedLess ==
    ASSUME NEW S, NEW T, NEW U, IsFiniteSet(S), IsFiniteSet(T),
           S \intersect T = {}, U \subseteq S
    PROVE  Cardinality((S \union T) \ U) = Cardinality(S) + Cardinality(T) - Cardinality(U)
<1>1. IsFiniteSet(S \union T)
      /\ Cardinality(S \union T) = Cardinality(S) + Cardinality(T) - Cardinality(S \intersect T)
  BY FS_Union
<1>2. Cardinality(S \intersect T) = 0
  BY FS_EmptySet
<1>3. Cardinality((S \union T) \ U)
      = Cardinality(S \union T) - Cardinality((S \union T) \intersect U)
  BY <1>1, FS_Difference
<1>4. (S \union T) \intersect U = U
  OBVIOUS
<1>5. Cardinality(S) \in Nat /\ Cardinality(T) \in Nat
  BY FS_CardinalityType
<1>6. PICK s, t \in Nat : s = Cardinality(S) /\ t = Cardinality(T)
  BY <1>5
<1>7. Cardinality(S \union T) = s + t
  BY <1>1, <1>2, <1>6
<1>8. PICK u \in Nat : u = Cardinality(U)
  BY FS_Subset, FS_CardinalityType
<1>9. Cardinality((S \union T) \ U) = (s + t) - u
  BY <1>3, <1>4, <1>7, <1>8
<1> QED
  BY <1>6, <1>8, <1>9

(* Rows and keys of one moment count the users who like the post. *)
LEMMA CountIsOfLikes ==
    ASSUME TypeOK
    PROVE  CountLikes(row, cache) = Cardinality({u \in User : Liked(u)})
<1> DEFINE saved == Rows(row)
           new == {u \in User : cache[u] = "1" /\ row[u] = 0}
           old == {u \in User : cache[u] = "0" /\ row[u] # 0}
<1>1. /\ IsFiniteSet(saved) /\ IsFiniteSet(new) /\ IsFiniteSet(old)
      /\ Cardinality(saved) \in Nat /\ Cardinality(new) \in Nat /\ Cardinality(old) \in Nat
      /\ old \subseteq saved
  BY CountedSets
<1>2. saved \intersect new = {}
  BY DEF Rows
<1>3. {u \in User : Liked(u)} = (saved \union new) \ old
  <2>1. \A u \in User : cache[u] \in {"none", "1", "0"}
    BY DEF TypeOK, Status
  <2> QED
    BY <2>1 DEF Rows, Liked, IsLiked
<1>4. CountLikes(row, cache) = Cardinality(saved) + Cardinality(new) - Cardinality(old)
  BY DEF CountLikes, Rows
<1> HIDE DEF saved, new, old
<1> QED
  BY <1>1, <1>2, <1>3, <1>4, JoinedLess

(* No reader sees a negative number of likes (PostRepository.count_likes). *)
THEOREM CountsAreNatural == Spec => CountIsNatural
<1>1. [Next]_vars =>
        [\A r \in Request : Count(r) => CountLikes(CountView(r), pend[r]) >= 0]_vars
  BY CountNotNegative
<1> QED
  BY <1>1, PTL DEF Spec, CountIsNatural

(* A reader nobody overlapped counts the choices (PostRepository.count_likes). *)
THEOREM CountsAreExact == Spec => UndisturbedCountIsExact
<1>1. ASSUME TypeOK, LikesInv, NEW r \in Request, Count(r), r \notin mixed, tainted = {}
      PROVE  CountLikes(CountView(r), pend[r]) = Cardinality({u \in User : want[u]})
  <2>1. pc[r] = "count"
    BY <1>1 DEF Count
  <2>2. view[r] = row /\ pend[r] = cache
    BY <1>1, <2>1 DEF LikesInv, ReaderFresh
  <2>3. CountView(r) = row
    BY <2>2 DEF CountView
  <2>4. {u \in User : Liked(u)} = {u \in User : want[u]}
    BY <1>1 DEF LikesInv, UndisturbedChoiceStands
  <2> QED
    BY <1>1, <2>2, <2>3, <2>4, CountIsOfLikes
<1>2. TypeOK /\ LikesInv /\ [Next]_vars =>
        [\A r \in Request :
            Count(r) /\ r \notin mixed /\ tainted = {} =>
                CountLikes(CountView(r), pend[r]) = Cardinality({u \in User : want[u]})]_vars
  BY <1>1
<1> QED
  BY <1>2, LikesInvAlways, PTL DEF Spec, UndisturbedCountIsExact
=============================================================================
