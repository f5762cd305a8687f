-------------------------- MODULE ModerationProofs --------------------------
(* Proofs about Moderation, for any posts, reports, users and requests.     *)
EXTENDS Moderation, TLAPS

Statuses == {"PUBLISHED", "HIDDEN", "DELETED"}

(***************************************************************************)
(* A request begins and ends within the types (every handler).              *)
(***************************************************************************)
LEMMA SessionStep ==
  ASSUME TypeOK, NEW r \in Request, Begin(r) \/ End(r)
  PROVE  /\ pc' \in [Request -> {"idle", "work"}]
         /\ view' \in [Request -> [status : [Post -> Statuses], pending : SUBSET Report]]
         /\ \A q \in Request : \A p \in view'[q].pending : target[p] # NoTarget
         /\ raced' \in BOOLEAN
<1>1. NoView \in [status : [Post -> Statuses], pending : SUBSET Report] /\ NoView.pending = {}
  BY DEF NoView, Statuses
<1>2. [status |-> status, pending |-> Pending] \in [status : [Post -> Statuses], pending : SUBSET Report]
  BY DEF TypeOK, Pending, Statuses
<1>3. \A p \in Pending : target[p] # NoTarget
  BY DEF Pending
<1>4. view \in [Request -> [status : [Post -> Statuses], pending : SUBSET Report]]
  BY DEF TypeOK, Statuses
<1>5. PICK v \in [status : [Post -> Statuses], pending : SUBSET Report] :
        /\ view' = [view EXCEPT ![r] = v]
        /\ \A p \in v.pending : target[p] # NoTarget
  <2>1. CASE Begin(r)
    BY <1>2, <1>3, <2>1 DEF Begin
  <2>2. CASE End(r)
    BY <1>1, <2>2 DEF End
  <2> QED BY <2>1, <2>2
<1>6. pc' \in [Request -> {"idle", "work"}]
  BY DEF Begin, End, TypeOK
<1>7. \A q \in Request : view'[q] = IF q = r THEN v ELSE view[q]
  BY <1>4, <1>5
<1>8. \A q \in Request : \A p \in view[q].pending : target[p] # NoTarget
  BY DEF TypeOK
<1>9. raced' \in BOOLEAN
  BY DEF Begin, End, TypeOK
<1> QED BY <1>4, <1>5, <1>6, <1>7, <1>8, <1>9

(***************************************************************************)
(* What process_report does to the rows, in terms of the post it may hide.  *)
(***************************************************************************)
LEMMA ProcessEffect ==
  ASSUME TypeOK, NEW r \in Request, Process(r)
  PROVE  \E p \in Report, d \in {"ACCEPTED", "REJECTED"}, s \in Sanction \union {NoSanction} :
           /\ target[p] # NoTarget
           /\ d = "REJECTED" => s = NoSanction
           /\ Hides(d, s) => target[p] \in Post
           /\ decision' = [q \in Report |-> IF q \in view[r].pending /\ target[q] = target[p]
                                            THEN d ELSE decision[q]]
           /\ sanction' \in [Report -> Sanction \union {NoSanction}]
           /\ Hide(r, target[p], Hides(d, s))
           /\ imposed' = imposed \union ({<<p, s>>} \intersect (Report \X Sanction))
<1>1. PICK p \in Decidable(r), d \in {"ACCEPTED", "REJECTED"}, s \in Sanction \union {NoSanction} :
        LET same == {q \in Decidable(r) : target[q] = target[p]} IN
        /\ d = "REJECTED" => s = NoSanction
        /\ Hides(d, s) => target[p] \in Post
        /\ decision' = [q \in Report |-> IF q \in same THEN d ELSE decision[q]]
        /\ sanction' = [q \in Report |-> IF q \in same /\ s # NoSanction THEN s ELSE sanction[q]]
        /\ Hide(r, target[p], Hides(d, s))
        /\ imposed' = imposed \union ({<<p, s>>} \intersect (Report \X Sanction))
  BY DEF Process
<1>2. p \in Report /\ target[p] # NoTarget
  BY DEF Decidable, TypeOK
<1>3. sanction' \in [Report -> Sanction \union {NoSanction}]
  BY <1>1 DEF TypeOK
<1>4. decision' = [q \in Report |-> IF q \in view[r].pending /\ target[q] = target[p]
                                    THEN d ELSE decision[q]]
  BY <1>1 DEF Decidable
<1> QED BY <1>1, <1>2, <1>3, <1>4

(***************************************************************************)
(* Each step preserves the types (all of ReportService and PostService).    *)
(***************************************************************************)
LEMMA TypeStep == TypeOK /\ [Next]_vars => TypeOK'
<1> SUFFICES ASSUME TypeOK, [Next]_vars PROVE TypeOK'
  OBVIOUS
<1> USE ModerationAssumption DEF Statuses
<1>1. CASE UNCHANGED vars
  BY <1>1 DEF vars, posts, reports, TypeOK
<1>2. ASSUME NEW r \in Request, Begin(r) PROVE TypeOK'
  BY <1>2, SessionStep DEF Begin, posts, reports, TypeOK
<1>3. ASSUME NEW r \in Request, Update(r) PROVE TypeOK'
  <2>1. title' \in [Post -> Title] /\ End(r)
    <3>1. PICK p \in Active(r), t \in Title : title' = [title EXCEPT ![p] = t]
      BY <1>3 DEF Update
    <3>2. title \in [Post -> Title] /\ End(r)
      BY <1>3 DEF Update, TypeOK
    <3> QED BY <3>1, <3>2
  <2> QED BY <1>3, <2>1, SessionStep DEF Update, reports, TypeOK
<1>4. ASSUME NEW r \in Request, Delete(r) PROVE TypeOK'
  <2>1. status' \in [Post -> Statuses] /\ deletedAt' \in SUBSET Post /\ End(r)
    BY <1>4 DEF Delete, Active, TypeOK
  <2> QED BY <1>4, <2>1, SessionStep DEF Delete, reports, TypeOK
<1>5. ASSUME NEW r \in Request, AddReport(r) PROVE TypeOK'
  <2>1. PICK p \in {q \in Report : target[q] = NoTarget}, t \in Target :
          target' = [target EXCEPT ![p] = t] \/ UNCHANGED target
    BY <1>5 DEF AddReport
  <2>2. End(r) /\ UNCHANGED <<posts, decision, sanction, imposed>>
    BY <1>5 DEF AddReport
  <2>3. /\ target' \in [Report -> Target \union {NoTarget}]
        /\ \A q \in Report : target[q] # NoTarget => target'[q] = target[q]
    BY <2>1 DEF TypeOK
  <2>4. \A q \in Request : \A x \in view'[q].pending : x \in Report /\ target[x] # NoTarget
    BY <2>2, SessionStep
  <2>5. lost' \in BOOLEAN
    BY <1>5 DEF AddReport, TypeOK
  <2> QED BY <2>2, <2>3, <2>4, <2>5, SessionStep DEF posts, TypeOK
<1>6. ASSUME NEW r \in Request, Process(r) PROVE TypeOK'
  <2>1. PICK p \in Report, d \in {"ACCEPTED", "REJECTED"}, s \in Sanction \union {NoSanction} :
          /\ decision' = [q \in Report |-> IF q \in view[r].pending /\ target[q] = target[p]
                                           THEN d ELSE decision[q]]
          /\ sanction' \in [Report -> Sanction \union {NoSanction}]
          /\ Hide(r, target[p], Hides(d, s))
          /\ imposed' = imposed \union ({<<p, s>>} \intersect (Report \X Sanction))
    BY <1>6, ProcessEffect
  <2>2. End(r) /\ UNCHANGED <<title, deletedAt, target, lost>>
    BY <1>6 DEF Process
  <2>3. status' \in [Post -> Statuses]
    BY <2>1 DEF Hide, TypeOK
  <2>4. decision' \in [Report -> {"PENDING", "ACCEPTED", "REJECTED"}]
    BY <2>1 DEF TypeOK
  <2>5. \A q \in Report : target[q] = NoTarget => decision'[q] = "PENDING"
    BY <2>1 DEF TypeOK
  <2>6. imposed' \in SUBSET (Report \X Sanction)
    BY <2>1 DEF TypeOK
  <2> QED BY <2>1, <2>2, <2>3, <2>4, <2>5, <2>6, SessionStep DEF TypeOK
<1>7. ASSUME NEW r \in Request, Refuse(r) PROVE TypeOK'
  BY <1>7, SessionStep DEF Refuse, posts, reports, TypeOK
<1>8. ASSUME NEW p \in Report, NEW t \in Target, Enter(p, t) PROVE TypeOK'
  BY <1>8 DEF Enter, posts, TypeOK
<1> QED BY <1>1, <1>2, <1>3, <1>4, <1>5, <1>6, <1>7, <1>8 DEF Next

(***************************************************************************)
(* The types hold in every behaviour.                                       *)
(***************************************************************************)
THEOREM TypeCorrect == Spec => []TypeOK
<1>1. Init => TypeOK
  <2>1. Init => raced \in BOOLEAN /\ lost \in BOOLEAN
    BY DEF Init
  <2> QED BY <2>1, ModerationAssumption DEF Init, NoView, TypeOK
<1> QED BY <1>1, TypeStep, PTL DEF Spec

(***************************************************************************)
(* No handler publishes a post, so a session that saw one hidden or deleted *)
(* is right about that for ever (PostService, hide_if_published).           *)
(***************************************************************************)
LEMMA NothingIsRepublished ==
  TypeOK /\ [Next]_vars => \A p \in Post : status[p] # "PUBLISHED" => status'[p] # "PUBLISHED"
<1> SUFFICES ASSUME TypeOK, [Next]_vars, NEW p \in Post, status[p] # "PUBLISHED"
             PROVE  status'[p] # "PUBLISHED"
  OBVIOUS
<1>1. ASSUME NEW r \in Request, Delete(r) PROVE status'[p] # "PUBLISHED"
  BY <1>1 DEF Delete, TypeOK
<1>2. ASSUME NEW r \in Request, Process(r) PROVE status'[p] # "PUBLISHED"
  <2>1. PICK x \in Report, d \in {"ACCEPTED", "REJECTED"}, s \in Sanction \union {NoSanction} :
          Hide(r, target[x], Hides(d, s))
    BY <1>2, ProcessEffect
  <2> QED BY <2>1 DEF Hide, TypeOK
<1>3. ASSUME NEW r \in Request, Begin(r) \/ Update(r) \/ AddReport(r) \/ Refuse(r)
      PROVE  UNCHANGED status
  BY <1>3 DEF Begin, Update, AddReport, Refuse, posts
<1>4. ASSUME NEW x \in Report, NEW t \in Target, Enter(x, t) PROVE UNCHANGED status
  BY <1>4 DEF Enter, posts
<1> QED BY <1>1, <1>2, <1>3, <1>4 DEF Next, vars, posts

(***************************************************************************)
(* However edits, deletions and decisions overlap, the post of a suspended  *)
(* or banned author is not public (_hide_reported_content).                 *)
(***************************************************************************)
THEOREM SanctionsHidePosts == Spec => []SanctionedPostIsHidden
<1> DEFINE Inv == SanctionedPostIsHidden /\ HiddenForEver
<1>1. Init => Inv
  BY DEF Init, SanctionedPostIsHidden, HiddenForEver
<1>2. TypeOK /\ Inv /\ [Next]_vars => Inv'
  <2> SUFFICES ASSUME TypeOK, Inv, [Next]_vars PROVE Inv'
    OBVIOUS
  <2>1. \A p \in Post : status[p] # "PUBLISHED" => status'[p] # "PUBLISHED"
    BY NothingIsRepublished
  <2>2. HiddenForEver'
    <3>1. ASSUME NEW r \in Request, Begin(r) PROVE HiddenForEver'
      BY <3>1, <2>1 DEF Begin, HiddenForEver, TypeOK, posts
    <3>2. ASSUME NEW r \in Request, End(r) PROVE HiddenForEver'
      BY <3>2, <2>1 DEF End, HiddenForEver, TypeOK
    <3>3. ASSUME UNCHANGED <<pc, view>> PROVE HiddenForEver'
      BY <3>3, <2>1 DEF HiddenForEver
    <3> QED BY <3>1, <3>2, <3>3 DEF Next, vars, Update, Delete, AddReport, Process, Refuse, Enter
  <2>3. ASSUME imposed' = imposed, deletedAt' = deletedAt,
               \A p \in Report : target[p] # NoTarget => target'[p] = target[p]
        PROVE  SanctionedPostIsHidden'
    <3>1. \A p \in Report, s \in {"SUSPENDED", "BANNED"} :
            <<p, s>> \in imposed => target'[p] = target[p]
      BY <2>3, ModerationAssumption DEF SanctionedPostIsHidden, Target
    <3>2. deletedAt \subseteq Post
      BY DEF TypeOK
    <3> QED BY <2>1, <2>3, <3>1, <3>2 DEF SanctionedPostIsHidden
  <2>4. ASSUME NEW r \in Request, Delete(r) PROVE SanctionedPostIsHidden'
    <3>1. PICK p \in Post : status' = [status EXCEPT ![p] = "DELETED"] /\ deletedAt' = deletedAt \union {p}
      BY <2>4 DEF Delete, Active
    <3>2. UNCHANGED <<target, imposed>>
      BY <2>4 DEF Delete, reports
    <3> QED BY <2>1, <3>1, <3>2 DEF SanctionedPostIsHidden, TypeOK
  <2>5. ASSUME NEW r \in Request, Process(r) PROVE SanctionedPostIsHidden'
    <3>1. PICK p \in Report, d \in {"ACCEPTED", "REJECTED"}, s \in Sanction \union {NoSanction} :
            /\ d = "REJECTED" => s = NoSanction
            /\ Hides(d, s) => target[p] \in Post
            /\ Hide(r, target[p], Hides(d, s))
            /\ imposed' = imposed \union ({<<p, s>>} \intersect (Report \X Sanction))
      BY <2>5, ProcessEffect
    <3>2. pc[r] = "work" /\ UNCHANGED <<deletedAt, target>>
      BY <2>5 DEF Process, End
    <3>3. s \in {"SUSPENDED", "BANNED"} => target[p] \in Post /\ status'[target[p]] # "PUBLISHED"
      <4> SUFFICES ASSUME s \in {"SUSPENDED", "BANNED"}
                   PROVE  target[p] \in Post /\ status'[target[p]] # "PUBLISHED"
        OBVIOUS
      <4>1. Hides(d, s) /\ target[p] \in Post
        BY <3>1, ModerationAssumption DEF Hides, Sanction
      <4>2. CASE view[r].status[target[p]] = "PUBLISHED"
        BY <3>1, <4>1, <4>2 DEF Hide, TypeOK
      <4>3. CASE view[r].status[target[p]] # "PUBLISHED"
        BY <2>1, <3>2, <4>1, <4>3 DEF HiddenForEver
      <4> QED BY <4>2, <4>3
    <3>4. \A q \in Report, t \in {"SUSPENDED", "BANNED"} :
            <<q, t>> \in imposed' => <<q, t>> \in imposed \/ (q = p /\ t = s)
      BY <3>1
    <3>5. deletedAt \subseteq Post
      BY DEF TypeOK
    <3> QED BY <2>1, <3>2, <3>3, <3>4, <3>5 DEF SanctionedPostIsHidden
  <2>6. ASSUME NEW r \in Request, Begin(r) \/ Update(r) \/ AddReport(r) \/ Refuse(r)
        PROVE  /\ imposed' = imposed /\ deletedAt' = deletedAt
               /\ \A p \in Report : target[p] # NoTarget => target'[p] = target[p]
    <3>1. CASE AddReport(r)
      BY <3>1 DEF AddReport, posts, TypeOK
    <3>2. CASE Begin(r) \/ Update(r) \/ Refuse(r)
      BY <3>2 DEF Begin, Update, Refuse, posts, reports
    <3> QED BY <2>6, <3>1, <3>2
  <2>7. ASSUME NEW x \in Report, NEW t \in Target, Enter(x, t)
        PROVE  /\ imposed' = imposed /\ deletedAt' = deletedAt
               /\ \A p \in Report : target[p] # NoTarget => target'[p] = target[p]
    BY <2>7 DEF Enter, posts, TypeOK
  <2>8. ASSUME UNCHANGED vars PROVE SanctionedPostIsHidden'
    BY <2>3, <2>8 DEF vars, posts, reports
  <2>9. ASSUME NEW r \in Request, Begin(r) \/ Update(r) \/ AddReport(r) \/ Refuse(r)
        PROVE  SanctionedPostIsHidden'
    BY <2>3, <2>6, <2>9
  <2>10. ASSUME NEW x \in Report, NEW t \in Target, Enter(x, t) PROVE SanctionedPostIsHidden'
    BY <2>3, <2>7, <2>10
  <2>11. SanctionedPostIsHidden'
    BY <2>4, <2>5, <2>8, <2>9, <2>10 DEF Next
  <2> QED BY <2>2, <2>11
<1>3. Inv => SanctionedPostIsHidden
  OBVIOUS
<1> QED BY <1>1, <1>2, <1>3, TypeCorrect, PTL DEF Spec

-----------------------------------------------------------------------------
(* From here on: what holds until two requests overlap.                     *)

(***************************************************************************)
(* With one request at a time, process_report decides pending reports only, *)
(* imposes the sanction it records, and leaves a deleted post DELETED.      *)
(***************************************************************************)
LEMMA ProcessStep ==
  ASSUME TypeOK, SequentialInv, NEW r \in Request, Process(r)
  PROVE  DecisionsStand /\ SanctionsMatchReports' /\ DeletedKeepsStatus'
<1> USE ModerationAssumption
<1>1. PICK p \in view[r].pending, d \in {"ACCEPTED", "REJECTED"}, s \in Sanction \union {NoSanction} :
        LET same == {q \in view[r].pending : target[q] = target[p]} IN
        /\ d = "REJECTED" => s = NoSanction
        /\ Hides(d, s) => target[p] \in Post
        /\ decision' = [q \in Report |-> IF q \in same THEN d ELSE decision[q]]
        /\ sanction' = [q \in Report |-> IF q \in same /\ s # NoSanction THEN s ELSE sanction[q]]
        /\ Hide(r, target[p], Hides(d, s))
        /\ imposed' = imposed \union ({<<p, s>>} \intersect (Report \X Sanction))
  BY DEF Process, Decidable
<1>2. /\ view[r].status = status
      /\ view[r].pending \subseteq Pending
      /\ pc[r] = "work"
      /\ UNCHANGED deletedAt
  BY DEF Process, End, SequentialInv, SnapshotIsCurrent
<1>3. p \in Report /\ \A q \in view[r].pending : q \in Report /\ decision[q] = "PENDING"
  BY <1>2 DEF Pending
<1> DEFINE same == {q \in view[r].pending : target[q] = target[p]}
<1>4. /\ p \in same
      /\ \A q \in Report : decision'[q] = IF q \in same THEN d ELSE decision[q]
      /\ \A q \in Report : sanction'[q] = IF q \in same /\ s # NoSanction THEN s ELSE sanction[q]
      /\ \A q \in same : decision[q] = "PENDING"
  BY <1>1, <1>3
<1> HIDE DEF same
<1>5. \A q \in same : sanction[q] = NoSanction
  BY <1>3, <1>4 DEF SequentialInv, SanctionsMatchReports, same
<1>6. DecisionsStand
  BY <1>4 DEF DecisionsStand
<1>7. SanctionsMatchReports'
  <2>1. ASSUME NEW q \in Report, NEW t \in Sanction, <<q, t>> \in imposed'
        PROVE  decision'[q] = "ACCEPTED" /\ sanction'[q] = t
    <3>1. CASE <<q, t>> \in imposed
      BY <1>4, <3>1 DEF SequentialInv, SanctionsMatchReports
    <3>2. CASE q = p /\ t = s
      BY <1>1, <1>3, <1>4, <3>2
    <3> QED BY <1>1, <2>1, <3>1, <3>2
  <2>2. ASSUME NEW q \in Report, sanction'[q] # NoSanction PROVE decision'[q] = "ACCEPTED"
    BY <1>1, <1>4, <1>5, <2>2 DEF SequentialInv, SanctionsMatchReports
  <2> QED BY <2>1, <2>2 DEF SanctionsMatchReports
<1>8. DeletedKeepsStatus'
  BY <1>1, <1>2 DEF Hide, SequentialInv, DeletedKeepsStatus, TypeOK
<1> QED BY <1>6, <1>7, <1>8

(***************************************************************************)
(* A step that ends a request leaves no snapshot that could be stale.       *)
(***************************************************************************)
LEMMA NoOtherWork ==
  ASSUME TypeOK, SnapshotIsCurrent, NEW r \in Request, End(r)
  PROVE  SnapshotIsCurrent'
<1>1. \A q \in Request : pc'[q] # "work"
  BY DEF End, SnapshotIsCurrent, TypeOK
<1> QED BY <1>1 DEF SnapshotIsCurrent

(***************************************************************************)
(* Until two requests overlap, every step keeps the rows in order, and the  *)
(* snapshots current (PostService and ReportService).                       *)
(***************************************************************************)
LEMMA SequentialStep ==
  TypeOK /\ (~raced => SequentialInv) /\ [Next]_vars
    => (~raced' => SequentialInv') /\ (~raced => DecisionsStand \/ UNCHANGED vars)
<1> USE ModerationAssumption
<1> SUFFICES ASSUME TypeOK, ~raced => SequentialInv, Next, ~raced
             PROVE  (~raced' => SequentialInv') /\ DecisionsStand
  <2>1. ASSUME UNCHANGED vars, ~raced => SequentialInv PROVE ~raced' => SequentialInv'
    BY <2>1 DEF vars, posts, reports, SequentialInv, SnapshotIsCurrent, Pending,
                SanctionsMatchReports, DeletedKeepsStatus
  <2>2. ASSUME raced, Next PROVE raced'
    <3>1. ASSUME NEW r \in Request, Begin(r) PROVE raced'
      BY <2>2, <3>1 DEF Begin
    <3>2. ASSUME NEW r \in Request, End(r) PROVE raced'
      BY <2>2, <3>2 DEF End
    <3>3. ASSUME NEW p \in Report, NEW t \in Target, Enter(p, t) PROVE raced'
      BY <2>2, <3>3 DEF Enter
    <3> QED BY <2>2, <3>1, <3>2, <3>3 DEF Next, Update, Delete, AddReport, Process, Refuse
  <2> QED BY <2>1, <2>2
<1>1. SequentialInv
  OBVIOUS
<1>2. ASSUME UNCHANGED <<decision, sanction, imposed>> PROVE SanctionsMatchReports' /\ DecisionsStand
  BY <1>1, <1>2 DEF SequentialInv, SanctionsMatchReports, DecisionsStand
<1>3. ASSUME UNCHANGED <<status, deletedAt>> PROVE DeletedKeepsStatus'
  BY <1>1, <1>3 DEF SequentialInv, DeletedKeepsStatus
<1>4. ASSUME NEW r \in Request, Begin(r) PROVE (~raced' => SequentialInv') /\ DecisionsStand
  <2>1. ~raced' => \A q \in Request : pc[q] # "work"
    BY <1>4 DEF Begin
  <2>2. \A q \in Request : q # r => pc'[q] = pc[q]
    BY <1>4 DEF Begin, TypeOK
  <2>3. view'[r].status = status' /\ view'[r].pending = Pending'
    BY <1>4 DEF Begin, TypeOK, Pending, posts, reports
  <2>4. ~raced' => SnapshotIsCurrent'
    BY <2>1, <2>2, <2>3 DEF SnapshotIsCurrent
  <2> QED BY <1>2, <1>3, <1>4, <2>4 DEF Begin, posts, reports, SequentialInv
<1>5. ASSUME NEW r \in Request, End(r) PROVE SnapshotIsCurrent'
  BY <1>1, <1>5, NoOtherWork DEF SequentialInv
<1>6. ASSUME NEW r \in Request, Update(r) PROVE SequentialInv' /\ DecisionsStand
  BY <1>2, <1>3, <1>5, <1>6 DEF Update, reports, SequentialInv
<1>7. ASSUME NEW r \in Request, Delete(r) PROVE SequentialInv' /\ DecisionsStand
  <2>1. DeletedKeepsStatus'
    BY <1>1, <1>7 DEF Delete, SequentialInv, DeletedKeepsStatus, TypeOK
  <2> QED BY <1>2, <1>5, <1>7, <2>1 DEF Delete, reports, SequentialInv
<1>8. ASSUME NEW r \in Request, AddReport(r) PROVE SequentialInv' /\ DecisionsStand
  BY <1>2, <1>3, <1>5, <1>8 DEF AddReport, posts, SequentialInv
<1>9. ASSUME NEW r \in Request, Process(r) PROVE SequentialInv' /\ DecisionsStand
  BY <1>1, <1>5, <1>9, ProcessStep DEF Process, SequentialInv
<1>10. ASSUME NEW r \in Request, Refuse(r) PROVE SequentialInv' /\ DecisionsStand
  BY <1>2, <1>3, <1>5, <1>10 DEF Refuse, posts, reports, SequentialInv
<1>11. ASSUME NEW p \in Report, NEW t \in Target, Enter(p, t) PROVE SequentialInv' /\ DecisionsStand
  <2>1. Pending \subseteq Pending'
    BY <1>11 DEF Enter, Pending, Target, TypeOK
  <2>2. SnapshotIsCurrent'
    BY <1>1, <1>11, <2>1 DEF Enter, posts, SequentialInv, SnapshotIsCurrent
  <2> QED BY <1>2, <1>3, <1>11, <2>2 DEF Enter, posts, SequentialInv
<1> QED BY <1>4, <1>6, <1>7, <1>8, <1>9, <1>10, <1>11 DEF Next

(***************************************************************************)
(* The invariant of the requests that do not overlap.                       *)
(***************************************************************************)
LEMMA SequentialInvariant == Spec => [](~raced => SequentialInv)
<1>1. Init => SequentialInv
  BY ModerationAssumption DEF Init, SequentialInv, SnapshotIsCurrent, SanctionsMatchReports, DeletedKeepsStatus
<1> QED BY <1>1, SequentialStep, TypeCorrect, PTL DEF Spec

(***************************************************************************)
(* Until two requests overlap, a report is decided once (_validate_report   *)
(* finds it no longer PENDING).                                             *)
(***************************************************************************)
THEOREM ReportsDecidedOnce == Spec => DecidedOnceWithoutRace
<1>1. TypeOK /\ (~raced => SequentialInv) /\ [Next]_vars => [~raced => DecisionsStand]_vars
  BY SequentialStep
<1> QED BY <1>1, SequentialInvariant, TypeCorrect, PTL DEF Spec, DecidedOnceWithoutRace

(***************************************************************************)
(* Until two requests overlap, sanctions are those of accepted reports      *)
(* (process_report's one transaction).                                      *)
(***************************************************************************)
THEOREM SanctionsMatch == Spec => []SanctionsMatchWithoutRace
<1>1. (~raced => SequentialInv) => SanctionsMatchWithoutRace
  BY DEF SequentialInv, SanctionsMatchWithoutRace
<1> QED BY <1>1, SequentialInvariant, PTL

(***************************************************************************)
(* Until two requests overlap, DELETED stays (hide_if_published).           *)
(***************************************************************************)
THEOREM DeletedStaysDeleted == Spec => []DeletedKeepsStatusWithoutRace
<1>1. (~raced => SequentialInv) => DeletedKeepsStatusWithoutRace
  BY DEF SequentialInv, DeletedKeepsStatusWithoutRace
<1> QED BY <1>1, SequentialInvariant, PTL

=============================================================================
