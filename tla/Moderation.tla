----------------------------- MODULE Moderation -----------------------------
(***************************************************************************)
(* Posts, and the reports that may hide them: PostService.update and        *)
(* delete, ReportService (app/modules/posts, app/modules/reports) and the   *)
(* sanctions it records (app/modules/users).                                *)
(*                                                                          *)
(* A request is validated on its session's snapshot; its UPDATEs name rows  *)
(* by primary key and write the columns that differ from what the session   *)
(* read, on the rows as they are by then.  All of a request's writes are    *)
(* one transaction on rows it locks, hence one step.                        *)
(***************************************************************************)
EXTENDS Naturals

CONSTANTS Post, Comment, User,      \* what can be reported
          Report, Request,
          Title,                    \* what an edit writes
          NoTarget, NoSanction

Target == Post \union Comment \union User
Sanction == {"WARNING", "SUSPENDED", "BANNED"}

ASSUME ModerationAssumption ==
    /\ Post \intersect Comment = {}
    /\ Post \intersect User = {}
    /\ Comment \intersect User = {}
    /\ NoTarget \notin Target
    /\ NoSanction \notin Sanction

VARIABLES
    title,      \* [Post -> Title]
    status,     \* [Post -> {"PUBLISHED", "HIDDEN", "DELETED"}]: post_status
    deletedAt,  \* SUBSET Post: posts with a deleted_at
    target,     \* [Report -> Target or NoTarget]: NoTarget if there is no row
    decision,   \* [Report -> {"PENDING", "ACCEPTED", "REJECTED"}]
    sanction,   \* [Report -> Sanction or NoSanction]: user_sanction_type
    imposed,    \* SUBSET (Report \X Sanction): rows of user_sanctions
    pc,         \* [Request -> {"idle", "work"}]
    view,       \* [Request -> [status, pending]]: the session's snapshot
    raced,      \* history: BOOLEAN: two requests have overlapped
    lost        \* history: BOOLEAN: a valid report was not stored

posts == <<title, status, deletedAt>>
reports == <<target, decision, sanction, imposed>>
vars == <<posts, reports, pc, view, raced, lost>>

Pending == {p \in Report : target[p] # NoTarget /\ decision[p] = "PENDING"}
NoView == [status |-> [p \in Post |-> "PUBLISHED"], pending |-> {}]

Init ==
    /\ title \in [Post -> Title]
    /\ status = [p \in Post |-> "PUBLISHED"]
    /\ deletedAt = {}
    /\ target = [p \in Report |-> NoTarget]
    /\ decision = [p \in Report |-> "PENDING"]
    /\ sanction = [p \in Report |-> NoSanction]
    /\ imposed = {}
    /\ pc = [r \in Request |-> "idle"]
    /\ view = [r \in Request |-> NoView]
    /\ raced = FALSE
    /\ lost = FALSE

-----------------------------------------------------------------------------
Begin(r) ==
    /\ pc[r] = "idle"
    /\ pc' = [pc EXCEPT ![r] = "work"]
    /\ view' = [view EXCEPT ![r] = [status |-> status, pending |-> Pending]]
    /\ raced' = (raced \/ \E q \in Request : pc[q] = "work")
    /\ UNCHANGED <<posts, reports, lost>>

End(r) ==
    /\ pc[r] = "work"
    /\ pc' = [pc EXCEPT ![r] = "idle"]
    /\ view' = [view EXCEPT ![r] = NoView]
    /\ UNCHANGED raced

(* get_by_id: posts neither hidden nor deleted. *)
Active(r) == {p \in Post : view[r].status[p] = "PUBLISHED"}

UpdateWholeRow(r) ==  \* mutant: the status read is written back
    /\ End(r)
    /\ \E p \in Active(r), t \in Title :
        /\ title' = [title EXCEPT ![p] = t]
        /\ status' = [status EXCEPT ![p] = "PUBLISHED"]
    /\ UNCHANGED <<deletedAt, reports, lost>>

(* PostService.update, by the author or an administrator *)
Update(r) ==
    /\ End(r)
    /\ \E p \in Active(r), t \in Title : title' = [title EXCEPT ![p] = t]
    /\ UNCHANGED <<status, deletedAt, reports, lost>>

(* PostService.delete *)
Delete(r) ==
    /\ End(r)
    /\ \E p \in Active(r) :
        /\ status' = [status EXCEPT ![p] = "DELETED"]
        /\ deletedAt' = deletedAt \union {p}
    /\ UNCHANGED <<title, reports, lost>>

(* What _validate_report returns to store, and the columns that need it. *)
Filled(t) ==
    IF t \in Post THEN {"post_title", "post_content"}
    ELSE IF t \in Comment THEN {"post_title", "comment_content"}
    ELSE {}
NotNull == {"post_title", "post_content", "comment_content"}

(* ReportService.add_report; an IntegrityError rolls it back. *)
AddReport(r) ==
    /\ End(r)
    /\ \E p \in {q \in Report : target[q] = NoTarget}, t \in Target :
        IF NotNull \subseteq Filled(t)
        THEN target' = [target EXCEPT ![p] = t] /\ UNCHANGED lost
        ELSE lost' = TRUE /\ UNCHANGED target
    /\ UNCHANGED <<posts, decision, sanction, imposed>>

(* A row of reports that does not come from add_report. *)
Enter(p, t) ==
    /\ target[p] = NoTarget
    /\ target' = [target EXCEPT ![p] = t]
    /\ UNCHANGED <<posts, decision, sanction, imposed, pc, view, raced, lost>>

Hides(d, s) == d = "ACCEPTED" /\ s \in {"SUSPENDED", "BANNED"}

HideAny(r, t, hides) ==  \* mutant: the post is hidden whatever its status
    IF hides THEN status' = [status EXCEPT ![t] = "HIDDEN"] ELSE UNCHANGED status

(* hide_if_published *)
Hide(r, t, hides) ==
    IF hides /\ view[r].status[t] = "PUBLISHED"
    THEN status' = [status EXCEPT ![t] = "HIDDEN"]
    ELSE UNCHANGED status

DecidableAgain(r) == {p \in Report : target[p] # NoTarget}  \* mutant: no check of PENDING

(* get_by_id, and the PENDING check of _validate_report *)
Decidable(r) == view[r].pending

(* ReportService.process_report: the report is decided, with every pending  *)
(* one of its target.  No sanction replacing none is no change to write.    *)
Process(r) ==
    /\ End(r)
    /\ \E p \in Decidable(r), d \in {"ACCEPTED", "REJECTED"}, s \in Sanction \union {NoSanction} :
        LET same == {q \in Decidable(r) : target[q] = target[p]} IN
        /\ d = "REJECTED" => s = NoSanction
        /\ Hides(d, s) => target[p] \in Post
        /\ decision' = [q \in Report |-> IF q \in same THEN d ELSE decision[q]]
        /\ sanction' = [q \in Report |-> IF q \in same /\ s # NoSanction THEN s ELSE sanction[q]]
        /\ Hide(r, target[p], Hides(d, s))
        /\ imposed' = imposed \union ({<<p, s>>} \intersect (Report \X Sanction))
    /\ UNCHANGED <<title, deletedAt, target, lost>>

(* A read, a check that failed (ValueError too), or an error. *)
Refuse(r) == End(r) /\ UNCHANGED <<posts, reports, lost>>

Next ==
    \/ \E r \in Request :
        \/ Begin(r) \/ Update(r) \/ Delete(r) \/ AddReport(r) \/ Process(r) \/ Refuse(r)
    \/ \E p \in Report, t \in Target : Enter(p, t)

Spec == Init /\ [][Next]_vars

-----------------------------------------------------------------------------
(* Types; a report without a row is undecided, and in no one's snapshot. *)
TypeOK ==
    /\ title \in [Post -> Title]
    /\ status \in [Post -> {"PUBLISHED", "HIDDEN", "DELETED"}]
    /\ deletedAt \in SUBSET Post
    /\ target \in [Report -> Target \union {NoTarget}]
    /\ decision \in [Report -> {"PENDING", "ACCEPTED", "REJECTED"}]
    /\ sanction \in [Report -> Sanction \union {NoSanction}]
    /\ imposed \in SUBSET (Report \X Sanction)
    /\ pc \in [Request -> {"idle", "work"}]
    /\ view \in [Request -> [status : [Post -> {"PUBLISHED", "HIDDEN", "DELETED"}],
                             pending : SUBSET Report]]
    /\ raced \in BOOLEAN
    /\ lost \in BOOLEAN
    /\ \A p \in Report : target[p] = NoTarget => decision[p] = "PENDING"
    /\ \A r \in Request : \A p \in view[r].pending : target[p] # NoTarget

(***************************************************************************)
(* A post for which its author was suspended or banned is not public, and   *)
(* neither is a deleted one: no edit, deletion or decision under way brings *)
(* it back (ReportService._hide_reported_content, PostService.update).      *)
(***************************************************************************)
SanctionedPostIsHidden ==
    /\ \A p \in Report, s \in {"SUSPENDED", "BANNED"} :
        <<p, s>> \in imposed => target[p] \in Post /\ status[target[p]] # "PUBLISHED"
    /\ \A p \in deletedAt : status[p] # "PUBLISHED"

(* Why it holds: what a session saw hidden is hidden still. *)
HiddenForEver ==
    \A r \in Request, p \in Post :
        pc[r] = "work" /\ view[r].status[p] # "PUBLISHED" => status[p] # "PUBLISHED"

-----------------------------------------------------------------------------
DecisionsStand ==
    \A p \in Report : decision[p] # "PENDING" => decision'[p] = decision[p] /\ sanction'[p] = sanction[p]

SanctionsMatchReports ==
    /\ \A p \in Report, s \in Sanction :
        <<p, s>> \in imposed => decision[p] = "ACCEPTED" /\ sanction[p] = s
    /\ \A p \in Report : sanction[p] # NoSanction => decision[p] = "ACCEPTED"

DeletedKeepsStatus == \A p \in Post : p \in deletedAt <=> status[p] = "DELETED"

(***************************************************************************)
(* Until two requests overlap, a report is decided once                     *)
(* ("이미 처리된 신고입니다.", report_service.py).                            *)
(***************************************************************************)
DecidedOnceWithoutRace == [][~raced => DecisionsStand]_vars

(***************************************************************************)
(* Until two requests overlap, a sanction on record is that of its report,  *)
(* which was accepted; reports rejected carry none (process_report decides  *)
(* every pending report of the target and imposes one sanction, in one      *)
(* transaction).                                                            *)
(***************************************************************************)
SanctionsMatchWithoutRace == ~raced => SanctionsMatchReports

(***************************************************************************)
(* Until two requests overlap, a deleted post keeps the status DELETED when *)
(* a report on it is accepted ("이미 DELETED라면 삭제 상태를 유지한다",         *)
(* report_service.py).                                                      *)
(***************************************************************************)
DeletedKeepsStatusWithoutRace == ~raced => DeletedKeepsStatus

(* Why they hold: one request at a time sees the rows as they are. *)
SnapshotIsCurrent ==
    /\ \A r, q \in Request : pc[r] = "work" /\ pc[q] = "work" => r = q
    /\ \A r \in Request : pc[r] = "work" =>
        /\ view[r].status = status
        /\ view[r].pending \subseteq Pending
SequentialInv == SnapshotIsCurrent /\ SanctionsMatchReports /\ DeletedKeepsStatus


=============================================================================
