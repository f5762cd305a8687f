------------------------------ MODULE Migrations ------------------------------
(***************************************************************************)
(* The schema under `alembic upgrade head` and `alembic downgrade -1`.       *)
(*                                                                         *)
(* MySQL commits every DDL statement, and Alembic writes alembic_version     *)
(* after the last one of a revision: a command that dies in between leaves  *)
(* part of a revision behind.  Alembic and MySQL are external; what a        *)
(* statement requires and does is modelled from the scripts that use it.    *)
(* One command runs at a time (entrypoint.sh, comment on parallel runs).    *)
(***************************************************************************)
EXTENDS Revisions, Naturals, FiniteSets

VARIABLES
    tables,     \* [table -> [column -> SUBSET Attribute]]
    keys,       \* indexes, unique and foreign keys
    applied,    \* the revisions alembic_version (their heads) stands for
    job,        \* the command under way: [cmd, rev, at], statements done
    dirty,      \* history: a command ended inside a revision
    takenBack   \* history: view_count was downgraded

schema == <<tables, keys>>
migrations == <<schema, applied, job, dirty, takenBack>>

NoJob == [cmd |-> "none", rev |-> "none", at |-> 0]

InitSchema ==
    /\ tables = << >> /\ keys = {} /\ applied = {}
    /\ job = NoJob /\ dirty = FALSE /\ takenBack = FALSE

-----------------------------------------------------------------------------
(* MySQL *)

There(t, c) == t \in DOMAIN tables /\ c \in DOMAIN tables[t]

Constrained(t, c) == <<"fk", t, c>> \in keys

(* The statement is carried out: no AUTO_INCREMENT column beside the key     *)
(* (1075), no index or column taken from a foreign key (1553, 1828).        *)
Applies(s) ==
    CASE s.op = "create_table" -> s.table \notin DOMAIN tables
      [] s.op = "drop_table" -> s.table \in DOMAIN tables
      [] s.op = "add_column" ->
            s.table \in DOMAIN tables /\ ~There(s.table, s.column) /\ "auto" \notin s.attrs
      [] s.op = "drop_column" -> There(s.table, s.column) /\ ~Constrained(s.table, s.column)
      [] s.op = "change" ->
            There(s.table, s.column) /\ (s.new = s.column \/ ~There(s.table, s.new))
      [] s.op = "create_key" -> s.key \notin keys /\ s.key[2] \in DOMAIN tables
      [] s.op = "drop_key" ->
            s.key \in keys /\ ~(s.key[1] = "ix" /\ Constrained(s.key[2], s.key[3]))

With(f, x, v) == [y \in DOMAIN f \union {x} |-> IF y = x THEN v ELSE f[y]]
Without(f, x) == [y \in DOMAIN f \ {x} |-> f[y]]

ColumnsAfter(s) ==
    LET t == tables[s.table]
    IN  CASE s.op = "add_column" -> With(t, s.column, s.attrs)
          [] s.op = "drop_column" -> Without(t, s.column)
          [] s.op = "change" -> With(Without(t, s.column), s.new, s.attrs)

KeysWith(s) == {<<k[1], s.table, k[2]>> : k \in s.keys}

Execute(s) ==
    /\ Applies(s)
    /\ tables' =
          CASE s.op = "create_table" -> With(tables, s.table, s.columns)
            [] s.op = "drop_table" -> Without(tables, s.table)
            [] s.op \in {"create_key", "drop_key"} -> tables
            [] OTHER -> [tables EXCEPT ![s.table] = ColumnsAfter(s)]
    /\ keys' =
          CASE s.op = "create_table" -> keys \union KeysWith(s)
            [] s.op = "drop_table" -> {k \in keys : k[2] # s.table}
            [] s.op = "drop_column" -> keys \ {<<"ix", s.table, s.column>>}
            [] s.op = "create_key" -> keys \union {s.key}
            [] s.op = "drop_key" -> keys \ {s.key}
            [] OTHER -> keys

-----------------------------------------------------------------------------
(* alembic *)

Script == IF job.cmd = "upgrade" THEN Upgrade[job.rev] ELSE Downgrade[job.rev]

Command(cmd) ==
    /\ job = NoJob
    /\ cmd = "downgrade" => applied # {}
    /\ job' = [NoJob EXCEPT !.cmd = cmd]
    /\ UNCHANGED <<schema, applied, dirty, takenBack>>

(* Upgrading: a revision whose parents are applied.  Downgrading: a head;   *)
(* with two of them -1 is ambiguous, and Alembic picks.                      *)
Next1(r) ==
    IF job.cmd = "upgrade" THEN r \notin applied /\ Parents[r] \subseteq applied
    ELSE r \in applied /\ Children(r) \intersect applied = {}

BeginRevision(r) ==
    /\ job.cmd # "none" /\ job.rev = "none"
    /\ Next1(r)
    /\ job' = [job EXCEPT !.rev = r]
    /\ UNCHANGED <<schema, applied, dirty, takenBack>>

Statement ==
    /\ job.rev # "none"
    /\ job.at < Len(Script)
    /\ Execute(Script[job.at + 1])
    /\ job' = [job EXCEPT !.at = @ + 1]
    /\ UNCHANGED <<applied, dirty, takenBack>>

(* alembic_version is written; a downgrade ends, an upgrade goes on.        *)
Stamp ==
    /\ job.rev # "none"
    /\ job.at = Len(Script)
    /\ IF job.cmd = "upgrade"
       THEN /\ applied' = applied \union {job.rev}
            /\ job' = [NoJob EXCEPT !.cmd = "upgrade"]
            /\ UNCHANGED takenBack
       ELSE /\ applied' = applied \ {job.rev}
            /\ job' = NoJob
            /\ takenBack' = (takenBack \/ job.rev = "view_count")
    /\ UNCHANGED <<schema, dirty>>

AtHead == job = [NoJob EXCEPT !.cmd = "upgrade"] /\ applied = Revision

UpgradeDone ==
    /\ AtHead
    /\ job' = NoJob
    /\ UNCHANGED <<schema, applied, dirty, takenBack>>

(* MySQL refuses the next statement. *)
Blocked == job.rev # "none" /\ job.at < Len(Script) /\ ~Applies(Script[job.at + 1])

(* That error, a lost connection or a kill ends the command.                *)
Die ==
    /\ job # NoJob
    /\ job' = NoJob
    /\ dirty' = (dirty \/ job.at > 0)
    /\ UNCHANGED <<schema, applied, takenBack>>

Alembic == (\E r \in Revision : BeginRevision(r)) \/ Statement \/ Stamp
===============================================================================
