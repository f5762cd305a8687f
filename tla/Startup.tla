------------------------------- MODULE Startup -------------------------------
(***************************************************************************)
(* The start of the server: entrypoint.sh migrates, or leaves the schema to  *)
(* the lifespan of each uvicorn worker, which brings it to the models        *)
(* (synchronize.py) before the worker serves (main.py).                      *)
(*                                                                         *)
(* docker restarts a container that ends, uvicorn a worker that does.  The  *)
(* commands of the Makefile are given while the container is down.          *)
(***************************************************************************)
EXTENDS Migrations

CONSTANT Worker     \* UVICORN_WORKERS

VARIABLES
    mode,       \* "migrate", "sync" (DB_SYNCHRONIZE) or "skip" (not local, dev)
    container,  \* "down", "entrypoint" or "up"
    worker,     \* [Worker -> "off", "lifespan", "sync" or "serving"]
    plan,       \* [Worker -> what is left of its synchronisation]
    synced      \* history: some synchronisation changed the schema

servers == <<mode, container, worker, plan, synced>>

InitServer ==
    /\ mode = "skip" /\ container = "down" /\ synced = FALSE
    /\ worker = [w \in Worker |-> "off"]
    /\ plan = [w \in Worker |-> {}]

-----------------------------------------------------------------------------
(* synchronize_database *)

(* Statements in their turn: a plan is a set of pairs <<turn, statement>>.   *)
At(turn, statements) == {<<turn, s>> : s \in statements}

First(p) == CHOOSE x \in p : \A y \in p : x[1] <= y[1]

(* Autogenerate goes by name; here, within a turn, the order is any.         *)
Place ==
    [comments |-> 10, menus |-> 20, posts |-> 30, posts_image |-> 40, posts_like |-> 50,
     reports |-> 60, user_sanctions |-> 70, users |-> 80]

(* Columns that differ in what autogenerate compares: not AUTO_INCREMENT.   *)
Differing(t) ==
    {c \in DOMAIN tables[t] \intersect DOMAIN ModelTables[t] :
        tables[t][c] \ {"auto"} # ModelTables[t][c] \ {"auto"}}

KeysOf(t, ks) == {k \in ks : k[2] = t}
Unique(t) == {k \in KeysOf(t, ModelKeys) : k[1] = "uq"}

(* The keys CreateTable declares are the unique ones.                       *)
Created(t) ==
    At(Place[t], {CreateTable(t, ModelTables[t], {<<k[1], k[3]>> : k \in Unique(t)})})
    \union At(Place[t] + 1, {CreateKey(k) : k \in KeysOf(t, ModelKeys) \ Unique(t)})

(* Columns that are missing or differ, keys, and last the columns to drop.   *)
Compared(t) ==
    LET turn == 200 + Place[t]
        model == ModelTables[t]
        stale == KeysOf(t, keys) \ ModelKeys
    IN  At(turn, {AddColumn(t, c, model[c]) : c \in DOMAIN model \ DOMAIN tables[t]})
        \union At(turn + 1, {Modify(t, c, model[c]) : c \in Differing(t)})
        \union At(turn + 2, {DropKey(k) : k \in {k \in stale : k[1] # "fk"}})
        \union At(turn + 3, {CreateKey(k) : k \in KeysOf(t, ModelKeys) \ keys})
        \union At(turn + 4, {DropKey(k) : k \in {k \in stale : k[1] = "fk"}})
        \union At(turn + 5, {DropColumn(t, c) : c \in DOMAIN tables[t] \ DOMAIN model})

(* _collect_operations: tables that are missing, tables no model has, then  *)
(* table by table.                                                          *)
Plan ==
    (UNION {Created(t) : t \in DOMAIN ModelTables \ DOMAIN tables})
    \union At(100, {DropTable(t) : t \in DOMAIN tables \ DOMAIN ModelTables})
    \union (UNION {Compared(t) : t \in DOMAIN tables \intersect DOMAIN ModelTables})

-----------------------------------------------------------------------------
(* Bounds: one command or synchronisation is killed before its end, and a    *)
(* database that was synchronised sees no migration any more.               *)
OneKill == ~dirty

(* The commands of the Makefile *)

ByHand(cmd) ==
    /\ container = "down"
    /\ ~synced
    /\ Command(cmd)
    /\ UNCHANGED servers

Migrate == Alembic /\ UNCHANGED servers

ByHandDone == container = "down" /\ UpgradeDone /\ UNCHANGED servers

(* set -e: a migration that fails ends the container.                       *)
Abort ==
    /\ Die
    /\ OneKill \/ job.at = 0 \/ Blocked
    /\ container' = "down"
    /\ UNCHANGED <<mode, worker, plan, synced>>

-----------------------------------------------------------------------------
(* entrypoint.sh *)

(* --workers: as many as this start is given.                               *)
Workers(ws, state) == worker' = [w \in Worker |-> IF w \in ws THEN state ELSE "off"]

StartMigrating ==
    /\ container = "down"
    /\ ~synced
    /\ Command("upgrade")
    /\ mode' = "migrate" /\ container' = "entrypoint"
    /\ UNCHANGED <<worker, plan, synced>>

StartWithout(m, ws) ==
    /\ container = "down" /\ job = NoJob
    /\ mode' = m /\ container' = "up"
    /\ Workers(ws, "lifespan")
    /\ UNCHANGED <<migrations, plan, synced>>

ExecUvicorn ==
    /\ container = "entrypoint"
    /\ UpgradeDone
    /\ container' = "up"
    /\ Workers(Worker, "lifespan")
    /\ UNCHANGED <<mode, plan, synced>>

Down ==
    LET cut == \E w \in Worker : plan[w] # {}
    IN  /\ container = "up"
        /\ cut => OneKill
        /\ dirty' = (dirty \/ cut)
        /\ container' = "down"
        /\ Workers({}, "off")
        /\ plan' = [w \in Worker |-> {}]
        /\ UNCHANGED <<schema, applied, job, takenBack, mode, synced>>

-----------------------------------------------------------------------------
(* lifespan *)

Becomes(w, from, to) == worker[w] = from /\ worker' = [worker EXCEPT ![w] = to]

LifespanUnawaited(w) == \* mutant: the thread that synchronises is not awaited
    /\ Becomes(w, "lifespan", "serving")
    /\ plan' = [plan EXCEPT ![w] = IF mode = "sync" THEN Plan ELSE {}]
    /\ UNCHANGED <<migrations, mode, container, synced>>

Lifespan(w) ==
    /\ Becomes(w, "lifespan", IF mode = "sync" THEN "sync" ELSE "serving")
    /\ plan' = [plan EXCEPT ![w] = IF mode = "sync" THEN Plan ELSE {}]
    /\ UNCHANGED <<migrations, mode, container, synced>>

SyncStep(w) ==
    /\ worker[w] = "sync"
    /\ \E next \in plan[w] :
        /\ next = First(plan[w])
        /\ Execute(next[2])
        /\ plan' = [plan EXCEPT ![w] = @ \ {next}]
    /\ synced' = TRUE
    /\ UNCHANGED <<applied, job, dirty, takenBack, mode, container, worker>>

SyncDone(w) ==
    /\ plan[w] = {}
    /\ Becomes(w, "sync", "serving")
    /\ UNCHANGED <<migrations, mode, container, plan, synced>>

(* A statement that is refused ends the worker; so may anything while it     *)
(* serves.                                                                 *)
Restart(w) ==
    /\ \/ /\ \E next \in plan[w] : next = First(plan[w]) /\ ~Applies(next[2])
          /\ Becomes(w, "sync", "lifespan")
       \/ Becomes(w, "serving", "lifespan")
    /\ plan' = [plan EXCEPT ![w] = {}]
    /\ UNCHANGED <<migrations, mode, container, synced>>

-----------------------------------------------------------------------------
(* A command of Alembic fails only for a cause: one that was killed inside   *)
(* a revision, a schema the server synchronised, or one of the two scripts   *)
(* that cannot run -- the first revision's downgrade, which takes indexes   *)
(* from foreign keys, and view_count again after its downgrade, which does  *)
(* not put back the key its upgrade drops.  In particular every revision    *)
(* finds what the ones before it leave, on both branches of the history.    *)
CommandsFailForCause ==
    Blocked =>
        \/ dirty \/ synced
        \/ job.cmd = "downgrade" /\ job.rev = "initial"
        \/ job.cmd = "upgrade" /\ job.rev = "view_count" /\ takenBack

InNoMigration == {"reports", "user_sanctions"}

(* However a database came to head, by whichever branch first and through   *)
(* whatever downgrades, it is the models', less the two tables no migration *)
(* creates.                                                                *)
HeadIsModels ==
    job = NoJob /\ applied = Revision /\ ~dirty /\ ~synced =>
        /\ tables = [t \in DOMAIN ModelTables \ InNoMigration |-> ModelTables[t]]
        /\ keys = {k \in ModelKeys : k[2] \notin InNoMigration}

IgnoringAuto(ts) == [t \in DOMAIN ts |-> [c \in DOMAIN ts[t] |-> ts[t][c] \ {"auto"}]]

(* A worker that synchronised serves the models' schema -- whatever state   *)
(* half a migration left it in, and whatever the other workers' plans, made  *)
(* from older states, still do to it.                                       *)
ServedSchemaIsModels ==
    mode = "sync" /\ (\E w \in Worker : worker[w] = "serving") =>
        IgnoringAuto(tables) = IgnoringAuto(ModelTables) /\ keys = ModelKeys
===============================================================================
