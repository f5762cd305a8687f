------------------------------ MODULE SiteProofs -----------------------------
(***************************************************************************)
(* The running site, for any number of workers, rows, posts and upload    *)
(* requests.  Everything is proved of SiteSpec, with every restart and kill*)
(* the start of the server allows, and in four parts: the schema under       *)
(* synchronisation, the schema under migrations, uploads, and lists read   *)
(* page by page.  Each first says what a step of the site is to its part.  *)
(***************************************************************************)
EXTENDS Site, FiniteSetTheorems, TLAPS

(***************************************************************************)
(* The schema under synchronisation.                                        *)
(*                                                                         *)
(* What the schema still needs to be the models', as the statements that     *)
(* would bring it there, without their turns.  The argument: a statement    *)
(* any plan may contain goes Toward the models -- it adds nothing to Needed, *)
(* and what it carries out is needed no more.  So a worker's plan, however  *)
(* old the state it was made from, still covers what is needed, and when it  *)
(* is done nothing is.                                                     *)
(***************************************************************************)
Both == DOMAIN ModelTables \intersect DOMAIN tables

CreateModel(t) == CreateTable(t, ModelTables[t], {<<k[1], k[3]>> : k \in Unique(t)})

Lacking == DOMAIN ModelTables \ DOMAIN tables
Foreign == DOMAIN tables \ DOMAIN ModelTables
LackingColumns(t) == DOMAIN ModelTables[t] \ DOMAIN tables[t]
ForeignColumns(t) == DOMAIN tables[t] \ DOMAIN ModelTables[t]
LackingKeys == {k \in ModelKeys \ keys : k[2] \in DOMAIN tables \/ k[1] # "uq"}
StaleKeys == {k \in keys \ ModelKeys : k[2] \in Both}

Needed(s) ==
    \/ \E t \in Lacking : s = CreateModel(t)
    \/ \E t \in Foreign : s = DropTable(t)
    \/ \E t \in Both : \E c \in LackingColumns(t) : s = AddColumn(t, c, ModelTables[t][c])
    \/ \E t \in Both : \E c \in Differing(t) : s = Modify(t, c, ModelTables[t][c])
    \/ \E t \in Both : \E c \in ForeignColumns(t) : s = DropColumn(t, c)
    \/ \E k \in LackingKeys : s = CreateKey(k)
    \/ \E k \in StaleKeys : s = DropKey(k)

Toward(s) ==
    \/ \E t \in DOMAIN ModelTables : s = CreateModel(t)
    \/ s.table \notin DOMAIN ModelTables /\ s = DropTable(s.table)
    \/ \E t \in DOMAIN ModelTables : \E c \in DOMAIN ModelTables[t] :
          \/ s = AddColumn(t, c, ModelTables[t][c])
          \/ s = Modify(t, c, ModelTables[t][c])
    \/ \E t \in DOMAIN ModelTables :
          s.column \notin DOMAIN ModelTables[t] /\ s = DropColumn(t, s.column)
    \/ \E k \in ModelKeys : s = CreateKey(k)
    \/ s.key \notin ModelKeys /\ s = DropKey(s.key)

Todo(p) == {x[2] : x \in p}

(* A key belongs to a table that is there. *)
KeysHaveTables == \A k \in keys : k[2] \in DOMAIN tables

(* Migrations run only while no worker does. *)
Alone ==
    /\ container = "up" => job = NoJob
    /\ container # "up" => \A w \in Worker : worker[w] = "off"

PlansTowardModels == \A w \in Worker : worker[w] = "sync" => \A s \in Todo(plan[w]) : Toward(s)

PlansCoverNeed ==
    mode = "sync" => \A w \in Worker :
        /\ worker[w] = "sync" => \A s : Needed(s) => s \in Todo(plan[w])
        /\ worker[w] = "serving" => \A s : ~Needed(s)

SyncInv ==
    /\ DOMAIN worker = Worker /\ DOMAIN plan = Worker
    /\ KeysHaveTables /\ Alone /\ PlansTowardModels /\ PlansCoverNeed

-----------------------------------------------------------------------------
(* Every key of the models is a triple on one of their tables. *)
LEMMA ModelKeyShape ==
    \A k \in ModelKeys : k[2] \in DOMAIN ModelTables /\ k = <<k[1], k[2], k[3]>>
  BY DEF ModelKeys, ModelTables, Indexed

(* An index on one column is on a column its table has. *)
LEMMA ModelIndexShape ==
    ASSUME NEW t, NEW c, <<"ix", t, c>> \in ModelKeys
    PROVE  t \in DOMAIN ModelTables /\ c \in DOMAIN ModelTables[t]
  BY DEF ModelKeys, ModelTables, Indexed, UserTable, PostTable, CommentTable, MenuTable,
         PostLikeTable, PostImageTable, ReportTable, UserSanctionTable, Mixed, Timed, Kept,
         SoftDeleteMixin, TimestampMixin

(* What each statement does to tables and keys *)
LEMMA CreateTableDoes ==
    ASSUME NEW t, NEW columns, NEW ks, Execute(CreateTable(t, columns, ks))
    PROVE  /\ t \notin DOMAIN tables
           /\ tables' = With(tables, t, columns)
           /\ keys' = keys \union {<<k[1], t, k[2]>> : k \in ks}
  BY DEF Execute, Applies, KeysWith, CreateTable

LEMMA DropTableDoes ==
    ASSUME NEW t, Execute(DropTable(t))
    PROVE  /\ tables' = Without(tables, t)
           /\ keys' = {k \in keys : k[2] # t}
  BY DEF Execute, Applies, DropTable

LEMMA AddColumnDoes ==
    ASSUME NEW t, NEW c, NEW a, Execute(AddColumn(t, c, a))
    PROVE  /\ t \in DOMAIN tables
           /\ tables' = [tables EXCEPT ![t] = With(tables[t], c, a)]
           /\ keys' = keys
  BY DEF Execute, Applies, AddColumn, ColumnsAfter

LEMMA ModifyDoes ==
    ASSUME NEW t, NEW c, NEW a, Execute(Modify(t, c, a))
    PROVE  /\ t \in DOMAIN tables /\ c \in DOMAIN tables[t]
           /\ tables' = [tables EXCEPT ![t] = With(Without(tables[t], c), c, a)]
           /\ keys' = keys
  BY DEF Execute, Applies, Modify, Rename, ColumnsAfter, There

LEMMA DropColumnDoes ==
    ASSUME NEW t, NEW c, Execute(DropColumn(t, c))
    PROVE  /\ t \in DOMAIN tables
           /\ tables' = [tables EXCEPT ![t] = Without(tables[t], c)]
           /\ keys' = keys \ {<<"ix", t, c>>}
  BY DEF Execute, Applies, DropColumn, ColumnsAfter, There

LEMMA CreateKeyDoes ==
    ASSUME NEW k, Execute(CreateKey(k))
    PROVE  k[2] \in DOMAIN tables /\ tables' = tables /\ keys' = keys \union {k}
  BY DEF Execute, Applies, CreateKey

LEMMA DropKeyDoes ==
    ASSUME NEW k, Execute(DropKey(k))
    PROVE  tables' = tables /\ keys' = keys \ {k}
  BY DEF Execute, Applies, DropKey

(* No statement, of a plan or of a revision, leaves a key without its table. *)
LEMMA KeysKeepTables ==
    ASSUME KeysHaveTables, NEW s, Execute(s)
    PROVE  KeysHaveTables'
<1>1. CASE s.op = "create_table"
  BY <1>1 DEF Execute, KeysHaveTables, KeysWith, With
<1>2. CASE s.op = "drop_table"
  BY <1>2 DEF Execute, KeysHaveTables, Without
<1>3. CASE s.op = "create_key"
  BY <1>3 DEF Execute, Applies, KeysHaveTables
<1>4. CASE s.op = "drop_key"
  BY <1>4 DEF Execute, KeysHaveTables
<1>5. CASE s.op \notin {"create_table", "drop_table", "create_key", "drop_key"}
  <2>1. DOMAIN tables' = DOMAIN tables
    BY <1>5 DEF Execute
  <2>2. keys' \subseteq keys
    BY <1>5 DEF Execute
  <2> QED
    BY <2>1, <2>2 DEF KeysHaveTables
<1> QED
  BY <1>1, <1>2, <1>3, <1>4, <1>5
-----------------------------------------------------------------------------
(* A step that goes towards the models *)
Closer ==
    /\ Lacking' \subseteq Lacking
    /\ Foreign' \subseteq Foreign
    /\ \A t \in Both' :
          /\ \A c \in LackingColumns(t)' : t \in Both /\ c \in LackingColumns(t)
          /\ \A c \in Differing(t)' : t \in Both /\ c \in Differing(t)
          /\ \A c \in ForeignColumns(t)' : t \in Both /\ c \in ForeignColumns(t)
    /\ LackingKeys' \subseteq LackingKeys
    /\ StaleKeys' \subseteq StaleKeys

(* Such a step adds no statement to those that are needed. *)
LEMMA CloserNeedsLess ==
    ASSUME Closer, NEW s, Needed(s)'
    PROVE  Needed(s)
<1>1. CASE \E t \in Lacking' : s = CreateModel(t)
  BY <1>1 DEF Closer, Needed
<1>2. CASE \E t \in Foreign' : s = DropTable(t)
  BY <1>2 DEF Closer, Needed
<1>3. CASE \E t \in Both' : \E c \in LackingColumns(t)' : s = AddColumn(t, c, ModelTables[t][c])
  BY <1>3 DEF Closer, Needed
<1>4. CASE \E t \in Both' : \E c \in Differing(t)' : s = Modify(t, c, ModelTables[t][c])
  BY <1>4 DEF Closer, Needed
<1>5. CASE \E t \in Both' : \E c \in ForeignColumns(t)' : s = DropColumn(t, c)
  BY <1>5 DEF Closer, Needed
<1>6. CASE \E k \in LackingKeys' : s = CreateKey(k)
  BY <1>6 DEF Closer, Needed
<1>7. CASE \E k \in StaleKeys' : s = DropKey(k)
  BY <1>7 DEF Closer, Needed
<1> QED
  BY <1>1, <1>2, <1>3, <1>4, <1>5, <1>6, <1>7 DEF Needed

(* Statement by statement: closer, and what it is for is there afterwards.   *)
LEMMA CreateModelCloser ==
    ASSUME NEW t \in DOMAIN ModelTables, Execute(CreateModel(t)), KeysHaveTables
    PROVE  Closer /\ t \notin Lacking'
<1> DEFINE unique == {<<k[1], k[3]>> : k \in Unique(t)}
<1>1. /\ t \notin DOMAIN tables
      /\ tables' = With(tables, t, ModelTables[t])
      /\ keys' = keys \union {<<k[1], t, k[2]>> : k \in unique}
  BY CreateTableDoes DEF CreateModel
<1>2. {<<k[1], t, k[2]>> : k \in unique} = Unique(t)
  <2>1. \A k \in Unique(t) : k = <<k[1], t, k[3]>>
    BY ModelKeyShape DEF Unique, KeysOf
  <2>2. \A k \in Unique(t) : <<k[1], k[3]>> \in unique
    OBVIOUS
  <2>3. ASSUME NEW j \in unique PROVE <<j[1], t, j[2]>> \in Unique(t)
    <3>1. PICK k \in Unique(t) : j = <<k[1], k[3]>>
      BY <2>3
    <3> QED
      BY <2>1, <3>1
  <2>4. ASSUME NEW k \in Unique(t) PROVE \E j \in unique : k = <<j[1], t, j[2]>>
    <3> WITNESS <<k[1], k[3]>> \in unique
    <3> QED
      BY <2>1
  <2> QED
    BY <2>3, <2>4
<1>3. keys' = keys \union Unique(t)
  BY <1>1, <1>2
<1> HIDE DEF unique
<1>4. DOMAIN tables' = DOMAIN tables \union {t} /\ tables'[t] = ModelTables[t]
  BY <1>1 DEF With
<1>5. \A u \in DOMAIN tables : u # t /\ tables'[u] = tables[u]
  BY <1>1 DEF With
<1>6. \A u \in Both' : \/ u = t /\ LackingColumns(u)' = {} /\ Differing(u)' = {} /\ ForeignColumns(u)' = {}
                       \/ /\ u \in Both /\ LackingColumns(u)' = LackingColumns(u)
                          /\ Differing(u)' = Differing(u) /\ ForeignColumns(u)' = ForeignColumns(u)
  BY <1>4, <1>5 DEF Both, LackingColumns, Differing, ForeignColumns
<1>7. Lacking' \subseteq Lacking /\ Foreign' \subseteq Foreign /\ t \notin Lacking'
  BY <1>4 DEF Lacking, Foreign
<1>8. LackingKeys' \subseteq LackingKeys
  BY <1>3, <1>4 DEF LackingKeys, Unique, KeysOf
<1>9. StaleKeys' \subseteq StaleKeys
  BY <1>3 DEF StaleKeys, Unique, KeysOf, KeysHaveTables, Both
<1> QED
  BY <1>6, <1>7, <1>8, <1>9 DEF Closer

LEMMA DropForeignCloser ==
    ASSUME NEW t, t \notin DOMAIN ModelTables, Execute(DropTable(t))
    PROVE  Closer /\ t \notin Foreign'
<1>1. tables' = Without(tables, t) /\ keys' = {k \in keys : k[2] # t}
  BY DropTableDoes
<1>2. DOMAIN tables' = DOMAIN tables \ {t} /\ \A u \in DOMAIN tables' : tables'[u] = tables[u]
  BY <1>1 DEF Without
<1>3. \A u \in Both' : /\ u \in Both /\ LackingColumns(u)' = LackingColumns(u)
                       /\ Differing(u)' = Differing(u) /\ ForeignColumns(u)' = ForeignColumns(u)
  BY <1>2 DEF Both, LackingColumns, Differing, ForeignColumns
<1>4. Lacking' \subseteq Lacking /\ Foreign' \subseteq Foreign /\ t \notin Foreign'
  BY <1>2 DEF Lacking, Foreign
<1>5. LackingKeys' \subseteq LackingKeys /\ StaleKeys' \subseteq StaleKeys
  BY <1>1, <1>2, ModelKeyShape DEF LackingKeys, StaleKeys, Both
<1> QED
  BY <1>3, <1>4, <1>5 DEF Closer

(* A statement on one table of the models that there is *)
LEMMA OneTableCloser ==
    ASSUME NEW t \in Both, NEW columns,
           tables' = [tables EXCEPT ![t] = columns],
           DOMAIN ModelTables[t] \intersect DOMAIN tables[t] \subseteq DOMAIN columns,
           DOMAIN columns \ DOMAIN ModelTables[t] \subseteq DOMAIN tables[t],
           \A c \in DOMAIN columns \intersect DOMAIN ModelTables[t] :
              \/ c \in DOMAIN tables[t] /\ columns[c] = tables[t][c]
              \/ columns[c] = ModelTables[t][c],
           keys' \subseteq keys, keys \ keys' \subseteq {k \in keys : k \notin ModelKeys}
    PROVE  Closer
<1>1. /\ DOMAIN tables' = DOMAIN tables /\ tables'[t] = columns
      /\ \A u \in DOMAIN tables : u # t => tables'[u] = tables[u]
  BY DEF Both
<1>2. Both' = Both /\ Lacking' \subseteq Lacking /\ Foreign' \subseteq Foreign
  BY <1>1 DEF Both, Lacking, Foreign
<1>3. \A u \in Both : u # t => /\ LackingColumns(u)' = LackingColumns(u)
                               /\ Differing(u)' = Differing(u)
                               /\ ForeignColumns(u)' = ForeignColumns(u)
  BY <1>1 DEF Both, LackingColumns, Differing, ForeignColumns
<1>4. LackingColumns(t)' \subseteq LackingColumns(t)
  BY <1>1 DEF LackingColumns
<1>5. Differing(t)' \subseteq Differing(t)
  BY <1>1 DEF Differing
<1>6. ForeignColumns(t)' \subseteq ForeignColumns(t)
  BY <1>1 DEF ForeignColumns
<1>7. LackingKeys' \subseteq LackingKeys /\ StaleKeys' \subseteq StaleKeys
  BY <1>1, <1>2 DEF LackingKeys, StaleKeys
<1> QED
  BY <1>2, <1>3, <1>4, <1>5, <1>6, <1>7 DEF Closer

LEMMA AddColumnCloser ==
    ASSUME NEW t \in DOMAIN ModelTables, NEW c \in DOMAIN ModelTables[t],
           Execute(AddColumn(t, c, ModelTables[t][c]))
    PROVE  Closer /\ c \notin LackingColumns(t)'
<1> DEFINE columns == With(tables[t], c, ModelTables[t][c])
<1>1. t \in Both /\ tables' = [tables EXCEPT ![t] = columns] /\ keys' = keys
  BY AddColumnDoes DEF Both
<1>2. /\ DOMAIN columns = DOMAIN tables[t] \union {c} /\ columns[c] = ModelTables[t][c]
      /\ \A d \in DOMAIN tables[t] : d # c => columns[d] = tables[t][d]
  BY DEF With
<1> HIDE DEF columns
<1>3. Closer
  BY <1>1, <1>2, OneTableCloser
<1>4. tables'[t] = columns
  BY <1>1 DEF Both
<1> QED
  BY <1>2, <1>3, <1>4 DEF LackingColumns

LEMMA ModifyCloser ==
    ASSUME NEW t \in DOMAIN ModelTables, NEW c \in DOMAIN ModelTables[t],
           Execute(Modify(t, c, ModelTables[t][c]))
    PROVE  Closer /\ c \notin Differing(t)'
<1> DEFINE columns == With(Without(tables[t], c), c, ModelTables[t][c])
<1>1. t \in Both /\ tables' = [tables EXCEPT ![t] = columns] /\ keys' = keys
  BY ModifyDoes DEF Both
<1>2. c \in DOMAIN tables[t]
  BY ModifyDoes
<1>3. /\ DOMAIN columns = DOMAIN tables[t] /\ columns[c] = ModelTables[t][c]
      /\ \A d \in DOMAIN tables[t] : d # c => columns[d] = tables[t][d]
  BY <1>2 DEF With, Without
<1> HIDE DEF columns
<1>4. Closer
  BY <1>1, <1>3, OneTableCloser
<1>5. tables'[t] = columns
  BY <1>1 DEF Both
<1> QED
  BY <1>3, <1>4, <1>5 DEF Differing

LEMMA DropColumnCloser ==
    ASSUME NEW t \in DOMAIN ModelTables, NEW c, c \notin DOMAIN ModelTables[t],
           Execute(DropColumn(t, c))
    PROVE  Closer /\ c \notin ForeignColumns(t)'
<1> DEFINE columns == Without(tables[t], c)
<1>1. t \in Both /\ tables' = [tables EXCEPT ![t] = columns]
  BY DropColumnDoes DEF Both
<1>2. keys' = keys \ {<<"ix", t, c>>}
  BY DropColumnDoes
<1>3. /\ DOMAIN columns = DOMAIN tables[t] \ {c}
      /\ \A d \in DOMAIN columns : columns[d] = tables[t][d]
  BY DEF Without
<1>4. <<"ix", t, c>> \notin ModelKeys
  BY ModelIndexShape
<1> HIDE DEF columns
<1>5. Closer
  BY <1>1, <1>2, <1>3, <1>4, OneTableCloser
<1>6. tables'[t] = columns
  BY <1>1 DEF Both
<1> QED
  BY <1>3, <1>5, <1>6 DEF ForeignColumns

(* The tables stay, keys come from the models or go for not being theirs.   *)
LEMMA KeysCloser ==
    ASSUME tables' = tables, keys' \ keys \subseteq ModelKeys,
           \A k \in keys \ keys' : k \notin ModelKeys
    PROVE  Closer
<1>1. /\ Lacking' = Lacking /\ Foreign' = Foreign /\ Both' = Both
      /\ \A t \in Both : /\ LackingColumns(t)' = LackingColumns(t)
                         /\ Differing(t)' = Differing(t)
                         /\ ForeignColumns(t)' = ForeignColumns(t)
  BY DEF Lacking, Foreign, Both, LackingColumns, Differing, ForeignColumns
<1>2. LackingKeys' \subseteq LackingKeys /\ StaleKeys' \subseteq StaleKeys
  BY <1>1 DEF LackingKeys, StaleKeys
<1> QED
  BY <1>1, <1>2 DEF Closer

(* A statement carried out is not needed any more: that kind of statement,    *)
(* on that table, column or key, is needed only as long as it is not there. *)
LEMMA NeededAfter ==
    ASSUME NEW s, Needed(s)'
    PROVE  /\ \A t : s = CreateModel(t) => t \in Lacking'
           /\ \A t : s = DropTable(t) => t \in Foreign'
           /\ \A t, c, a : s = AddColumn(t, c, a) => c \in LackingColumns(t)'
           /\ \A t, c, a : s = Modify(t, c, a) => c \in Differing(t)'
           /\ \A t, c : s = DropColumn(t, c) => c \in ForeignColumns(t)'
           /\ \A k : s = CreateKey(k) => k \in LackingKeys'
           /\ \A k : s = DropKey(k) => k \in StaleKeys'
<1> USE DEF CreateModel, CreateTable, DropTable, AddColumn, Modify, Rename, DropColumn,
            CreateKey, DropKey
<1>1. CASE \E t \in Lacking' : s = CreateModel(t)
  BY <1>1
<1>2. CASE \E t \in Foreign' : s = DropTable(t)
  BY <1>2
<1>3. CASE \E t \in Both' : \E c \in LackingColumns(t)' : s = AddColumn(t, c, ModelTables[t][c])
  BY <1>3
<1>4. CASE \E t \in Both' : \E c \in Differing(t)' : s = Modify(t, c, ModelTables[t][c])
  BY <1>4
<1>5. CASE \E t \in Both' : \E c \in ForeignColumns(t)' : s = DropColumn(t, c)
  BY <1>5
<1>6. CASE \E k \in LackingKeys' : s = CreateKey(k)
  BY <1>6
<1>7. CASE \E k \in StaleKeys' : s = DropKey(k)
  BY <1>7
<1> QED
  BY <1>1, <1>2, <1>3, <1>4, <1>5, <1>6, <1>7 DEF Needed

(* The heart of it *)
LEMMA TowardCloser ==
    ASSUME NEW s, Toward(s), Execute(s), KeysHaveTables
    PROVE  Closer /\ ~Needed(s)'
<1>1. CASE \E t \in DOMAIN ModelTables : s = CreateModel(t)
  <2>1. PICK t \in DOMAIN ModelTables : s = CreateModel(t)
    BY <1>1
  <2>2. Closer /\ t \notin Lacking'
    BY <2>1, CreateModelCloser
  <2> QED
    BY <2>1, <2>2, NeededAfter
<1>2. CASE s.table \notin DOMAIN ModelTables /\ s = DropTable(s.table)
  <2>1. Closer /\ s.table \notin Foreign'
    BY <1>2, DropForeignCloser
  <2> QED
    BY <1>2, <2>1, NeededAfter
<1>3. CASE \E t \in DOMAIN ModelTables : \E c \in DOMAIN ModelTables[t] :
              s = AddColumn(t, c, ModelTables[t][c])
  <2>1. PICK t \in DOMAIN ModelTables : \E c \in DOMAIN ModelTables[t] :
              s = AddColumn(t, c, ModelTables[t][c])
    BY <1>3
  <2>2. PICK c \in DOMAIN ModelTables[t] : s = AddColumn(t, c, ModelTables[t][c])
    BY <2>1
  <2>3. Closer /\ c \notin LackingColumns(t)'
    BY <2>2, AddColumnCloser
  <2> QED
    BY <2>2, <2>3, NeededAfter
<1>4. CASE \E t \in DOMAIN ModelTables : \E c \in DOMAIN ModelTables[t] :
              s = Modify(t, c, ModelTables[t][c])
  <2>1. PICK t \in DOMAIN ModelTables : \E c \in DOMAIN ModelTables[t] :
              s = Modify(t, c, ModelTables[t][c])
    BY <1>4
  <2>2. PICK c \in DOMAIN ModelTables[t] : s = Modify(t, c, ModelTables[t][c])
    BY <2>1
  <2>3. Closer /\ c \notin Differing(t)'
    BY <2>2, ModifyCloser
  <2> QED
    BY <2>2, <2>3, NeededAfter
<1>5. CASE \E t \in DOMAIN ModelTables :
              s.column \notin DOMAIN ModelTables[t] /\ s = DropColumn(t, s.column)
  <2>1. PICK t \in DOMAIN ModelTables :
              s.column \notin DOMAIN ModelTables[t] /\ s = DropColumn(t, s.column)
    BY <1>5
  <2>2. Closer /\ s.column \notin ForeignColumns(t)'
    BY <2>1, DropColumnCloser
  <2> QED
    BY <2>1, <2>2, NeededAfter
<1>6. CASE \E k \in ModelKeys : s = CreateKey(k)
  <2>1. PICK k \in ModelKeys : s = CreateKey(k)
    BY <1>6
  <2>2. tables' = tables /\ keys' = keys \union {k}
    BY <2>1, CreateKeyDoes
  <2>3. Closer /\ k \notin LackingKeys'
    BY <2>2, KeysCloser DEF LackingKeys
  <2> QED
    BY <2>1, <2>3, NeededAfter
<1>7. CASE s.key \notin ModelKeys /\ s = DropKey(s.key)
  <2>1. tables' = tables /\ keys' = keys \ {s.key}
    BY <1>7, DropKeyDoes
  <2>2. Closer /\ s.key \notin StaleKeys'
    BY <1>7, <2>1, KeysCloser DEF StaleKeys
  <2> QED
    BY <1>7, <2>2, NeededAfter
<1> QED
  BY <1>1, <1>2, <1>3, <1>4, <1>5, <1>6, <1>7 DEF Toward

-----------------------------------------------------------------------------
(* A plan holds what is needed when it is made, and only goes towards the     *)
(* models.                                                                 *)
LEMMA TodoOfParts ==
    /\ \A p, q : Todo(p \union q) = Todo(p) \union Todo(q)
    /\ \A turn, statements : Todo(At(turn, statements)) = statements
<1>1. \A p, q : Todo(p \union q) = Todo(p) \union Todo(q)
  BY DEF Todo
<1>2. ASSUME NEW turn, NEW statements PROVE Todo(At(turn, statements)) = statements
  <2>1. ASSUME NEW s \in statements PROVE s \in Todo(At(turn, statements))
    <3>1. <<turn, s>> \in At(turn, statements)
      BY DEF At
    <3> QED
      BY <3>1 DEF Todo
  <2>2. ASSUME NEW s \in Todo(At(turn, statements)) PROVE s \in statements
    BY <2>2 DEF Todo, At
  <2> QED
    BY <2>1, <2>2
<1> QED
  BY <1>1, <1>2

LEMMA TodoOfCreated ==
    ASSUME NEW t
    PROVE  Todo(Created(t)) = {CreateModel(t)}
                              \union {CreateKey(k) : k \in KeysOf(t, ModelKeys) \ Unique(t)}
<1> DEFINE a == {CreateModel(t)}
           b == {CreateKey(k) : k \in KeysOf(t, ModelKeys) \ Unique(t)}
<1>1. Created(t) = At(Place[t], a) \union At(Place[t] + 1, b)
  BY DEF Created, CreateModel
<1> HIDE DEF a, b
<1>2. Todo(Created(t)) = a \union b
  BY <1>1, TodoOfParts
<1> QED
  BY <1>2 DEF a, b

LEMMA TodoOfCompared ==
    ASSUME NEW t
    PROVE  Todo(Compared(t)) =
             {AddColumn(t, c, ModelTables[t][c]) : c \in LackingColumns(t)}
             \union {Modify(t, c, ModelTables[t][c]) : c \in Differing(t)}
             \union {DropKey(k) : k \in {k \in KeysOf(t, keys) \ ModelKeys : k[1] # "fk"}}
             \union {CreateKey(k) : k \in KeysOf(t, ModelKeys) \ keys}
             \union {DropKey(k) : k \in {k \in KeysOf(t, keys) \ ModelKeys : k[1] = "fk"}}
             \union {DropColumn(t, c) : c \in ForeignColumns(t)}
<1> DEFINE a == {AddColumn(t, c, ModelTables[t][c]) : c \in LackingColumns(t)}
           b == {Modify(t, c, ModelTables[t][c]) : c \in Differing(t)}
           x == {DropKey(k) : k \in {k \in KeysOf(t, keys) \ ModelKeys : k[1] # "fk"}}
           y == {CreateKey(k) : k \in KeysOf(t, ModelKeys) \ keys}
           z == {DropKey(k) : k \in {k \in KeysOf(t, keys) \ ModelKeys : k[1] = "fk"}}
           d == {DropColumn(t, c) : c \in ForeignColumns(t)}
           turn == 200 + Place[t]
<1>1. Compared(t) = At(turn, a) \union At(turn + 1, b) \union At(turn + 2, x)
                    \union At(turn + 3, y) \union At(turn + 4, z) \union At(turn + 5, d)
  BY DEF Compared, LackingColumns, ForeignColumns
<1> HIDE DEF a, b, x, y, z, d, turn
<1>2. ASSUME NEW s PROVE s \in Todo(Compared(t)) <=>
             \/ s \in a \/ s \in b \/ s \in x \/ s \in y \/ s \in z \/ s \in d
  <2>1. ASSUME s \in Todo(Compared(t))
        PROVE  s \in a \/ s \in b \/ s \in x \/ s \in y \/ s \in z \/ s \in d
    BY <2>1, <1>1 DEF Todo, At
  <2>2. ASSUME NEW i, <<i, s>> \in Compared(t)
        PROVE  s \in Todo(Compared(t))
    BY <2>2 DEF Todo
  <2>3. ASSUME s \in a \/ s \in b \/ s \in x \/ s \in y \/ s \in z \/ s \in d
        PROVE  \E i : <<i, s>> \in Compared(t)
    BY <2>3, <1>1 DEF At
  <2> QED
    BY <2>1, <2>2, <2>3
<1> QED
  BY <1>2 DEF a, b, x, y, z, d

LEMMA TodoOfPlan ==
    ASSUME NEW s
    PROVE  s \in Todo(Plan) <=>
             \/ \E t \in Lacking : s \in Todo(Created(t))
             \/ \E t \in Foreign : s = DropTable(t)
             \/ \E t \in Both : s \in Todo(Compared(t))
<1> DEFINE a == UNION {Created(t) : t \in Lacking}
           b == {DropTable(t) : t \in Foreign}
           d == UNION {Compared(t) : t \in Both}
<1>1. Plan = a \union At(100, b) \union d
  <2>1. Both = DOMAIN tables \intersect DOMAIN ModelTables
    BY DEF Both
  <2> QED
    BY <2>1 DEF Plan, Lacking, Foreign
<1>2. s \in Todo(a) <=> \E t \in Lacking : s \in Todo(Created(t))
  BY DEF Todo
<1>3. s \in Todo(d) <=> \E t \in Both : s \in Todo(Compared(t))
  BY DEF Todo
<1>4. s \in Todo(At(100, b)) <=> \E t \in Foreign : s = DropTable(t)
  BY TodoOfParts
<1> HIDE DEF a, b, d
<1>5. s \in Todo(Plan) <=> s \in Todo(a) \/ s \in Todo(At(100, b)) \/ s \in Todo(d)
  BY <1>1 DEF Todo
<1> QED
  BY <1>2, <1>3, <1>4, <1>5

LEMMA PlanCoversNeed ==
    ASSUME KeysHaveTables, NEW s, Needed(s)
    PROVE  s \in Todo(Plan)
<1>1. CASE \E t \in Lacking : s = CreateModel(t)
  BY <1>1, TodoOfPlan, TodoOfCreated
<1>2. CASE \E t \in Foreign : s = DropTable(t)
  BY <1>2, TodoOfPlan
<1>3. CASE \E t \in Both : \E c \in LackingColumns(t) : s = AddColumn(t, c, ModelTables[t][c])
  BY <1>3, TodoOfPlan, TodoOfCompared
<1>4. CASE \E t \in Both : \E c \in Differing(t) : s = Modify(t, c, ModelTables[t][c])
  BY <1>4, TodoOfPlan, TodoOfCompared
<1>5. CASE \E t \in Both : \E c \in ForeignColumns(t) : s = DropColumn(t, c)
  BY <1>5, TodoOfPlan, TodoOfCompared
<1>6. CASE \E k \in LackingKeys : s = CreateKey(k)
  <2>1. PICK k \in LackingKeys : s = CreateKey(k)
    BY <1>6
  <2>2. k \in KeysOf(k[2], ModelKeys) /\ k \notin keys /\ k[2] \in DOMAIN ModelTables
    BY ModelKeyShape DEF LackingKeys, KeysOf
  <2>3. CASE k[2] \in DOMAIN tables
    <3>1. k[2] \in Both
      BY <2>2, <2>3 DEF Both
    <3> QED
      BY <2>1, <2>2, <3>1, TodoOfPlan, TodoOfCompared
  <2>4. CASE k[2] \notin DOMAIN tables
    <3>1. k[2] \in Lacking /\ k \notin Unique(k[2])
      BY <2>2, <2>4 DEF Lacking, LackingKeys, Unique
    <3> QED
      BY <2>1, <2>2, <3>1, TodoOfPlan, TodoOfCreated
  <2> QED
    BY <2>3, <2>4
<1>7. CASE \E k \in StaleKeys : s = DropKey(k)
  <2>1. PICK k \in StaleKeys : s = DropKey(k)
    BY <1>7
  <2>2. k[2] \in Both /\ k \in KeysOf(k[2], keys) \ ModelKeys
    BY DEF StaleKeys, KeysOf
  <2> QED
    BY <2>1, <2>2, TodoOfPlan, TodoOfCompared
<1> QED
  BY <1>1, <1>2, <1>3, <1>4, <1>5, <1>6, <1>7 DEF Needed

LEMMA PlanGoesToward ==
    ASSUME NEW s \in Todo(Plan)
    PROVE  Toward(s)
<1>1. ASSUME NEW t \in Lacking, s \in Todo(Created(t))
      PROVE  Toward(s)
  <2>1. s = CreateModel(t) \/ \E k \in ModelKeys : s = CreateKey(k)
    BY <1>1, TodoOfCreated DEF KeysOf
  <2> QED
    BY <2>1 DEF Toward, Lacking
<1>2. ASSUME NEW t \in Foreign, s = DropTable(t)
      PROVE  Toward(s)
  <2>1. s.table = t
    BY <1>2 DEF DropTable
  <2> QED
    BY <1>2, <2>1 DEF Toward, Foreign
<1>3. ASSUME NEW t \in Both, s \in Todo(Compared(t))
      PROVE  Toward(s)
  <2>1. t \in DOMAIN ModelTables
    BY DEF Both
  <2>2. CASE \E c \in LackingColumns(t) : s = AddColumn(t, c, ModelTables[t][c])
    BY <2>1, <2>2 DEF Toward, LackingColumns
  <2>3. CASE \E c \in Differing(t) : s = Modify(t, c, ModelTables[t][c])
    BY <2>1, <2>3 DEF Toward, Differing
  <2>4. CASE \E c \in ForeignColumns(t) : s = DropColumn(t, c)
    <3>1. PICK c \in ForeignColumns(t) : s = DropColumn(t, c)
      BY <2>4
    <3>2. s.column = c
      BY <3>1 DEF DropColumn
    <3> QED
      BY <2>1, <3>1, <3>2 DEF Toward, ForeignColumns
  <2>5. CASE \E k \in ModelKeys : s = CreateKey(k)
    BY <2>5 DEF Toward
  <2>6. CASE \E k \in keys \ ModelKeys : s = DropKey(k)
    <3>1. PICK k \in keys \ ModelKeys : s = DropKey(k)
      BY <2>6
    <3>2. s.key = k
      BY <3>1 DEF DropKey
    <3> QED
      BY <3>1, <3>2 DEF Toward
  <2> QED
    BY <1>3, <2>2, <2>3, <2>4, <2>5, <2>6, TodoOfCompared DEF KeysOf
<1> QED
  BY <1>1, <1>2, <1>3, TodoOfPlan

-----------------------------------------------------------------------------
(* What the site's steps do to schema and servers *)
schemaVars == <<migrations, servers>>

ServerMove(w) == Lifespan(w) \/ SyncStep(w) \/ SyncDone(w) \/ Restart(w)

SchemaMove ==
    \/ \E cmd \in {"upgrade", "downgrade"} : ByHand(cmd)
    \/ ByHandDone
    \/ Migrate
    \/ Abort
    \/ StartMigrating
    \/ \E m \in {"sync", "skip"} : \E ws \in SUBSET Worker : StartWithout(m, ws)
    \/ ExecUvicorn
    \/ Down
    \/ \E w \in Worker : ServerMove(w)

LEMMA SiteMoves ==
    ASSUME [SiteNext]_siteVars
    PROVE  SchemaMove \/ UNCHANGED schemaVars
<1>1. CASE SchemaStep
  BY <1>1 DEF SchemaStep, SchemaMove
<1>2. CASE ServerStep
  <2>1. ASSUME NEW m \in {"sync", "skip"}, StartWithout(m, Started) PROVE SchemaMove
    <3>1. \A ws : StartWithout(m, ws) => StartWithout(m, ws \intersect Worker)
      BY DEF StartWithout, Workers
    <3>2. Started \intersect Worker \in SUBSET Worker
      OBVIOUS
    <3> QED
      BY <2>1, <3>1, <3>2 DEF SchemaMove
  <2> QED
    BY <1>2, <2>1 DEF ServerStep, SchemaMove, ServerMove
<1>3. CASE OpenPages \/ OpenImages \/ PagesStep \/ ImagesStep
  BY <1>3 DEF OpenPages, OpenImages, PagesStep, ImagesStep, Inside, schemaVars
<1>4. CASE UNCHANGED siteVars
  BY <1>4 DEF siteVars, schemaVars
<1> QED
  BY <1>1, <1>2, <1>3, <1>4 DEF SiteNext

(* Need that does not grow keeps every plan that covered it. *)
LEMMA CoverKept ==
    ASSUME PlansCoverNeed, UNCHANGED <<mode, worker>>,
           \A s : Needed(s)' => Needed(s),
           \A w \in Worker : \A s : Needed(s)' /\ s \in Todo(plan[w]) => s \in Todo(plan'[w])
    PROVE  PlansCoverNeed'
  BY DEF PlansCoverNeed

(* A statement carried out leaves every plan covering what is still needed. *)
LEMMA SyncStepKeeps ==
    ASSUME SyncInv, NEW w \in Worker, SyncStep(w)
    PROVE  SyncInv'
<1> USE DEF SyncInv
<1>1. PICK next \in plan[w] : Execute(next[2]) /\ plan' = [plan EXCEPT ![w] = @ \ {next}]
  BY DEF SyncStep
<1>2. next[2] \in Todo(plan[w]) /\ worker[w] = "sync"
  BY DEF Todo, SyncStep
<1>3. Toward(next[2])
  BY <1>2 DEF PlansTowardModels
<1>4. Closer /\ ~Needed(next[2])'
  BY <1>1, <1>3, TowardCloser
<1>5. KeysHaveTables'
  BY <1>1, KeysKeepTables
<1>6. /\ plan'[w] = plan[w] \ {next} /\ \A v \in Worker \ {w} : plan'[v] = plan[v]
      /\ DOMAIN plan' = Worker
  BY <1>1
<1>7. UNCHANGED <<mode, container, worker, job>>
  BY DEF SyncStep
<1>8. \A v \in Worker : Todo(plan'[v]) \subseteq Todo(plan[v])
  BY <1>6 DEF Todo
<1>9. \A v \in Worker : \A s : s # next[2] /\ s \in Todo(plan[v]) => s \in Todo(plan'[v])
  BY <1>6 DEF Todo
<1>10. PlansTowardModels'
  BY <1>7, <1>8 DEF PlansTowardModels, Toward
<1>11. PlansCoverNeed'
  BY <1>4, <1>7, <1>9, CoverKept, CloserNeedsLess
<1>12. Alone'
  BY <1>7 DEF Alone
<1> QED
  BY <1>5, <1>6, <1>7, <1>10, <1>11, <1>12

(* A new plan is made from the schema as it is. *)
LEMMA LifespanKeeps ==
    ASSUME SyncInv, NEW w \in Worker, Lifespan(w)
    PROVE  SyncInv'
<1> USE DEF SyncInv
<1>1. UNCHANGED <<migrations, mode, container>>
  BY DEF Lifespan
<1>2. UNCHANGED <<tables, keys, job>>
  BY <1>1 DEF migrations, schema
<1>3. \A s : Needed(s)' <=> Needed(s)
  BY <1>2 DEF Needed, Lacking, Foreign, Both, LackingColumns, ForeignColumns, Differing,
              LackingKeys, StaleKeys
<1>4. /\ worker[w] = "lifespan" /\ DOMAIN worker' = Worker
      /\ worker'[w] = IF mode = "sync" THEN "sync" ELSE "serving"
      /\ \A v \in Worker \ {w} : worker'[v] = worker[v]
  BY DEF Lifespan, Becomes
<1>5. /\ DOMAIN plan' = Worker
      /\ mode = "sync" => plan'[w] = Plan
      /\ \A v \in Worker \ {w} : plan'[v] = plan[v]
  BY DEF Lifespan
<1>6. PlansTowardModels'
  <2>1. \A s : Toward(s)' <=> Toward(s)
    BY DEF Toward
  <2>2. ASSUME NEW v \in Worker, worker'[v] = "sync", NEW s \in Todo(plan'[v]) PROVE Toward(s)
    <3>1. CASE v = w
      BY <2>2, <3>1, <1>4, <1>5, PlanGoesToward
    <3>2. CASE v # w
      BY <2>2, <3>2, <1>4, <1>5 DEF PlansTowardModels
    <3> QED
      BY <3>1, <3>2
  <2>3. \A v : Todo(plan[v])' = Todo(plan'[v])
    BY DEF Todo
  <2> QED
    BY <2>1, <2>2, <2>3 DEF PlansTowardModels
<1>7. PlansCoverNeed'
  <2> SUFFICES ASSUME mode = "sync", NEW v \in Worker
               PROVE  /\ worker'[v] = "sync" => \A s : Needed(s) => s \in Todo(plan'[v])
                      /\ worker'[v] = "serving" => \A s : ~Needed(s)
    BY <1>1, <1>3 DEF PlansCoverNeed
  <2>1. CASE v = w
    BY <2>1, <1>4, <1>5, PlanCoversNeed
  <2>2. CASE v # w
    BY <2>2, <1>4, <1>5 DEF PlansCoverNeed
  <2> QED
    BY <2>1, <2>2
<1>8. Alone' /\ KeysHaveTables'
  BY <1>1, <1>2, <1>4 DEF Alone, KeysHaveTables
<1> QED
  BY <1>4, <1>5, <1>6, <1>7, <1>8

(* A worker whose plan is empty finds nothing needed; one that starts again   *)
(* is promised nothing.  The schema does not move.                         *)
LEMMA WorkerMovesOn ==
    ASSUME SyncInv, NEW w \in Worker, SyncDone(w) \/ Restart(w)
    PROVE  SyncInv'
<1> USE DEF SyncInv
<1>1. UNCHANGED <<migrations, mode, container>>
  BY DEF SyncDone, Restart
<1>2. UNCHANGED <<tables, keys, job>>
  BY <1>1 DEF migrations, schema
<1>3. \A s : Needed(s)' <=> Needed(s)
  BY <1>2 DEF Needed, Lacking, Foreign, Both, LackingColumns, ForeignColumns, Differing,
              LackingKeys, StaleKeys
<1>4. /\ DOMAIN worker' = Worker /\ worker[w] # "off"
      /\ \A v \in Worker \ {w} : worker'[v] = worker[v]
  BY DEF SyncDone, Restart, Becomes
<1>5. /\ DOMAIN plan' = Worker
      /\ \A v \in Worker \ {w} : plan'[v] = plan[v]
  BY DEF SyncDone, Restart
<1>6. \/ worker[w] = "sync" /\ worker'[w] = "serving" /\ plan[w] = {}
      \/ worker'[w] = "lifespan"
  BY DEF SyncDone, Restart, Becomes
<1>7. PlansTowardModels'
  <2>1. \A s : Toward(s)' <=> Toward(s)
    BY DEF Toward
  <2>2. ASSUME NEW v \in Worker, worker'[v] = "sync", NEW s \in Todo(plan'[v]) PROVE Toward(s)
    BY <2>2, <1>4, <1>5, <1>6 DEF PlansTowardModels
  <2>3. \A v : Todo(plan[v])' = Todo(plan'[v])
    BY DEF Todo
  <2> QED
    BY <2>1, <2>2, <2>3 DEF PlansTowardModels
<1>8. PlansCoverNeed'
  <2> SUFFICES ASSUME mode = "sync", NEW v \in Worker
               PROVE  /\ worker'[v] = "sync" => \A s : Needed(s) => s \in Todo(plan'[v])
                      /\ worker'[v] = "serving" => \A s : ~Needed(s)
    BY <1>1, <1>3 DEF PlansCoverNeed
  <2>1. CASE v = w
    <3>1. plan[w] = {} => \A s : s \notin Todo(plan[w])
      BY DEF Todo
    <3> QED
      BY <2>1, <3>1, <1>6 DEF PlansCoverNeed
  <2>2. CASE v # w
    BY <2>2, <1>4, <1>5 DEF PlansCoverNeed
  <2> QED
    BY <2>1, <2>2
<1>9. Alone' /\ KeysHaveTables'
  BY <1>1, <1>2, <1>4 DEF Alone, KeysHaveTables
<1> QED
  BY <1>4, <1>5, <1>7, <1>8, <1>9

(* With every worker off nothing is promised. *)
LEMMA NoneRuns ==
    ASSUME DOMAIN worker' = Worker, \A w \in Worker : worker'[w] \in {"off", "lifespan"}
    PROVE  PlansTowardModels' /\ PlansCoverNeed'
<1>1. \A w \in Worker : worker'[w] # "sync" /\ worker'[w] # "serving"
  OBVIOUS
<1> QED
  BY <1>1 DEF PlansTowardModels, PlansCoverNeed

(* The container: migrations run while no worker does. *)
LEMMA ContainerKeeps ==
    ASSUME SyncInv,
           \/ \E cmd \in {"upgrade", "downgrade"} : ByHand(cmd)
           \/ ByHandDone \/ Migrate \/ Abort \/ StartMigrating
           \/ \E m \in {"sync", "skip"} : \E ws \in SUBSET Worker : StartWithout(m, ws)
           \/ ExecUvicorn \/ Down
    PROVE  SyncInv'
<1> USE DEF SyncInv
<1>1. ASSUME NEW cmd \in {"upgrade", "downgrade"}, ByHand(cmd) PROVE SyncInv'
  <2>1. UNCHANGED <<tables, keys, mode, container, worker, plan>> /\ container = "down"
    BY <1>1 DEF ByHand, Command, schema, servers
  <2>2. PlansTowardModels' /\ PlansCoverNeed'
    BY <2>1, NoneRuns DEF Alone
  <2> QED
    BY <2>1, <2>2 DEF Alone, KeysHaveTables
<1>2. CASE ByHandDone
  <2>1. UNCHANGED <<tables, keys, mode, container, worker, plan>> /\ container = "down"
    BY <1>2 DEF ByHandDone, UpgradeDone, schema, servers
  <2>2. PlansTowardModels' /\ PlansCoverNeed'
    BY <2>1, NoneRuns DEF Alone
  <2> QED
    BY <2>1, <2>2 DEF Alone, KeysHaveTables
<1>3. CASE Migrate
  <2>1. UNCHANGED <<mode, container, worker, plan>>
    BY <1>3 DEF Migrate, servers
  <2>2. container # "up"
    BY <1>3 DEF Migrate, Alembic, BeginRevision, Statement, Stamp, NoJob, Alone
  <2>3. KeysHaveTables'
    <3>1. CASE Statement
      BY <3>1, KeysKeepTables DEF Statement
    <3>2. CASE UNCHANGED schema
      BY <3>2 DEF schema, KeysHaveTables
    <3> QED
      BY <1>3, <3>1, <3>2 DEF Migrate, Alembic, BeginRevision, Stamp
  <2>4. PlansTowardModels' /\ PlansCoverNeed'
    BY <2>1, <2>2, NoneRuns DEF Alone
  <2> QED
    BY <2>1, <2>2, <2>3, <2>4 DEF Alone
<1>4. CASE Abort
  <2>1. UNCHANGED <<tables, keys, worker, plan>> /\ container' = "down" /\ job # NoJob
    BY <1>4 DEF Abort, Die, schema
  <2>2. \A w \in Worker : worker[w] = "off"
    BY <2>1 DEF Alone
  <2>3. PlansTowardModels' /\ PlansCoverNeed'
    BY <2>1, <2>2, NoneRuns
  <2> QED
    BY <2>1, <2>2, <2>3 DEF Alone, KeysHaveTables
<1>5. CASE StartMigrating
  <2>1. UNCHANGED <<tables, keys, worker, plan>> /\ container' = "entrypoint" /\ container = "down"
    BY <1>5 DEF StartMigrating, Command, schema
  <2>2. \A w \in Worker : worker[w] = "off"
    BY <2>1 DEF Alone
  <2>3. PlansTowardModels' /\ PlansCoverNeed'
    BY <2>1, <2>2, NoneRuns
  <2> QED
    BY <2>1, <2>2, <2>3 DEF Alone, KeysHaveTables
<1>6. ASSUME NEW m \in {"sync", "skip"}, NEW ws \in SUBSET Worker, StartWithout(m, ws)
      PROVE  SyncInv'
  <2>1. UNCHANGED <<tables, keys, job, plan>> /\ container' = "up" /\ job = NoJob
    BY <1>6 DEF StartWithout, migrations, schema
  <2>2. DOMAIN worker' = Worker /\ \A w \in Worker : worker'[w] \in {"off", "lifespan"}
    BY <1>6 DEF StartWithout, Workers
  <2> QED
    BY <2>1, <2>2, NoneRuns DEF Alone, KeysHaveTables
<1>7. CASE ExecUvicorn
  <2>1. UNCHANGED <<tables, keys, plan>> /\ container' = "up" /\ job' = NoJob
    BY <1>7 DEF ExecUvicorn, UpgradeDone, schema
  <2>2. DOMAIN worker' = Worker /\ \A w \in Worker : worker'[w] \in {"off", "lifespan"}
    BY <1>7 DEF ExecUvicorn, Workers
  <2> QED
    BY <2>1, <2>2, NoneRuns DEF Alone, KeysHaveTables
<1>8. CASE Down
  <2>1. UNCHANGED <<tables, keys, job>> /\ container' = "down" /\ DOMAIN plan' = Worker
    BY <1>8 DEF Down, schema
  <2>2. DOMAIN worker' = Worker /\ \A w \in Worker : worker'[w] = "off"
    BY <1>8 DEF Down, Workers
  <2> QED
    BY <2>1, <2>2, NoneRuns DEF Alone, KeysHaveTables
<1> QED
  BY <1>1, <1>2, <1>3, <1>4, <1>5, <1>6, <1>7, <1>8

(* When nothing is needed, the schema is the models'. *)
LEMMA NothingNeeded ==
    ASSUME KeysHaveTables, \A s : ~Needed(s)
    PROVE  IgnoringAuto(tables) = IgnoringAuto(ModelTables) /\ keys = ModelKeys
<1>1. Lacking = {} /\ Foreign = {} /\ LackingKeys = {} /\ StaleKeys = {}
  BY DEF Needed
<1>2. DOMAIN tables = DOMAIN ModelTables
  BY <1>1 DEF Lacking, Foreign
<1>3. \A t \in Both : LackingColumns(t) = {} /\ Differing(t) = {} /\ ForeignColumns(t) = {}
  BY DEF Needed
<1>4. \A t \in DOMAIN ModelTables :
         /\ DOMAIN tables[t] = DOMAIN ModelTables[t]
         /\ \A c \in DOMAIN ModelTables[t] : tables[t][c] \ {"auto"} = ModelTables[t][c] \ {"auto"}
  BY <1>2, <1>3 DEF Both, LackingColumns, Differing, ForeignColumns
<1>5. \A t \in DOMAIN ModelTables :
         [c \in DOMAIN tables[t] |-> tables[t][c] \ {"auto"}]
         = [c \in DOMAIN ModelTables[t] |-> ModelTables[t][c] \ {"auto"}]
  BY <1>4
<1>6. IgnoringAuto(tables) = IgnoringAuto(ModelTables)
  BY <1>2, <1>5 DEF IgnoringAuto
<1>7. keys = ModelKeys
  BY <1>1, <1>2, ModelKeyShape DEF LackingKeys, StaleKeys, KeysHaveTables, Both
<1> QED
  BY <1>6, <1>7

(* The inductive invariant *)
LEMMA SyncInvInit == SiteInit => SyncInv
  BY DEF SiteInit, InitSchema, InitServer, SyncInv, KeysHaveTables, Alone, PlansTowardModels,
         PlansCoverNeed

LEMMA SyncInvStep == SyncInv /\ [SiteNext]_siteVars => SyncInv'
<1> SUFFICES ASSUME SyncInv, [SiteNext]_siteVars PROVE SyncInv'
  OBVIOUS
<1>1. CASE \E w \in Worker : ServerMove(w)
  BY <1>1, LifespanKeeps, SyncStepKeeps, WorkerMovesOn DEF ServerMove
<1>2. CASE UNCHANGED schemaVars
  <2>1. UNCHANGED <<tables, keys, job, mode, container, worker, plan>>
    BY <1>2 DEF schemaVars, migrations, schema, servers
  <2>2. KeysHaveTables' /\ Alone' /\ DOMAIN worker' = Worker /\ DOMAIN plan' = Worker
    BY <2>1 DEF SyncInv, KeysHaveTables, Alone
  <2>3. PlansTowardModels'
    BY <2>1 DEF SyncInv, PlansTowardModels, Toward, Todo
  <2>4. \A s : Needed(s)' <=> Needed(s)
    BY <2>1 DEF Needed, Lacking, Foreign, Both, LackingColumns, ForeignColumns, Differing,
                LackingKeys, StaleKeys
  <2>5. PlansCoverNeed'
    BY <2>1, <2>4, CoverKept DEF SyncInv
  <2> QED
    BY <2>2, <2>3, <2>5 DEF SyncInv
<1> QED
  BY <1>1, <1>2, SiteMoves, ContainerKeeps DEF SchemaMove

(* A worker that synchronised serves the models' schema, for any number of   *)
(* workers and whatever their plans, made from older states, still do.      *)
THEOREM ServedSchema == SiteSpec => []ServedSchemaIsModels
<1>1. SyncInv => ServedSchemaIsModels
  BY NothingNeeded DEF SyncInv, PlansCoverNeed, ServedSchemaIsModels
<1> QED
  BY <1>1, SyncInvInit, SyncInvStep, PTL DEF SiteSpec

-----------------------------------------------------------------------------
(***************************************************************************)
(* The schema under migrations.                                             *)
(*                                                                         *)
(* Apart from menus, which nothing else touches, the revisions follow each  *)
(* other, and every downgrade takes its upgrade back statement by statement *)
(* -- but for the key view_count drops, and for the definitions that a      *)
(* downgrade leaves to the first names of some columns.  So as long as no   *)
(* command was killed and nothing synchronised, the schema is told by a     *)
(* place on a line of 48 statements and one on menus' line of three.        *)
(***************************************************************************)
MainLine == Revision \ {"menus"}

(* How many statements of the line are before a revision's *)
LineStart ==
    [initial |-> 0, view_count |-> 8, user_id |-> 13, likes |-> 14, images |-> 28, merge |-> 32,
     active |-> 32, auto_increment |-> 33, image_paths |-> 36, notice |-> 45]

LineEnd(r) == LineStart[r] + Len(Upgrade[r])

From(n, i, x) == IF n >= i THEN {x} ELSE {}
Until(n, i, x) == IF n < i THEN {x} ELSE {}
Named(n, i, old, new) == IF n < i THEN old ELSE new

LineTables(n) ==
    From(n, 1, "users") \union From(n, 2, "posts") \union From(n, 5, "comments")
    \union From(n, 15, "posts_like") \union From(n, 29, "posts_image")

ColumnsAt(n, t) ==
    CASE t = "users" ->
            {Named(n, 14, "id", "user_id"), Named(n, 24, "email", "user_email"),
             Named(n, 25, "password_hash", "user_password_hash"),
             Named(n, 26, "nickname", "user_nickname"), Named(n, 27, "role", "user_role"),
             Named(n, 33, "is_active", "user_is_active"), "created_at", "updated_at"}
      [] t = "posts" ->
            {Named(n, 10, "id", "post_id"), Named(n, 11, "title", "post_title"),
             Named(n, 12, "content", "post_content"), "author_id",
             "created_at", "updated_at", "deleted_at"}
            \union From(n, 13, "post_view_count")
            \union From(n, 46, "post_status") \union From(n, 47, "post_is_notice")
      [] t = "comments" ->
            {Named(n, 18, "id", "comment_id"), Named(n, 19, "content", "comment_content"),
             "post_id", "author_id", "created_at", "updated_at", "deleted_at"}
            \union From(n, 37, "parent_comment_id")
      [] t = "posts_like" -> {"like_id", "post_id", "user_id", "created_at", "updated_at"}
      [] t = "posts_image" ->
            {"image_id", "post_id", "created_at", "updated_at"}
            \union From(n, 41, "image_original_path") \union From(n, 42, "image_content_path")
            \union From(n, 43, "image_thumbnail_path") \union Until(n, 44, "image_path")

(* The names of columns that a downgrade gives another definition than the  *)
(* first revision did                                                       *)
FirstNames == {"id", "email", "nickname", "is_active"}

(* What the others keep *)
AttributesAt(n, t, c) ==
    CASE c \in {"created_at", "updated_at"} -> {"default", "comment"}
      [] c = "deleted_at" -> {"comment"}
      [] t = "users" /\ c = "user_id" -> {"auto"}
      [] c = "user_email" -> From(n, 31, "comment")
      [] c = "user_nickname" -> From(n, 32, "comment")
      [] c \in {"role", "user_role", "post_status", "post_is_notice"} -> {"default"}
      [] c = "user_is_active" -> From(n, 45, "default") \union From(n, 45, "comment")
      [] t = "posts" /\ c = "post_id" -> From(n, 35, "auto")
      [] c = "post_view_count" -> Until(n, 21, "default")
      [] c \in {"comment_id", "like_id", "image_id"} -> {"auto"}
      [] OTHER -> {}

LineKeys(n) ==
    (IF n < 23 THEN From(n, 1, <<"uq", "users", "email">>) ELSE {})
    \union (IF n < 22 THEN From(n, 2, PostAuthorFk) ELSE {})
    \union From(n, 3, <<"ix", "posts", "author_id">>)
    \union From(n, 4, <<"ix", "posts", "deleted_at">>)
    \union (IF n < 40 THEN From(n, 5, CommentAuthorFk) ELSE {})
    \union (IF n < 9 THEN From(n, 5, CommentsFk) ELSE {})
    \union From(n, 6, <<"ix", "comments", "author_id">>)
    \union From(n, 7, <<"ix", "comments", "deleted_at">>)
    \union From(n, 8, <<"ix", "comments", "post_id">>)
    \union From(n, 15, <<"uq", "posts_like", "post_id_user_id">>)
    \union From(n, 16, <<"ix", "posts_like", "post_id">>)
    \union From(n, 17, <<"ix", "posts_like", "user_id">>)
    \union (IF n < 34 THEN From(n, 20, CommentsFk) ELSE {})
    \union From(n, 28, <<"uq", "users", "user_email">>)
    \union From(n, 30, <<"ix", "posts_image", "post_id">>)
    \union (IF n < 39 THEN From(n, 36, CommentsFk) ELSE {})
    \union From(n, 38, <<"ix", "comments", "parent_comment_id">>)
    \union From(n, 48, <<"ix", "posts", "post_status">>)

MenuTables(m) == From(m, 1, "menus")

MenuKeys(m) ==
    From(m, 1, <<"uq", "menus", "parent_name">>)
    \union From(m, 2, <<"ix", "menus", "deleted_at">>)
    \union From(m, 3, <<"ix", "menus", "menu_parent_id">>)

IsFunction(f) == f = [x \in DOMAIN f |-> f[x]]

TableFits(n, t) ==
    /\ IsFunction(tables[t]) /\ DOMAIN tables[t] = ColumnsAt(n, t)
    /\ \A c \in ColumnsAt(n, t) \ FirstNames : tables[t][c] = AttributesAt(n, t, c)

Fits(n, m) ==
    /\ IsFunction(tables) /\ DOMAIN tables = LineTables(n) \union MenuTables(m)
    /\ \A t \in LineTables(n) : TableFits(n, t)
    /\ m >= 1 => tables["menus"] = MenuTable
    /\ keys = LineKeys(n) \union MenuKeys(m)

(* Where the line is when a set of revisions is applied *)
Climbed(S) ==
    IF "notice" \in S THEN 48 ELSE IF "image_paths" \in S THEN 45
    ELSE IF "auto_increment" \in S THEN 36 ELSE IF "active" \in S THEN 33
    ELSE IF "images" \in S THEN 32 ELSE IF "likes" \in S THEN 28
    ELSE IF "user_id" \in S THEN 14 ELSE IF "view_count" \in S THEN 13
    ELSE IF "initial" \in S THEN 8 ELSE 0

(* ... but for a view_count taken back, which leaves its first statement    *)
Height == IF takenBack THEN 9 ELSE Climbed(applied)

Reached(low, high) == IF job.cmd = "upgrade" THEN low + job.at ELSE high - job.at

LinePlace ==
    IF job.rev \in MainLine /\ ~takenBack THEN Reached(LineStart[job.rev], LineEnd(job.rev))
    ELSE Height

MenuHeight == IF "menus" \in applied THEN 3 ELSE 0

MenuPlace == IF job.rev = "menus" THEN Reached(0, 3) ELSE MenuHeight

(* Revisions are applied after their parents and taken back before them. *)
HistoryFits ==
    /\ applied \subseteq Revision
    /\ \A r \in applied : Parents[r] \subseteq applied
    /\ takenBack => "initial" \in applied /\ "view_count" \notin applied

Upgrading(r) ==
    /\ r \notin applied /\ Parents[r] \subseteq applied
    /\ job.at \in 0..Len(Upgrade[r])
    /\ takenBack /\ r \in MainLine => job.at = 0

Downgrading(r) ==
    /\ r \in applied /\ Children(r) \intersect applied = {}
    /\ job.at \in 0..Len(Downgrade[r])

JobFits ==
    /\ job.cmd = "upgrade" /\ job.rev # "none" => Upgrading(job.rev)
    /\ job.cmd = "downgrade" /\ job.rev # "none" => Downgrading(job.rev)

(* The first revision's downgrade gets stuck at its third statement, if not  *)
(* at its first: the foreign key of the authors is still there.             *)
TakingAllBack == job.rev = "initial" /\ job.cmd = "downgrade" /\ job.at > 0

StuckAtAuthors == job.at <= 2 /\ CommentAuthorFk \in keys /\ takenBack

SchemaFits == \E n \in {LinePlace} : \E m \in {MenuPlace} : Fits(n, m)

JobOK ==
    /\ job \in [cmd : {"none", "upgrade", "downgrade"}, rev : Revision \union {"none"}, at : Nat]
    /\ job.rev = "none" => job.at = 0
    /\ job.rev # "none" => job.cmd # "none"

InStep == HistoryFits /\ JobFits /\ (IF TakingAllBack THEN StuckAtAuthors ELSE SchemaFits)

MigrationInv == JobOK /\ (~dirty /\ ~synced => InStep)

-----------------------------------------------------------------------------
(* Places that differ by one statement *)
SameTable(n, p, t) ==
    /\ ColumnsAt(p, t) = ColumnsAt(n, t)
    /\ \A c \in ColumnsAt(n, t) \ FirstNames : AttributesAt(p, t, c) = AttributesAt(n, t, c)

(* ... by a key *)
KeyGained(n, p, k) ==
    /\ LineTables(p) = LineTables(n)
    /\ \A t \in LineTables(n) : SameTable(n, p, t)
    /\ k \notin LineKeys(n) /\ LineKeys(p) = LineKeys(n) \union {k}
    /\ k[2] \in LineTables(n)

(* ... by a column *)
ColumnGained(n, p, t, c, a) ==
    /\ t \in LineTables(n) /\ LineTables(p) = LineTables(n) /\ LineKeys(p) = LineKeys(n)
    /\ \A u \in LineTables(n) \ {t} : SameTable(n, p, u)
    /\ c \notin ColumnsAt(n, t) /\ ColumnsAt(p, t) = ColumnsAt(n, t) \union {c}
    /\ \A x \in ColumnsAt(n, t) \ FirstNames : AttributesAt(p, t, x) = AttributesAt(n, t, x)
    /\ c \notin FirstNames => AttributesAt(p, t, c) = a
    /\ <<"ix", t, c>> \notin LineKeys(n) /\ <<"fk", t, c>> \notin LineKeys(n)

(* ... by a column's name, definition or both *)
ColumnTurned(n, p, t, c, d, a, b) ==
    /\ t \in LineTables(n) /\ LineTables(p) = LineTables(n) /\ LineKeys(p) = LineKeys(n)
    /\ \A u \in LineTables(n) \ {t} : SameTable(n, p, u)
    /\ c \in ColumnsAt(n, t) /\ (c = d \/ d \notin ColumnsAt(n, t))
    /\ ColumnsAt(p, t) = (ColumnsAt(n, t) \ {c}) \union {d}
    /\ \A x \in ColumnsAt(n, t) \ (FirstNames \union {c}) :
          AttributesAt(p, t, x) = AttributesAt(n, t, x)
    /\ d \notin FirstNames => AttributesAt(p, t, d) = a
    /\ c \notin FirstNames => AttributesAt(n, t, c) = b

(* ... by a table with its keys *)
TableGained(n, p, t, columns, ks) ==
    /\ t \notin LineTables(n) /\ LineTables(p) = LineTables(n) \union {t} /\ t # "menus"
    /\ \A u \in LineTables(n) : SameTable(n, p, u)
    /\ IsFunction(columns) /\ DOMAIN columns = ColumnsAt(p, t)
    /\ \A c \in ColumnsAt(p, t) \ FirstNames : columns[c] = AttributesAt(p, t, c)
    /\ LineKeys(p) = LineKeys(n) \union {<<k[1], t, k[2]>> : k \in ks}
    /\ \A k \in LineKeys(n) : k[2] # t

(* A statement is carried out at one place and leads to the other. *)
Leads(s, n, p, m) == Fits(n, m) => Applies(s) /\ (Execute(s) => Fits(p, m)')

LEMMA MenusApart ==
    ASSUME NEW n, NEW m
    PROVE  /\ "menus" \notin LineTables(n) /\ MenuTables(m) \subseteq {"menus"}
           /\ m >= 1 => "menus" \in MenuTables(m)
           /\ \A k \in MenuKeys(m) : k[2] = "menus" /\ k[1] # "fk"
  BY DEF LineTables, MenuTables, MenuKeys, From

LEMMA SameTableFits ==
    ASSUME NEW n, NEW p, NEW t, SameTable(n, p, t), TableFits(n, t), tables'[t] = tables[t]
    PROVE  TableFits(p, t)'
  BY DEF SameTable, TableFits

LEMMA KeyLeads ==
    ASSUME NEW n, NEW p, NEW m, NEW k, KeyGained(n, p, k)
    PROVE  /\ Leads(CreateKey(k), n, p, m)
           /\ (k[1] = "ix" => <<"fk", k[2], k[3]>> \notin LineKeys(p)) => Leads(DropKey(k), p,
                                                                                n, m)
<1>1. k[2] \in LineTables(n) /\ k \notin MenuKeys(m)
  BY MenusApart DEF KeyGained
<1>2. ASSUME Fits(n, m) PROVE Applies(CreateKey(k))
  BY <1>1, <1>2 DEF Applies, CreateKey, Fits, KeyGained
<1>3. ASSUME Fits(n, m), Execute(CreateKey(k)) PROVE Fits(p, m)'
  <2>1. tables' = tables /\ keys' = keys \union {k}
    BY <1>3, CreateKeyDoes
  <2>2. keys' = LineKeys(p) \union MenuKeys(m)
    BY <1>3, <2>1 DEF Fits, KeyGained
  <2>3. \A t \in LineTables(p) : TableFits(p, t)'
    BY <1>3, <2>1, SameTableFits DEF Fits, KeyGained
  <2> QED
    BY <1>3, <2>1, <2>2, <2>3 DEF Fits, KeyGained
<1>4. ASSUME Fits(p, m), k[1] = "ix" => <<"fk", k[2], k[3]>> \notin LineKeys(p)
      PROVE  Applies(DropKey(k))
  <2>1. k \in keys /\ (k[1] = "ix" => <<"fk", k[2], k[3]>> \notin keys)
    BY <1>4, MenusApart DEF Fits, KeyGained
  <2> QED
    BY <2>1 DEF Applies, DropKey, Constrained
<1>5. ASSUME Fits(p, m), Execute(DropKey(k)) PROVE Fits(n, m)'
  <2>1. tables' = tables /\ keys' = keys \ {k}
    BY <1>5, DropKeyDoes
  <2>2. keys' = LineKeys(n) \union MenuKeys(m)
    BY <1>1, <1>5, <2>1 DEF Fits, KeyGained
  <2>3. \A t \in LineTables(n) : SameTable(p, n, t)
    BY DEF KeyGained, SameTable
  <2>4. \A t \in LineTables(n) : TableFits(n, t)'
    BY <1>5, <2>1, <2>3, SameTableFits DEF Fits, KeyGained
  <2> QED
    BY <1>5, <2>1, <2>2, <2>4 DEF Fits, KeyGained
<1> QED
  BY <1>2, <1>3, <1>4, <1>5 DEF Leads

(* A table is changed: what has to be shown of it, and what of the others.   *)
LEMMA OneTableTurned ==
    ASSUME NEW n, NEW p, NEW m, NEW t, NEW columns, Fits(n, m), t \in LineTables(n),
           LineTables(p) = LineTables(n), LineKeys(p) = LineKeys(n),
           \A u \in LineTables(n) \ {t} : SameTable(n, p, u),
           tables' = [tables EXCEPT ![t] = columns], keys' = keys,
           IsFunction(columns), DOMAIN columns = ColumnsAt(p, t),
           \A c \in ColumnsAt(p, t) \ FirstNames : columns[c] = AttributesAt(p, t, c)
    PROVE  Fits(p, m)'
<1>1. t # "menus" /\ t \in DOMAIN tables
  BY MenusApart DEF Fits
<1>2. /\ DOMAIN tables' = DOMAIN tables /\ tables'[t] = columns
      /\ \A u \in DOMAIN tables \ {t} : tables'[u] = tables[u]
  BY <1>1
<1>3. IsFunction(tables)' /\ TableFits(p, t)'
  BY <1>2 DEF TableFits, IsFunction
<1>4. \A u \in LineTables(n) \ {t} : TableFits(p, u)'
  BY <1>2, SameTableFits DEF Fits
<1>5. m >= 1 => tables'["menus"] = MenuTable
  BY <1>1, <1>2, MenusApart DEF Fits
<1> QED
  BY <1>2, <1>3, <1>4, <1>5 DEF Fits

LEMMA ColumnLeads ==
    ASSUME NEW n, NEW p, NEW m, NEW t, NEW c, NEW a, ColumnGained(n, p, t, c, a), "auto" \notin a
    PROVE  Leads(AddColumn(t, c, a), n, p, m) /\ Leads(DropColumn(t, c), p, n, m)
<1> USE DEF ColumnGained
<1>1. ASSUME Fits(n, m) PROVE Applies(AddColumn(t, c, a))
  <2>1. t \in DOMAIN tables /\ c \notin DOMAIN tables[t]
    BY <1>1 DEF Fits, TableFits
  <2> QED
    BY <2>1 DEF Applies, AddColumn, There
<1>2. ASSUME Fits(n, m), Execute(AddColumn(t, c, a)) PROVE Fits(p, m)'
  <2>1. tables' = [tables EXCEPT ![t] = With(tables[t], c, a)] /\ keys' = keys
    BY <1>2, AddColumnDoes
  <2>2. TableFits(n, t)
    BY <1>2 DEF Fits
  <2>3. IsFunction(With(tables[t], c, a)) /\ DOMAIN With(tables[t], c, a) = ColumnsAt(p, t)
    BY <2>2 DEF With, TableFits, IsFunction
  <2>4. \A x \in ColumnsAt(p, t) \ FirstNames : With(tables[t], c, a)[x] = AttributesAt(p, t, x)
    BY <2>2 DEF With, TableFits
  <2> QED
    BY <1>2, <2>1, <2>3, <2>4, OneTableTurned
<1>3. ASSUME Fits(p, m) PROVE Applies(DropColumn(t, c)) /\ <<"ix", t, c>> \notin keys
  <2>1. t \in DOMAIN tables /\ c \in DOMAIN tables[t]
    BY <1>3 DEF Fits, TableFits
  <2>2. <<"fk", t, c>> \notin keys /\ <<"ix", t, c>> \notin keys
    BY <1>3, MenusApart DEF Fits
  <2> QED
    BY <2>1, <2>2 DEF Applies, DropColumn, There, Constrained
<1>4. ASSUME Fits(p, m), Execute(DropColumn(t, c)) PROVE Fits(n, m)'
  <2>1. tables' = [tables EXCEPT ![t] = Without(tables[t], c)] /\ keys' = keys
    BY <1>3, <1>4, DropColumnDoes
  <2>2. TableFits(p, t)
    BY <1>4 DEF Fits
  <2>3. IsFunction(Without(tables[t], c)) /\ DOMAIN Without(tables[t], c) = ColumnsAt(n, t)
    BY <2>2 DEF Without, TableFits, IsFunction
  <2>4. \A x \in ColumnsAt(n, t) \ FirstNames : Without(tables[t], c)[x] = AttributesAt(n, t, x)
    BY <2>2 DEF Without, TableFits
  <2>5. \A u \in LineTables(p) \ {t} : SameTable(p, n, u)
    BY DEF SameTable
  <2> QED
    BY <1>4, <2>1, <2>3, <2>4, <2>5, OneTableTurned
<1> QED
  BY <1>1, <1>2, <1>3, <1>4 DEF Leads

LEMMA RenameDoes ==
    ASSUME NEW t, NEW c, NEW d, NEW a, Execute(Rename(t, c, d, a))
    PROVE  /\ tables' = [tables EXCEPT ![t] = With(Without(tables[t], c), d, a)]
           /\ keys' = keys
  BY DEF Execute, Applies, Rename, ColumnsAfter, There

LEMMA RenameLeads ==
    ASSUME NEW n, NEW p, NEW m, NEW t, NEW c, NEW d, NEW a,
           t \in LineTables(n), LineTables(p) = LineTables(n), LineKeys(p) = LineKeys(n),
           \A u \in LineTables(n) \ {t} : SameTable(n, p, u),
           c \in ColumnsAt(n, t), c = d \/ d \notin ColumnsAt(n, t),
           ColumnsAt(p, t) = (ColumnsAt(n, t) \ {c}) \union {d},
           \A x \in ColumnsAt(n, t) \ (FirstNames \union {c}) :
              AttributesAt(p, t, x) = AttributesAt(n, t, x),
           d \notin FirstNames => AttributesAt(p, t, d) = a
    PROVE  Leads(Rename(t, c, d, a), n, p, m)
<1>1. ASSUME Fits(n, m) PROVE Applies(Rename(t, c, d, a))
  <2>1. t \in DOMAIN tables /\ c \in DOMAIN tables[t] /\ (c = d \/ d \notin DOMAIN tables[t])
    BY <1>1 DEF Fits, TableFits
  <2> QED
    BY <2>1 DEF Applies, Rename, There
<1>2. ASSUME Fits(n, m), Execute(Rename(t, c, d, a)) PROVE Fits(p, m)'
  <2>1. tables' = [tables EXCEPT ![t] = With(Without(tables[t], c), d, a)] /\ keys' = keys
    BY <1>2, RenameDoes
  <2>2. TableFits(n, t)
    BY <1>2 DEF Fits
  <2> DEFINE new == With(Without(tables[t], c), d, a)
  <2>3. IsFunction(new) /\ DOMAIN new = ColumnsAt(p, t)
    BY <2>2 DEF With, Without, TableFits, IsFunction
  <2>4. new[d] = a /\ \A x \in ColumnsAt(n, t) \ {c, d} : new[x] = tables[t][x]
    BY <2>2 DEF With, Without, TableFits
  <2>5. \A x \in ColumnsAt(p, t) \ FirstNames : new[x] = AttributesAt(p, t, x)
    BY <2>2, <2>4 DEF TableFits
  <2> HIDE DEF new
  <2> QED
    BY <1>2, <2>1, <2>3, <2>5, OneTableTurned DEF new
<1> QED
  BY <1>1, <1>2 DEF Leads

LEMMA TurnLeads ==
    ASSUME NEW n, NEW p, NEW m, NEW t, NEW c, NEW d, NEW a, NEW b,
           ColumnTurned(n, p, t, c, d, a, b)
    PROVE  Leads(Rename(t, c, d, a), n, p, m) /\ Leads(Rename(t, d, c, b), p, n, m)
<1> USE DEF ColumnTurned
<1>1. Leads(Rename(t, c, d, a), n, p, m)
  BY RenameLeads
<1>2. \A u \in LineTables(p) \ {t} : SameTable(p, n, u)
  BY DEF SameTable
<1>3. /\ d \in ColumnsAt(p, t) /\ (c = d \/ c \notin ColumnsAt(p, t))
      /\ ColumnsAt(n, t) = (ColumnsAt(p, t) \ {d}) \union {c}
  OBVIOUS
<1>4. \A x \in ColumnsAt(p, t) \ (FirstNames \union {d}) :
         AttributesAt(n, t, x) = AttributesAt(p, t, x)
  OBVIOUS
<1>5. Leads(Rename(t, d, c, b), p, n, m)
  BY <1>2, <1>3, <1>4, RenameLeads
<1> QED
  BY <1>1, <1>5

LEMMA TableLeads ==
    ASSUME NEW n, NEW p, NEW m, NEW t, NEW columns, NEW ks, TableGained(n, p, t, columns, ks)
    PROVE  Leads(CreateTable(t, columns, ks), n, p, m) /\ Leads(DropTable(t), p, n, m)
<1> USE DEF TableGained
<1>1. ASSUME Fits(n, m) PROVE Applies(CreateTable(t, columns, ks))
  <2>1. t \notin DOMAIN tables
    BY <1>1, MenusApart DEF Fits
  <2> QED
    BY <2>1 DEF Applies, CreateTable
<1>2. ASSUME Fits(n, m), Execute(CreateTable(t, columns, ks)) PROVE Fits(p, m)'
  <2>1. /\ t \notin DOMAIN tables /\ tables' = With(tables, t, columns)
        /\ keys' = keys \union {<<k[1], t, k[2]>> : k \in ks}
    BY <1>2, CreateTableDoes
  <2>2. /\ IsFunction(tables)'
        /\ DOMAIN tables' = DOMAIN tables \union {t} /\ tables'[t] = columns
        /\ \A u \in DOMAIN tables : tables'[u] = tables[u]
    BY <2>1 DEF With, IsFunction
  <2>3. \A u \in LineTables(n) : TableFits(p, u)'
    BY <1>2, <2>2, SameTableFits DEF Fits
  <2>4. TableFits(p, t)'
    BY <2>2 DEF TableFits
  <2>5. m >= 1 => tables'["menus"] = MenuTable
    BY <1>2, <2>2, MenusApart DEF Fits
  <2>6. keys' = LineKeys(p) \union MenuKeys(m)
    BY <1>2, <2>1 DEF Fits
  <2>7. DOMAIN tables' = LineTables(p) \union MenuTables(m)
    BY <1>2, <2>2 DEF Fits
  <2> QED
    BY <2>2, <2>3, <2>4, <2>5, <2>6, <2>7 DEF Fits
<1>3. ASSUME Fits(p, m) PROVE Applies(DropTable(t))
  <2>1. t \in DOMAIN tables
    BY <1>3 DEF Fits
  <2> QED
    BY <2>1 DEF Applies, DropTable
<1>4. ASSUME Fits(p, m), Execute(DropTable(t)) PROVE Fits(n, m)'
  <2>1. tables' = Without(tables, t) /\ keys' = {k \in keys : k[2] # t}
    BY <1>4, DropTableDoes
  <2>2. /\ IsFunction(tables)' /\ DOMAIN tables' = DOMAIN tables \ {t}
        /\ \A u \in DOMAIN tables \ {t} : tables'[u] = tables[u]
    BY <2>1 DEF Without, IsFunction
  <2>3. \A u \in LineTables(n) : TableFits(n, u)'
    <3>1. \A u \in LineTables(n) : SameTable(p, n, u)
      BY DEF SameTable
    <3> QED
      BY <1>4, <2>2, <3>1, SameTableFits DEF Fits
  <2>4. m >= 1 => tables'["menus"] = MenuTable
    BY <1>4, <2>2, MenusApart DEF Fits
  <2>5. keys' = LineKeys(n) \union MenuKeys(m)
    <3>1. \A k \in MenuKeys(m) : k[2] # t
      BY MenusApart
    <3>2. \A k \in {<<x[1], t, x[2]>> : x \in ks} : k[2] = t
      OBVIOUS
    <3> QED
      BY <1>4, <2>1, <3>1, <3>2 DEF Fits
  <2>6. DOMAIN tables' = LineTables(n) \union MenuTables(m)
    BY <1>4, <2>2, MenusApart DEF Fits
  <2> QED
    BY <2>2, <2>3, <2>4, <2>5, <2>6 DEF Fits
<1> QED
  BY <1>1, <1>2, <1>3, <1>4 DEF Leads

(* A revision climbs the line by its upgrade, and falls by its downgrade.    *)
Climbs(r, m) ==
    \A i \in 0..(Len(Upgrade[r]) - 1) :
        Leads(Upgrade[r][i + 1], LineStart[r] + i, LineStart[r] + i + 1, m)

Falls(r, m) ==
    \A i \in 0..(Len(Downgrade[r]) - 1) :
        Leads(Downgrade[r][i + 1], LineEnd(r) - i, LineEnd(r) - i - 1, m)

(* Tables as the revisions create them *)
FirstUsers == Timed(
    [id |-> {"auto"}, email |-> {"comment"}, password_hash |-> {}, nickname |-> {"comment"},
     role |-> {"default"}, is_active |-> {"default", "comment"}])

FirstPosts == Kept([id |-> {"auto"}, title |-> {}, content |-> {}, author_id |-> {}])

FirstImages == Timed([image_id |-> {"auto"}, post_id |-> {}, image_path |-> {}])

FirstComments == Kept([id |-> {"auto"}, content |-> {}, post_id |-> {}, author_id |-> {}])

LEMMA IndexLeads ==
    ASSUME NEW n, NEW p, NEW m, NEW t, NEW c, KeyGained(n, p, <<"ix", t, c>>),
           <<"fk", t, c>> \notin LineKeys(p)
    PROVE  Leads(CreateIndex(t, c), n, p, m) /\ Leads(DropIndex(t, c), p, n, m)
  BY KeyLeads DEF CreateIndex, DropIndex

LEMMA InitialLeads ==
    ASSUME NEW m
    PROVE  Climbs("initial", m)
<1> USE DEF LineTables, ColumnsAt, AttributesAt, LineKeys, SameTable, From, Until, Named,
        FirstNames, CommentsFk, CommentAuthorFk, PostAuthorFk
<1>1. Leads(CreateTable("users", FirstUsers, {<<"uq", "email">>}), 0, 1, m)
  <2>1. TableGained(0, 1, "users", FirstUsers, {<<"uq", "email">>})
    BY DEF TableGained, IsFunction, Timed, Mixed, TimestampMixin, FirstUsers
  <2> QED
    BY <2>1, TableLeads
<1>2. Leads(CreateTable("posts", FirstPosts, {<<"fk", "author_id">>}), 1, 2, m)
  <2>1. /\ IsFunction(FirstPosts) /\ DOMAIN FirstPosts = ColumnsAt(2, "posts")
        /\ \A c \in ColumnsAt(2, "posts") \ FirstNames :
              FirstPosts[c] = AttributesAt(2, "posts", c)
    BY DEF FirstPosts, IsFunction, Kept, Timed, Mixed, TimestampMixin, SoftDeleteMixin
  <2>2. LineKeys(2) = LineKeys(1) \union {<<k[1], "posts", k[2]>> : k \in {<<"fk", "author_id">>}}
    OBVIOUS
  <2>3. TableGained(1, 2, "posts", FirstPosts, {<<"fk", "author_id">>})
    BY <2>1, <2>2 DEF TableGained
  <2> QED
    BY <2>3, TableLeads
<1>3. Leads(CreateIndex("posts", "author_id"), 2, 3, m)
  <2>1. KeyGained(2, 3, <<"ix", "posts", "author_id">>)
    BY DEF KeyGained
  <2> QED
    BY <2>1, KeyLeads DEF CreateIndex
<1>4. Leads(CreateIndex("posts", "deleted_at"), 3, 4, m)
  <2>1. KeyGained(3, 4, <<"ix", "posts", "deleted_at">>)
    BY DEF KeyGained
  <2> QED
    BY <2>1, KeyLeads DEF CreateIndex
<1>5. Leads(CreateTable("comments", FirstComments, {<<"fk", "author_id">>, <<"fk",
            "post_id">>}), 4, 5, m)
  <2>1. /\ IsFunction(FirstComments) /\ DOMAIN FirstComments = ColumnsAt(5, "comments")
        /\ \A c \in ColumnsAt(5, "comments") \ FirstNames :
              FirstComments[c] = AttributesAt(5, "comments", c)
    BY DEF FirstComments, IsFunction, Kept, Timed, Mixed, TimestampMixin, SoftDeleteMixin
  <2>2. LineKeys(5) = LineKeys(4) \union {<<k[1], "comments", k[2]>> : k \in {<<"fk",
      "author_id">>, <<"fk", "post_id">>}}
    OBVIOUS
  <2>3. TableGained(4, 5, "comments", FirstComments, {<<"fk", "author_id">>, <<"fk", "post_id">>})
    BY <2>1, <2>2 DEF TableGained
  <2> QED
    BY <2>3, TableLeads
<1>6. Leads(CreateIndex("comments", "author_id"), 5, 6, m)
  <2>1. KeyGained(5, 6, <<"ix", "comments", "author_id">>)
    BY DEF KeyGained
  <2> QED
    BY <2>1, KeyLeads DEF CreateIndex
<1>7. Leads(CreateIndex("comments", "deleted_at"), 6, 7, m)
  <2>1. KeyGained(6, 7, <<"ix", "comments", "deleted_at">>)
    BY DEF KeyGained
  <2> QED
    BY <2>1, KeyLeads DEF CreateIndex
<1>8. Leads(CreateIndex("comments", "post_id"), 7, 8, m)
  <2>1. KeyGained(7, 8, <<"ix", "comments", "post_id">>)
    BY DEF KeyGained
  <2> QED
    BY <2>1, KeyLeads DEF CreateIndex
<1> QED
  BY <1>1, <1>2, <1>3, <1>4, <1>5, <1>6, <1>7, <1>8
  DEF Climbs, LineStart, LineEnd, Upgrade, Downgrade, InitialUp, FirstUsers, FirstPosts,
      FirstComments

LEMMA ViewCountLeads ==
    ASSUME NEW m
    PROVE  Climbs("view_count", m) /\ Falls("view_count", m)
<1> USE DEF LineTables, ColumnsAt, AttributesAt, LineKeys, SameTable, From, Until, Named,
        FirstNames, CommentsFk, CommentAuthorFk, PostAuthorFk
<1>1. /\ Leads(DropKey(CommentsFk), 8, 9, m)
      /\ Leads(CreateKey(CommentsFk), 9, 8, m)
  <2>1. KeyGained(9, 8, CommentsFk)
    BY DEF KeyGained
  <2> QED
    BY <2>1, KeyLeads DEF CommentsFk
<1>2. /\ Leads(Rename("posts", "id", "post_id", {}), 9, 10, m)
      /\ Leads(Rename("posts", "post_id", "id", {}), 10, 9, m)
  <2>1. ColumnTurned(9, 10, "posts", "id", "post_id", {}, {})
    BY DEF ColumnTurned
  <2> QED
    BY <2>1, TurnLeads
<1>3. /\ Leads(Rename("posts", "title", "post_title", {}), 10, 11, m)
      /\ Leads(Rename("posts", "post_title", "title", {}), 11, 10, m)
  <2>1. ColumnTurned(10, 11, "posts", "title", "post_title", {}, {})
    BY DEF ColumnTurned
  <2> QED
    BY <2>1, TurnLeads
<1>4. /\ Leads(Rename("posts", "content", "post_content", {}), 11, 12, m)
      /\ Leads(Rename("posts", "post_content", "content", {}), 12, 11, m)
  <2>1. ColumnTurned(11, 12, "posts", "content", "post_content", {}, {})
    BY DEF ColumnTurned
  <2> QED
    BY <2>1, TurnLeads
<1>5. /\ Leads(AddColumn("posts", "post_view_count", {"default"}), 12, 13, m)
      /\ Leads(DropColumn("posts", "post_view_count"), 13, 12, m)
  <2>1. ColumnGained(12, 13, "posts", "post_view_count", {"default"})
    BY DEF ColumnGained
  <2> QED
    BY <2>1, ColumnLeads
<1> QED
  BY <1>1, <1>2, <1>3, <1>4, <1>5
  DEF Climbs, Falls, LineStart, LineEnd, Upgrade, Downgrade, ViewCountUp, ViewCountDown

LEMMA UserIdLeads ==
    ASSUME NEW m
    PROVE  Climbs("user_id", m) /\ Falls("user_id", m)
<1> USE DEF LineTables, ColumnsAt, AttributesAt, LineKeys, SameTable, From, Until, Named,
        FirstNames, CommentsFk, CommentAuthorFk, PostAuthorFk
<1>1. /\ Leads(Rename("users", "id", "user_id", {"auto"}), 13, 14, m)
      /\ Leads(Rename("users", "user_id", "id", {"auto"}), 14, 13, m)
  <2>1. ColumnTurned(13, 14, "users", "id", "user_id", {"auto"}, {"auto"})
    BY DEF ColumnTurned
  <2> QED
    BY <2>1, TurnLeads
<1> QED
  BY <1>1
  DEF Climbs, Falls, LineStart, LineEnd, Upgrade, Downgrade, UserIdUp, UserIdDown

LEMMA LikesLeads ==
    ASSUME NEW m
    PROVE  Climbs("likes", m) /\ Falls("likes", m)
<1> USE DEF LineTables, ColumnsAt, AttributesAt, LineKeys, SameTable, From, Until, Named,
        FirstNames, CommentsFk, CommentAuthorFk, PostAuthorFk
<1>1. /\ Leads(CreateTable("posts_like", PostLikeTable, {<<"uq", "post_id_user_id">>}), 14, 15, m)
      /\ Leads(DropTable("posts_like"), 15, 14, m)
  <2>1. TableGained(14, 15, "posts_like", PostLikeTable, {<<"uq", "post_id_user_id">>})
    BY DEF TableGained, IsFunction, Timed, Mixed, TimestampMixin, PostLikeTable
  <2> QED
    BY <2>1, TableLeads
<1>2. /\ Leads(CreateIndex("posts_like", "post_id"), 15, 16, m)
      /\ Leads(DropIndex("posts_like", "post_id"), 16, 15, m)
  <2>1. /\ KeyGained(15, 16, <<"ix", "posts_like", "post_id">>)
        /\ <<"fk", "posts_like", "post_id">> \notin LineKeys(16)
    BY DEF KeyGained
  <2> QED
    BY <2>1, IndexLeads
<1>3. /\ Leads(CreateIndex("posts_like", "user_id"), 16, 17, m)
      /\ Leads(DropIndex("posts_like", "user_id"), 17, 16, m)
  <2>1. /\ KeyGained(16, 17, <<"ix", "posts_like", "user_id">>)
        /\ <<"fk", "posts_like", "user_id">> \notin LineKeys(17)
    BY DEF KeyGained
  <2> QED
    BY <2>1, IndexLeads
<1>4. /\ Leads(Rename("comments", "id", "comment_id", {"auto"}), 17, 18, m)
      /\ Leads(Rename("comments", "comment_id", "id", {"auto"}), 18, 17, m)
  <2>1. ColumnTurned(17, 18, "comments", "id", "comment_id", {"auto"}, {"auto"})
    BY DEF ColumnTurned
  <2> QED
    BY <2>1, TurnLeads
<1>5. /\ Leads(Rename("comments", "content", "comment_content", {}), 18, 19, m)
      /\ Leads(Rename("comments", "comment_content", "content", {}), 19, 18, m)
  <2>1. ColumnTurned(18, 19, "comments", "content", "comment_content", {}, {})
    BY DEF ColumnTurned
  <2> QED
    BY <2>1, TurnLeads
<1>6. /\ Leads(CreateKey(CommentsFk), 19, 20, m)
      /\ Leads(DropKey(CommentsFk), 20, 19, m)
  <2>1. KeyGained(19, 20, CommentsFk)
    BY DEF KeyGained
  <2> QED
    BY <2>1, KeyLeads DEF CommentsFk
<1>7. /\ Leads(Rename("posts", "post_view_count", "post_view_count", {}), 20, 21, m)
      /\ Leads(Rename("posts", "post_view_count", "post_view_count", {"default"}), 21, 20, m)
  <2>1. ColumnTurned(20, 21, "posts", "post_view_count", "post_view_count", {}, {"default"})
    BY DEF ColumnTurned
  <2> QED
    BY <2>1, TurnLeads
<1>8. /\ Leads(DropKey(PostAuthorFk), 21, 22, m)
      /\ Leads(CreateKey(PostAuthorFk), 22, 21, m)
  <2>1. KeyGained(22, 21, PostAuthorFk)
    BY DEF KeyGained
  <2> QED
    BY <2>1, KeyLeads DEF PostAuthorFk
<1>9. /\ Leads(DropKey(<<"uq", "users", "email">>), 22, 23, m)
      /\ Leads(CreateKey(<<"uq", "users", "email">>), 23, 22, m)
  <2>1. KeyGained(23, 22, <<"uq", "users", "email">>)
    BY DEF KeyGained
  <2> QED
    BY <2>1, KeyLeads
<1>10. /\ Leads(Rename("users", "email", "user_email", {}), 23, 24, m)
      /\ Leads(Rename("users", "user_email", "email", {}), 24, 23, m)
  <2>1. ColumnTurned(23, 24, "users", "email", "user_email", {}, {})
    BY DEF ColumnTurned
  <2> QED
    BY <2>1, TurnLeads
<1>11. /\ Leads(Rename("users", "password_hash", "user_password_hash", {}), 24, 25, m)
      /\ Leads(Rename("users", "user_password_hash", "password_hash", {}), 25, 24, m)
  <2>1. ColumnTurned(24, 25, "users", "password_hash", "user_password_hash", {}, {})
    BY DEF ColumnTurned
  <2> QED
    BY <2>1, TurnLeads
<1>12. /\ Leads(Rename("users", "nickname", "user_nickname", {}), 25, 26, m)
      /\ Leads(Rename("users", "user_nickname", "nickname", {}), 26, 25, m)
  <2>1. ColumnTurned(25, 26, "users", "nickname", "user_nickname", {}, {})
    BY DEF ColumnTurned
  <2> QED
    BY <2>1, TurnLeads
<1>13. /\ Leads(Rename("users", "role", "user_role", {"default"}), 26, 27, m)
      /\ Leads(Rename("users", "user_role", "role", {"default"}), 27, 26, m)
  <2>1. ColumnTurned(26, 27, "users", "role", "user_role", {"default"}, {"default"})
    BY DEF ColumnTurned
  <2> QED
    BY <2>1, TurnLeads
<1>14. /\ Leads(CreateKey(<<"uq", "users", "user_email">>), 27, 28, m)
      /\ Leads(DropKey(<<"uq", "users", "user_email">>), 28, 27, m)
  <2>1. KeyGained(27, 28, <<"uq", "users", "user_email">>)
    BY DEF KeyGained
  <2> QED
    BY <2>1, KeyLeads
<1> QED
  BY <1>1, <1>2, <1>3, <1>4, <1>5, <1>6, <1>7, <1>8, <1>9, <1>10, <1>11, <1>12, <1>13, <1>14
  DEF Climbs, Falls, LineStart, LineEnd, Upgrade, Downgrade, LikesUp, LikesDown, Modify,
      CreateIndex, DropIndex

LEMMA ImagesLeads ==
    ASSUME NEW m
    PROVE  Climbs("images", m) /\ Falls("images", m)
<1> USE DEF LineTables, ColumnsAt, AttributesAt, LineKeys, SameTable, From, Until, Named,
        FirstNames, CommentsFk, CommentAuthorFk, PostAuthorFk
<1>1. /\ Leads(CreateTable("posts_image", FirstImages, {}), 28, 29, m)
      /\ Leads(DropTable("posts_image"), 29, 28, m)
  <2>1. TableGained(28, 29, "posts_image", FirstImages, {})
    BY DEF TableGained, FirstImages, IsFunction, Timed, Mixed, TimestampMixin
  <2> QED
    BY <2>1, TableLeads
<1>2. /\ Leads(CreateIndex("posts_image", "post_id"), 29, 30, m)
      /\ Leads(DropIndex("posts_image", "post_id"), 30, 29, m)
  <2>1. /\ KeyGained(29, 30, <<"ix", "posts_image", "post_id">>)
        /\ <<"fk", "posts_image", "post_id">> \notin LineKeys(30)
    BY DEF KeyGained
  <2> QED
    BY <2>1, IndexLeads
<1>3. /\ Leads(Rename("users", "user_email", "user_email", {"comment"}), 30, 31, m)
      /\ Leads(Rename("users", "user_email", "user_email", {}), 31, 30, m)
  <2>1. ColumnTurned(30, 31, "users", "user_email", "user_email", {"comment"}, {})
    BY DEF ColumnTurned
  <2> QED
    BY <2>1, TurnLeads
<1>4. /\ Leads(Rename("users", "user_nickname", "user_nickname", {"comment"}), 31, 32, m)
      /\ Leads(Rename("users", "user_nickname", "user_nickname", {}), 32, 31, m)
  <2>1. ColumnTurned(31, 32, "users", "user_nickname", "user_nickname", {"comment"}, {})
    BY DEF ColumnTurned
  <2> QED
    BY <2>1, TurnLeads
<1> QED
  BY <1>1, <1>2, <1>3, <1>4
  DEF Climbs, Falls, LineStart, LineEnd, Upgrade, Downgrade, ImagesUp, ImagesDown, FirstImages,
      Modify, CreateIndex, DropIndex

LEMMA ActiveLeads ==
    ASSUME NEW m
    PROVE  Climbs("active", m) /\ Falls("active", m)
<1> USE DEF LineTables, ColumnsAt, AttributesAt, LineKeys, SameTable, From, Until, Named,
        FirstNames, CommentsFk, CommentAuthorFk, PostAuthorFk
<1>1. /\ Leads(Rename("users", "is_active", "user_is_active", {}), 32, 33, m)
      /\ Leads(Rename("users", "user_is_active", "is_active", {}), 33, 32, m)
  <2>1. ColumnTurned(32, 33, "users", "is_active", "user_is_active", {}, {})
    BY DEF ColumnTurned
  <2> QED
    BY <2>1, TurnLeads
<1> QED
  BY <1>1
  DEF Climbs, Falls, LineStart, LineEnd, Upgrade, Downgrade, ActiveUp, ActiveDown

LEMMA AutoIncrementLeads ==
    ASSUME NEW m
    PROVE  Climbs("auto_increment", m) /\ Falls("auto_increment", m)
<1> USE DEF LineTables, ColumnsAt, AttributesAt, LineKeys, SameTable, From, Until, Named,
        FirstNames, CommentsFk, CommentAuthorFk, PostAuthorFk
<1>1. /\ Leads(DropKey(CommentsFk), 33, 34, m)
      /\ Leads(CreateKey(CommentsFk), 34, 33, m)
  <2>1. KeyGained(34, 33, CommentsFk)
    BY DEF KeyGained
  <2> QED
    BY <2>1, KeyLeads DEF CommentsFk
<1>2. /\ Leads(Rename("posts", "post_id", "post_id", {"auto"}), 34, 35, m)
      /\ Leads(Rename("posts", "post_id", "post_id", {}), 35, 34, m)
  <2>1. ColumnTurned(34, 35, "posts", "post_id", "post_id", {"auto"}, {})
    BY DEF ColumnTurned
  <2> QED
    BY <2>1, TurnLeads
<1>3. /\ Leads(CreateKey(CommentsFk), 35, 36, m)
      /\ Leads(DropKey(CommentsFk), 36, 35, m)
  <2>1. KeyGained(35, 36, CommentsFk)
    BY DEF KeyGained
  <2> QED
    BY <2>1, KeyLeads DEF CommentsFk
<1> QED
  BY <1>1, <1>2, <1>3
  DEF Climbs, Falls, LineStart, LineEnd, Upgrade, Downgrade, AutoIncrementUp,
      AutoIncrementDown, Modify

LEMMA ImagePathsLeads ==
    ASSUME NEW m
    PROVE  Climbs("image_paths", m) /\ Falls("image_paths", m)
<1> USE DEF LineTables, ColumnsAt, AttributesAt, LineKeys, SameTable, From, Until, Named,
        FirstNames, CommentsFk, CommentAuthorFk, PostAuthorFk
<1>1. /\ Leads(AddColumn("comments", "parent_comment_id", {}), 36, 37, m)
      /\ Leads(DropColumn("comments", "parent_comment_id"), 37, 36, m)
  <2>1. ColumnGained(36, 37, "comments", "parent_comment_id", {})
    BY DEF ColumnGained
  <2> QED
    BY <2>1, ColumnLeads
<1>2. /\ Leads(CreateIndex("comments", "parent_comment_id"), 37, 38, m)
      /\ Leads(DropIndex("comments", "parent_comment_id"), 38, 37, m)
  <2>1. /\ KeyGained(37, 38, <<"ix", "comments", "parent_comment_id">>)
        /\ <<"fk", "comments", "parent_comment_id">> \notin LineKeys(38)
    BY DEF KeyGained
  <2> QED
    BY <2>1, IndexLeads
<1>3. /\ Leads(DropKey(CommentsFk), 38, 39, m)
      /\ Leads(CreateKey(CommentsFk), 39, 38, m)
  <2>1. KeyGained(39, 38, CommentsFk)
    BY DEF KeyGained
  <2> QED
    BY <2>1, KeyLeads DEF CommentsFk
<1>4. /\ Leads(DropKey(CommentAuthorFk), 39, 40, m)
      /\ Leads(CreateKey(CommentAuthorFk), 40, 39, m)
  <2>1. KeyGained(40, 39, CommentAuthorFk)
    BY DEF KeyGained
  <2> QED
    BY <2>1, KeyLeads DEF CommentAuthorFk
<1>5. /\ Leads(AddColumn("posts_image", "image_original_path", {}), 40, 41, m)
      /\ Leads(DropColumn("posts_image", "image_original_path"), 41, 40, m)
  <2>1. ColumnGained(40, 41, "posts_image", "image_original_path", {})
    BY DEF ColumnGained
  <2> QED
    BY <2>1, ColumnLeads
<1>6. /\ Leads(AddColumn("posts_image", "image_content_path", {}), 41, 42, m)
      /\ Leads(DropColumn("posts_image", "image_content_path"), 42, 41, m)
  <2>1. ColumnGained(41, 42, "posts_image", "image_content_path", {})
    BY DEF ColumnGained
  <2> QED
    BY <2>1, ColumnLeads
<1>7. /\ Leads(AddColumn("posts_image", "image_thumbnail_path", {}), 42, 43, m)
      /\ Leads(DropColumn("posts_image", "image_thumbnail_path"), 43, 42, m)
  <2>1. ColumnGained(42, 43, "posts_image", "image_thumbnail_path", {})
    BY DEF ColumnGained
  <2> QED
    BY <2>1, ColumnLeads
<1>8. /\ Leads(DropColumn("posts_image", "image_path"), 43, 44, m)
      /\ Leads(AddColumn("posts_image", "image_path", {}), 44, 43, m)
  <2>1. ColumnGained(44, 43, "posts_image", "image_path", {})
    BY DEF ColumnGained
  <2> QED
    BY <2>1, ColumnLeads
<1>9. /\ Leads(Rename("users", "user_is_active", "user_is_active", {"default", "comment"}), 44,
               45, m)
      /\ Leads(Rename("users", "user_is_active", "user_is_active", {}), 45, 44, m)
  <2>1. ColumnTurned(44, 45, "users", "user_is_active", "user_is_active",
                     {"default", "comment"}, {})
    BY DEF ColumnTurned
  <2> QED
    BY <2>1, TurnLeads
<1> QED
  BY <1>1, <1>2, <1>3, <1>4, <1>5, <1>6, <1>7, <1>8, <1>9
  DEF Climbs, Falls, LineStart, LineEnd, Upgrade, Downgrade, ImagePathsUp, ImagePathsDown,
      Modify, CreateIndex, DropIndex

LEMMA NoticeLeads ==
    ASSUME NEW m
    PROVE  Climbs("notice", m) /\ Falls("notice", m)
<1> USE DEF LineTables, ColumnsAt, AttributesAt, LineKeys, SameTable, From, Until, Named,
        FirstNames, CommentsFk, CommentAuthorFk, PostAuthorFk
<1>1. /\ Leads(AddColumn("posts", "post_status", {"default"}), 45, 46, m)
      /\ Leads(DropColumn("posts", "post_status"), 46, 45, m)
  <2>1. ColumnGained(45, 46, "posts", "post_status", {"default"})
    BY DEF ColumnGained
  <2> QED
    BY <2>1, ColumnLeads
<1>2. /\ Leads(AddColumn("posts", "post_is_notice", {"default"}), 46, 47, m)
      /\ Leads(DropColumn("posts", "post_is_notice"), 47, 46, m)
  <2>1. ColumnGained(46, 47, "posts", "post_is_notice", {"default"})
    BY DEF ColumnGained
  <2> QED
    BY <2>1, ColumnLeads
<1>3. /\ Leads(CreateIndex("posts", "post_status"), 47, 48, m)
      /\ Leads(DropIndex("posts", "post_status"), 48, 47, m)
  <2>1. /\ KeyGained(47, 48, <<"ix", "posts", "post_status">>)
        /\ <<"fk", "posts", "post_status">> \notin LineKeys(48)
    BY DEF KeyGained
  <2> QED
    BY <2>1, IndexLeads
<1> QED
  BY <1>1, <1>2, <1>3
  DEF Climbs, Falls, LineStart, LineEnd, Upgrade, Downgrade, NoticeUp, NoticeDown, CreateIndex,
      DropIndex

LEMMA MergeLeads ==
    ASSUME NEW m
    PROVE  Climbs("merge", m) /\ Falls("merge", m)
  BY DEF Climbs, Falls, Upgrade, Downgrade, MergeUp, MergeDown

LEMMA LineClimbs ==
    ASSUME NEW m, NEW r \in MainLine
    PROVE  Climbs(r, m) /\ (r # "initial" => Falls(r, m))
<1>1. r \in {"initial", "view_count", "user_id", "likes", "images", "merge", "active",
             "auto_increment", "image_paths", "notice"}
  BY DEF MainLine, Revision, Upgrade
<1> QED
  BY <1>1, InitialLeads, ViewCountLeads, UserIdLeads, LikesLeads, ImagesLeads, MergeLeads,
     ActiveLeads, AutoIncrementLeads, ImagePathsLeads, NoticeLeads

(* The statements on menus, which lead from one place on its own line to     *)
(* another *)
MenuLeads(s, n, m, q) == Fits(n, m) => Applies(s) /\ (Execute(s) => Fits(n, q)')

LEMMA LineKeysApart ==
    ASSUME NEW n
    PROVE  \A k \in LineKeys(n) : k[2] # "menus"
  BY DEF LineKeys, From, CommentsFk, CommentAuthorFk, PostAuthorFk

LEMMA MenuKeyLeads ==
    ASSUME NEW n, NEW m \in Nat, NEW q \in Nat, NEW c, 1 <= m, 1 <= q,
           <<"ix", "menus", c>> \notin MenuKeys(m),
           MenuKeys(q) = MenuKeys(m) \union {<<"ix", "menus", c>>}
    PROVE  MenuLeads(CreateIndex("menus", c), n, m, q) /\ MenuLeads(DropIndex("menus", c), n,
                     q, m)
<1> DEFINE k == <<"ix", "menus", c>>
<1>1. MenuTables(m) = MenuTables(q) /\ "menus" \in MenuTables(m)
  BY DEF MenuTables, From
<1>2. k \notin LineKeys(n) /\ k[1] = "ix" /\ k[2] = "menus" /\ k[3] = c
  BY LineKeysApart
<1>3. <<"fk", "menus", c>> \notin LineKeys(n) \union MenuKeys(q)
  BY LineKeysApart, MenusApart
<1>4. ASSUME Fits(n, m) PROVE Applies(CreateKey(k))
  BY <1>1, <1>2, <1>4 DEF Applies, CreateKey, Fits
<1>5. ASSUME Fits(n, m), Execute(CreateKey(k)) PROVE Fits(n, q)'
  <2>1. tables' = tables /\ keys' = keys \union {k}
    BY <1>5, CreateKeyDoes
  <2>2. \A t \in LineTables(n) : TableFits(n, t)'
    BY <1>5, <2>1 DEF Fits, TableFits
  <2> QED
    BY <1>1, <1>5, <2>1, <2>2 DEF Fits
<1>6. ASSUME Fits(n, q) PROVE Applies(DropKey(k))
  <2>1. k \in keys /\ <<"fk", k[2], k[3]>> \notin keys
    BY <1>2, <1>3, <1>6 DEF Fits
  <2> QED
    BY <2>1 DEF Applies, DropKey, Constrained
<1>7. ASSUME Fits(n, q), Execute(DropKey(k)) PROVE Fits(n, m)'
  <2>1. tables' = tables /\ keys' = keys \ {k}
    BY <1>7, DropKeyDoes
  <2>2. \A t \in LineTables(n) : TableFits(n, t)'
    BY <1>7, <2>1 DEF Fits, TableFits
  <2>3. keys' = LineKeys(n) \union MenuKeys(m)
    BY <1>2, <1>7, <2>1 DEF Fits
  <2> QED
    BY <1>1, <1>7, <2>1, <2>2, <2>3 DEF Fits
<1> HIDE DEF k
<1>8. MenuLeads(CreateKey(k), n, m, q) /\ MenuLeads(DropKey(k), n, q, m)
  BY <1>4, <1>5, <1>6, <1>7 DEF MenuLeads
<1> QED
  BY <1>8 DEF k, CreateIndex, DropIndex

LEMMA MenuTableLeads ==
    ASSUME NEW n
    PROVE  /\ MenuLeads(CreateTable("menus", MenuTable, {<<"uq", "parent_name">>}), n, 0, 1)
           /\ MenuLeads(DropTable("menus"), n, 1, 0)
<1>1. /\ MenuTables(0) = {} /\ MenuTables(1) = {"menus"} /\ "menus" \notin LineTables(n)
      /\ MenuKeys(0) = {} /\ MenuKeys(1) = {<<"uq", "menus", "parent_name">>}
  BY MenusApart DEF MenuTables, MenuKeys, From
<1> DEFINE s == CreateTable("menus", MenuTable, {<<"uq", "parent_name">>})
<1>2. ASSUME Fits(n, 0) PROVE Applies(s)
  BY <1>1, <1>2 DEF Applies, CreateTable, Fits
<1>3. ASSUME Fits(n, 0), Execute(s) PROVE Fits(n, 1)'
  <2>1. /\ "menus" \notin DOMAIN tables /\ tables' = With(tables, "menus", MenuTable)
        /\ keys' = keys \union {<<k[1], "menus", k[2]>> : k \in {<<"uq", "parent_name">>}}
    BY <1>3, CreateTableDoes
  <2>2. /\ IsFunction(tables)' /\ DOMAIN tables' = DOMAIN tables \union {"menus"}
        /\ tables'["menus"] = MenuTable /\ \A u \in DOMAIN tables : tables'[u] = tables[u]
    BY <2>1 DEF With, IsFunction
  <2>3. keys' = LineKeys(n) \union MenuKeys(1)
    BY <1>1, <1>3, <2>1 DEF Fits
  <2>4. \A t \in LineTables(n) : TableFits(n, t)'
    BY <1>3, <2>2 DEF Fits, TableFits
  <2>5. DOMAIN tables' = LineTables(n) \union MenuTables(1)
    BY <1>1, <1>3, <2>2 DEF Fits
  <2> QED
    BY <2>2, <2>3, <2>4, <2>5 DEF Fits
<1>4. ASSUME Fits(n, 1) PROVE Applies(DropTable("menus"))
  BY <1>1, <1>4 DEF Applies, DropTable, Fits
<1>5. ASSUME Fits(n, 1), Execute(DropTable("menus")) PROVE Fits(n, 0)'
  <2>1. tables' = Without(tables, "menus") /\ keys' = {k \in keys : k[2] # "menus"}
    BY <1>5, DropTableDoes
  <2>2. /\ IsFunction(tables)' /\ DOMAIN tables' = DOMAIN tables \ {"menus"}
        /\ \A u \in DOMAIN tables \ {"menus"} : tables'[u] = tables[u]
    BY <2>1 DEF Without, IsFunction
  <2>3. keys' = LineKeys(n) \union MenuKeys(0)
    BY <1>1, <1>5, <2>1, LineKeysApart DEF Fits
  <2>4. \A t \in LineTables(n) : TableFits(n, t)'
    BY <1>1, <1>5, <2>2 DEF Fits, TableFits
  <2>5. DOMAIN tables' = LineTables(n) \union MenuTables(0)
    BY <1>1, <1>5, <2>2 DEF Fits
  <2> QED
    BY <2>2, <2>3, <2>4, <2>5 DEF Fits
<1> QED
  BY <1>2, <1>3, <1>4, <1>5 DEF MenuLeads

LEMMA MenusLead ==
    ASSUME NEW n, NEW i \in 0..2
    PROVE  /\ MenuLeads(Upgrade["menus"][i + 1], n, i, i + 1)
           /\ MenuLeads(Downgrade["menus"][i + 1], n, 3 - i, 2 - i)
<1>1. /\ <<"ix", "menus", "deleted_at">> \notin MenuKeys(1)
      /\ MenuKeys(2) = MenuKeys(1) \union {<<"ix", "menus", "deleted_at">>}
  BY DEF MenuKeys, From
<1>2. /\ <<"ix", "menus", "menu_parent_id">> \notin MenuKeys(2)
      /\ MenuKeys(3) = MenuKeys(2) \union {<<"ix", "menus", "menu_parent_id">>}
  BY DEF MenuKeys, From
<1>3. /\ MenuLeads(CreateIndex("menus", "deleted_at"), n, 1, 2)
      /\ MenuLeads(DropIndex("menus", "deleted_at"), n, 2, 1)
  BY <1>1, MenuKeyLeads
<1>4. /\ MenuLeads(CreateIndex("menus", "menu_parent_id"), n, 2, 3)
      /\ MenuLeads(DropIndex("menus", "menu_parent_id"), n, 3, 2)
  BY <1>2, MenuKeyLeads
<1> QED
  BY <1>3, <1>4, MenuTableLeads DEF Upgrade, Downgrade, MenusUp, MenusDown

-----------------------------------------------------------------------------
(* Where a command stands before the first statement of a revision, and      *)
(* after the last: what the history says.                                   *)
LEMMA RevisionNames ==
    /\ Revision = {"initial", "menus", "view_count", "user_id", "likes", "images", "merge",
                   "active", "auto_increment", "image_paths", "notice"}
    /\ MainLine = Revision \ {"menus"}
  BY DEF Revision, MainLine, Upgrade

(* A revision is applied with those before it. *)
Downward(S) ==
    /\ "notice" \in S => "image_paths" \in S
    /\ "image_paths" \in S => "auto_increment" \in S
    /\ "auto_increment" \in S => "active" \in S
    /\ "active" \in S => "merge" \in S
    /\ "merge" \in S => "images" \in S /\ "menus" \in S
    /\ "images" \in S => "likes" \in S
    /\ "likes" \in S => "user_id" \in S
    /\ "user_id" \in S => "view_count" \in S
    /\ "view_count" \in S \/ "menus" \in S => "initial" \in S

LEMMA HistoryIsDownward ==
    ASSUME NEW S, S \subseteq Revision
    PROVE  (\A r \in S : Parents[r] \subseteq S) <=> Downward(S)
  BY RevisionNames DEF Downward, Parents

LEMMA ChildrenAre ==
    /\ Children("initial") = {"menus", "view_count"} /\ Children("menus") = {"merge"}
    /\ Children("view_count") = {"user_id"} /\ Children("user_id") = {"likes"}
    /\ Children("likes") = {"images"} /\ Children("images") = {"merge"}
    /\ Children("merge") = {"active"} /\ Children("active") = {"auto_increment"}
    /\ Children("auto_increment") = {"image_paths"} /\ Children("image_paths") = {"notice"}
    /\ Children("notice") = {}
  BY RevisionNames DEF Children, Parents

LEMMA Lengths ==
    /\ Len(Upgrade["initial"]) = 8 /\ Len(Downgrade["initial"]) = 8
    /\ Len(Upgrade["menus"]) = 3 /\ Len(Downgrade["menus"]) = 3
    /\ Len(Upgrade["view_count"]) = 5 /\ Len(Downgrade["view_count"]) = 4
    /\ Len(Upgrade["user_id"]) = 1 /\ Len(Downgrade["user_id"]) = 1
    /\ Len(Upgrade["likes"]) = 14 /\ Len(Downgrade["likes"]) = 14
    /\ Len(Upgrade["images"]) = 4 /\ Len(Downgrade["images"]) = 4
    /\ Len(Upgrade["merge"]) = 0 /\ Len(Downgrade["merge"]) = 0
    /\ Len(Upgrade["active"]) = 1 /\ Len(Downgrade["active"]) = 1
    /\ Len(Upgrade["auto_increment"]) = 3 /\ Len(Downgrade["auto_increment"]) = 3
    /\ Len(Upgrade["image_paths"]) = 9 /\ Len(Downgrade["image_paths"]) = 9
    /\ Len(Upgrade["notice"]) = 3 /\ Len(Downgrade["notice"]) = 3
<1> USE DEF Upgrade, Downgrade
<1>1. Len(Upgrade["initial"]) = 8 /\ Len(Downgrade["initial"]) = 8
  BY DEF InitialUp, InitialDown
<1>2. Len(Upgrade["menus"]) = 3 /\ Len(Downgrade["menus"]) = 3
  BY DEF MenusUp, MenusDown
<1>3. Len(Upgrade["view_count"]) = 5 /\ Len(Downgrade["view_count"]) = 4
  BY DEF ViewCountUp, ViewCountDown
<1>4. Len(Upgrade["user_id"]) = 1 /\ Len(Downgrade["user_id"]) = 1
  BY DEF UserIdUp, UserIdDown
<1>5. Len(Upgrade["likes"]) = 14 /\ Len(Downgrade["likes"]) = 14
  BY DEF LikesUp, LikesDown
<1>6. Len(Upgrade["images"]) = 4 /\ Len(Downgrade["images"]) = 4
  BY DEF ImagesUp, ImagesDown
<1>7. Len(Upgrade["merge"]) = 0 /\ Len(Downgrade["merge"]) = 0
  BY DEF MergeUp, MergeDown
<1>8. Len(Upgrade["active"]) = 1 /\ Len(Downgrade["active"]) = 1
  BY DEF ActiveUp, ActiveDown
<1>9. Len(Upgrade["auto_increment"]) = 3 /\ Len(Downgrade["auto_increment"]) = 3
  BY DEF AutoIncrementUp, AutoIncrementDown
<1>10. Len(Upgrade["image_paths"]) = 9 /\ Len(Downgrade["image_paths"]) = 9
  BY DEF ImagePathsUp, ImagePathsDown
<1>11. Len(Upgrade["notice"]) = 3 /\ Len(Downgrade["notice"]) = 3
  BY DEF NoticeUp, NoticeDown
<1> QED
  BY <1>1, <1>2, <1>3, <1>4, <1>5, <1>6, <1>7, <1>8, <1>9, <1>10, <1>11

(* Where each revision of the line ends: where the next one starts, and all  *)
(* but view_count are taken back by as many statements.                     *)
LEMMA LineEnds ==
    /\ LineEnd("initial") = 8 /\ LineEnd("view_count") = 13 /\ LineEnd("user_id") = 14
    /\ LineEnd("likes") = 28 /\ LineEnd("images") = 32 /\ LineEnd("merge") = 32
    /\ LineEnd("active") = 33 /\ LineEnd("auto_increment") = 36 /\ LineEnd("image_paths") = 45
    /\ LineEnd("notice") = 48
  BY Lengths DEF LineEnd, LineStart

LEMMA LinePlaces ==
    ASSUME NEW r \in MainLine
    PROVE  /\ LineStart[r] \in Nat /\ LineEnd(r) = LineStart[r] + Len(Upgrade[r])
           /\ Len(Upgrade[r]) \in Nat /\ Len(Downgrade[r]) \in Nat
           /\ r # "view_count" => Len(Downgrade[r]) = Len(Upgrade[r])
<1>1. Len(Upgrade[r]) \in Nat /\ Len(Downgrade[r]) \in Nat
  BY RevisionNames, Lengths
<1>2. r # "view_count" => Len(Downgrade[r]) = Len(Upgrade[r])
  BY RevisionNames, Lengths
<1>3. LineStart[r] \in Nat
  BY RevisionNames DEF LineStart
<1> QED
  BY <1>1, <1>2, <1>3 DEF LineEnd

LEMMA HeightBelow ==
    ASSUME NEW S, Downward(S), NEW r \in MainLine, r \notin S, Parents[r] \subseteq S
    PROVE  Climbed(S) = LineStart[r]
<1> USE DEF Downward, Climbed, LineStart, Parents
<1>1. CASE r \in {"initial", "view_count", "user_id", "likes", "images"}
  BY <1>1
<1>2. CASE r \in {"merge", "active", "auto_increment", "image_paths", "notice"}
  BY <1>2
<1> QED
  BY <1>1, <1>2, RevisionNames

LEMMA HeightAbove ==
    ASSUME NEW S, Downward(S), NEW r \in MainLine, r \in S, Children(r) \intersect S = {}
    PROVE  Climbed(S) = LineEnd(r)
<1> USE ChildrenAre, LineEnds DEF Downward, Climbed
<1>1. CASE r \in {"initial", "view_count", "user_id", "likes", "images"}
  BY <1>1
<1>2. CASE r \in {"merge", "active", "auto_increment", "image_paths", "notice"}
  BY <1>2
<1> QED
  BY <1>1, <1>2, RevisionNames

LEMMA NoneItsOwnParent ==
    ASSUME NEW r \in Revision
    PROVE  r \notin Parents[r]
  BY RevisionNames DEF Parents

LEMMA FitsKept ==
    ASSUME NEW n, NEW m, Fits(n, m), UNCHANGED schema
    PROVE  Fits(n, m)'
  BY DEF Fits, TableFits, schema

(* Before a revision's first statement, its place is that of the history.    *)
LEMMA FirstPlace ==
    ASSUME HistoryFits, NEW r \in Revision,
           \/ r \notin applied /\ Parents[r] \subseteq applied /\ job.cmd = "upgrade"
           \/ r \in applied /\ Children(r) \intersect applied = {} /\ job.cmd # "upgrade"
    PROVE  /\ r \in MainLine /\ ~takenBack =>
                 Height = IF job.cmd = "upgrade" THEN LineStart[r] ELSE LineEnd(r)
           /\ r = "menus" => MenuHeight = IF job.cmd = "upgrade" THEN 0 ELSE 3
<1>1. Downward(applied)
  BY HistoryIsDownward DEF HistoryFits
<1> QED
  BY <1>1, HeightBelow, HeightAbove DEF Height, MenuHeight

LEMMA BetweenStatements ==
    ASSUME JobOK, HistoryFits, JobFits, job.at = 0
    PROVE  LinePlace = Height /\ MenuPlace = MenuHeight /\ ~TakingAllBack
<1>1. CASE job.rev = "none"
  BY <1>1, RevisionNames DEF LinePlace, MenuPlace, TakingAllBack
<1>2. CASE job.rev # "none"
  <2>1. job.rev \in Revision /\ job.cmd \in {"upgrade", "downgrade"}
    BY <1>2 DEF JobOK
  <2>2. /\ job.rev \in MainLine /\ ~takenBack =>
              Height = IF job.cmd = "upgrade" THEN LineStart[job.rev] ELSE LineEnd(job.rev)
        /\ job.rev = "menus" => MenuHeight = IF job.cmd = "upgrade" THEN 0 ELSE 3
    BY <1>2, <2>1, FirstPlace DEF JobFits, Upgrading, Downgrading
  <2>3. job.rev \in MainLine => LineStart[job.rev] \in Nat /\ LineEnd(job.rev) \in Nat
    BY LinePlaces
  <2>4. /\ job.rev \in MainLine /\ ~takenBack => LinePlace = Height
        /\ job.rev = "menus" => MenuPlace = MenuHeight
    BY <2>2, <2>3 DEF LinePlace, MenuPlace, Reached
  <2> QED
    BY <2>4 DEF LinePlace, MenuPlace, TakingAllBack
<1> QED
  BY <1>1, <1>2

(* A job without a revision, after one that did nothing to the schema        *)
LEMMA NewJob ==
    ASSUME JobOK, InStep, job.at = 0, UNCHANGED <<schema, applied, takenBack>>,
           job'.rev = "none"
    PROVE  InStep'
<1>1. Fits(Height, MenuHeight) /\ Height' = Height /\ MenuHeight' = MenuHeight
  BY BetweenStatements DEF InStep, SchemaFits, Height, MenuHeight
<1>2. LinePlace' = Height /\ MenuPlace' = MenuHeight /\ ~TakingAllBack'
  BY <1>1, RevisionNames DEF LinePlace, MenuPlace, TakingAllBack
<1>3. SchemaFits'
  <2>1. PICK n, m : n = Height /\ m = MenuHeight
    OBVIOUS
  <2>2. Fits(n, m)'
    BY <1>1, <2>1, FitsKept
  <2> QED
    BY <1>2, <2>1, <2>2 DEF SchemaFits
<1>4. HistoryFits' /\ JobFits'
  BY DEF InStep, HistoryFits, JobFits
<1> QED
  BY <1>2, <1>3, <1>4 DEF InStep

LEMMA BeginKeeps ==
    ASSUME JobOK, InStep, NEW r \in Revision, BeginRevision(r)
    PROVE  InStep'
<1>1. /\ job.rev = "none" /\ job.at = 0 /\ job.cmd \in {"upgrade", "downgrade"} /\ Next1(r)
      /\ job'.rev = r /\ job'.at = 0 /\ job'.cmd = job.cmd
      /\ UNCHANGED <<schema, applied, takenBack>>
  BY DEF BeginRevision, JobOK
<1>2. /\ r \in MainLine /\ ~takenBack =>
            Height = IF job.cmd = "upgrade" THEN LineStart[r] ELSE LineEnd(r)
      /\ r = "menus" => MenuHeight = IF job.cmd = "upgrade" THEN 0 ELSE 3
  BY <1>1, FirstPlace DEF Next1, InStep
<1>3. /\ LinePlace = Height /\ MenuPlace = MenuHeight
      /\ Height' = Height /\ MenuHeight' = MenuHeight
      /\ ~TakingAllBack /\ ~TakingAllBack'
  BY <1>1, BetweenStatements DEF InStep, Height, MenuHeight, TakingAllBack
<1>4. LinePlace' = Height
  <2>1. CASE r \in MainLine /\ ~takenBack
    <3>1. LineStart[r] \in Nat /\ LineEnd(r) \in Nat
      BY <2>1, LinePlaces
    <3> QED
      BY <1>1, <1>2, <2>1, <3>1 DEF LinePlace, Reached
  <2>2. CASE ~(r \in MainLine /\ ~takenBack)
    BY <1>1, <1>3, <2>2 DEF LinePlace
  <2> QED
    BY <2>1, <2>2
<1>5. MenuPlace' = MenuHeight
  BY <1>1, <1>2, <1>3 DEF MenuPlace, Reached
<1>6. SchemaFits'
  <2>1. PICK n, m : n = Height /\ m = MenuHeight
    OBVIOUS
  <2>2. Fits(n, m)'
    BY <1>1, <1>3, <2>1, FitsKept DEF InStep, SchemaFits
  <2> QED
    BY <1>4, <1>5, <2>1, <2>2 DEF SchemaFits
<1>7. HistoryFits'
  BY <1>1 DEF InStep, HistoryFits
<1>8. Len(Upgrade[r]) \in Nat /\ Len(Downgrade[r]) \in Nat
  BY RevisionNames, Lengths
<1>9. JobFits'
  BY <1>1, <1>8 DEF JobFits, Upgrading, Downgrading, Next1
<1> QED
  BY <1>3, <1>6, <1>7, <1>9 DEF InStep

(* The statement a command is at: it is carried out, and leads to the next   *)
(* place -- but for the first revision's downgrade and a view_count that     *)
(* was taken back.                                                          *)
StatementLeads ==
    \E s \in {Script[job.at + 1]} : \E n \in {LinePlace} : \E m \in {MenuPlace} :
        IF job.rev = "menus"
        THEN \/ job.cmd = "upgrade" /\ MenuLeads(s, n, m, m + 1)
             \/ job.cmd = "downgrade" /\ MenuLeads(s, n, m, m - 1)
        ELSE \/ job.cmd = "upgrade" /\ Leads(s, n, n + 1, m)
             \/ job.cmd = "downgrade" /\ Leads(s, n, n - 1, m)

CannotRun ==
    \/ job.cmd = "downgrade" /\ job.rev = "initial"
    \/ job.cmd = "upgrade" /\ job.rev = "view_count" /\ takenBack

LEMMA TakenBackRuns ==
    ASSUME HistoryFits, JobFits, JobOK, takenBack, job.rev \in MainLine
    PROVE  CannotRun
<1>1. Downward(applied) /\ "initial" \in applied /\ "view_count" \notin applied
  BY HistoryIsDownward DEF HistoryFits
<1>2. CASE job.cmd = "upgrade"
  BY <1>1, <1>2, RevisionNames DEF JobFits, Upgrading, Downward, Parents, CannotRun
<1>3. CASE job.cmd = "downgrade"
  BY <1>1, <1>3, RevisionNames DEF JobFits, Downgrading, Downward, CannotRun
<1> QED
  BY <1>2, <1>3, RevisionNames DEF JobOK

LEMMA EveryStatementLeads ==
    ASSUME JobOK, InStep, job.rev # "none", job.at < Len(Script), ~CannotRun
    PROVE  StatementLeads
<1>1. PICK r, i, n, m : r = job.rev /\ i = job.at /\ n = LinePlace /\ m = MenuPlace
  OBVIOUS
<1>2. r \in Revision /\ job.cmd \in {"upgrade", "downgrade"} /\ i \in Nat /\ i < Len(Script)
  BY <1>1 DEF JobOK
<1>3. CASE r = "menus"
  <2>1. i \in 0..2
    <3>1. Script = Upgrade["menus"] \/ Script = Downgrade["menus"]
      BY <1>1, <1>3 DEF Script
    <3>2. Len(Script) = 3
      BY <3>1, Lengths
    <3> QED
      BY <1>2, <3>2
  <2>2. /\ MenuLeads(Upgrade["menus"][i + 1], n, i, i + 1)
        /\ MenuLeads(Downgrade["menus"][i + 1], n, 3 - i, 2 - i)
    BY <2>1, MenusLead
  <2>3. CASE job.cmd = "upgrade"
    <3>1. m = i /\ Script[job.at + 1] = Upgrade["menus"][i + 1]
      BY <1>1, <1>3, <2>1, <2>3 DEF MenuPlace, Reached, Script
    <3> QED
      BY <1>1, <1>3, <2>2, <2>3, <3>1 DEF StatementLeads
  <2>4. CASE job.cmd = "downgrade"
    <3>1. m = 3 - i /\ Script[job.at + 1] = Downgrade["menus"][i + 1]
      BY <1>1, <1>3, <2>1, <2>4 DEF MenuPlace, Reached, Script
    <3>2. m - 1 = 2 - i
      BY <2>1, <3>1
    <3> QED
      BY <1>1, <1>3, <2>2, <2>4, <3>1, <3>2 DEF StatementLeads
  <2> QED
    BY <1>2, <2>3, <2>4
<1>4. CASE r # "menus"
  <2>1. r \in MainLine /\ ~takenBack
    BY <1>1, <1>2, <1>4, TakenBackRuns, RevisionNames DEF InStep
  <2>2. /\ LineStart[r] \in Nat /\ LineEnd(r) \in Nat
        /\ Len(Upgrade[r]) \in Nat /\ Len(Downgrade[r]) \in Nat
    BY <2>1, LinePlaces
  <2>3. CASE job.cmd = "upgrade"
    <3>1. n = LineStart[r] + i /\ Script = Upgrade[r]
      BY <1>1, <2>1, <2>3 DEF LinePlace, Reached, Script
    <3>2. i \in 0..(Len(Upgrade[r]) - 1)
      BY <1>2, <2>2, <3>1
    <3>3. Leads(Upgrade[r][i + 1], LineStart[r] + i, LineStart[r] + i + 1, m)
      BY <2>1, <3>2, LineClimbs DEF Climbs
    <3> QED
      BY <1>1, <1>4, <2>3, <3>1, <3>3 DEF StatementLeads
  <2>4. CASE job.cmd = "downgrade"
    <3>1. n = LineEnd(r) - i /\ Script = Downgrade[r] /\ r # "initial"
      BY <1>1, <2>1, <2>4 DEF LinePlace, Reached, Script, CannotRun
    <3>2. i \in 0..(Len(Downgrade[r]) - 1)
      BY <1>2, <2>2, <3>1
    <3>3. Leads(Downgrade[r][i + 1], LineEnd(r) - i, LineEnd(r) - i - 1, m)
      BY <2>1, <3>1, <3>2, LineClimbs DEF Falls
    <3> QED
      BY <1>1, <1>4, <2>4, <3>1, <3>3 DEF StatementLeads
  <2> QED
    BY <1>2, <2>3, <2>4
<1> QED
  BY <1>3, <1>4

(* The two that cannot run stop at their first statement, or, after a        *)
(* view_count was taken back, at the third.                                 *)
LEMMA StuckStatement ==
    ASSUME JobOK, InStep, job.rev # "none", CannotRun, Execute(Script[job.at + 1])
    PROVE  /\ job.cmd = "downgrade" /\ job.rev = "initial" /\ takenBack /\ job.at <= 1
           /\ CommentAuthorFk \in keys /\ CommentAuthorFk \in keys'
<1>1. PICK i, n, m : i = job.at /\ n = LinePlace /\ m = MenuPlace
  OBVIOUS
<1>2. i \in Nat /\ Applies(Script[i + 1])
  BY <1>1 DEF Execute, JobOK
<1>3. Downward(applied)
  BY HistoryIsDownward DEF InStep, HistoryFits
<1>4. CASE job.cmd = "upgrade" /\ job.rev = "view_count" /\ takenBack
  <2>1. i = 0 /\ n = 9 /\ Script[i + 1] = DropKey(CommentsFk)
    BY <1>1, <1>4, RevisionNames DEF InStep, JobFits, Upgrading, LinePlace, Height, Script,
       Upgrade, ViewCountUp
  <2>2. Fits(9, m)
    BY <1>1, <1>4, <2>1 DEF InStep, SchemaFits, TakingAllBack
  <2>3. CommentsFk \notin keys
    BY <2>2, MenusApart DEF Fits, LineKeys, From, CommentsFk, CommentAuthorFk, PostAuthorFk
  <2> QED
    BY <1>2, <2>1, <2>3 DEF Applies, DropKey
<1>5. CASE job.cmd = "downgrade" /\ job.rev = "initial"
  <2>1. /\ Script[1] = DropIndex("comments", "post_id")
        /\ Script[2] = DropIndex("comments", "deleted_at")
        /\ Script[3] = DropIndex("comments", "author_id")
    BY <1>5 DEF Script, Downgrade, InitialDown
  <2>2. \A c : CommentAuthorFk \in keys /\ Execute(DropIndex("comments", c))
                  => c # "author_id" /\ CommentAuthorFk \in keys'
    <3> SUFFICES ASSUME NEW c, CommentAuthorFk \in keys, Execute(DropIndex("comments", c))
                 PROVE  c # "author_id" /\ CommentAuthorFk \in keys'
      OBVIOUS
    <3>1. <<"fk", "comments", c>> \notin keys
      BY DEF Execute, Applies, DropIndex, DropKey, Constrained
    <3>2. keys' = keys \ {<<"ix", "comments", c>>}
      BY DropKeyDoes DEF DropIndex
    <3> QED
      BY <3>1, <3>2 DEF CommentAuthorFk
  <2>3. CASE i = 0
    <3>1. Fits(n, m)
      BY <1>1, <2>3 DEF InStep, SchemaFits, TakingAllBack
    <3>2. n = IF takenBack THEN 9 ELSE 8
      BY <1>1, <1>3, <1>5, <2>3, BetweenStatements, HeightAbove, LineEnds, RevisionNames
      DEF InStep, Height, JobFits, Downgrading
    <3>3. CommentAuthorFk \in keys /\ (n = 8 => CommentsFk \in keys)
      BY <3>1, <3>2 DEF Fits, LineKeys, From
    <3>4. n # 8
      <4>1. Applies(DropIndex("comments", "post_id"))
        BY <1>2, <2>1, <2>3
      <4>2. CommentsFk \notin keys
        BY <4>1 DEF Applies, DropIndex, DropKey, Constrained, CommentsFk
      <4> QED
        BY <3>3, <4>2
    <3> QED
      BY <1>1, <1>5, <2>1, <2>2, <2>3, <3>2, <3>3, <3>4
  <2>4. CASE i # 0
    <3>1. i \in 1..2 /\ CommentAuthorFk \in keys /\ takenBack
      BY <1>1, <1>2, <1>5, <2>4 DEF InStep, TakingAllBack, StuckAtAuthors
    <3> QED
      BY <1>1, <1>5, <2>1, <2>2, <3>1
  <2> QED
    BY <2>3, <2>4
<1> QED
  BY <1>4, <1>5 DEF CannotRun

LEMMA PlacesFit ==
    ASSUME NEW n, NEW m, Fits(n, m)', LinePlace' = n, MenuPlace' = m
    PROVE  SchemaFits'
  BY DEF SchemaFits

LEMMA StatementKeeps ==
    ASSUME JobOK, InStep, Statement
    PROVE  InStep'
<1>1. /\ job.rev \in Revision /\ job.cmd \in {"upgrade", "downgrade"} /\ job.at \in Nat
      /\ job'.rev = job.rev /\ job'.cmd = job.cmd /\ job'.at = job.at + 1
      /\ job.rev # "none" /\ job.at < Len(Script) /\ Execute(Script[job.at + 1])
      /\ UNCHANGED <<applied, takenBack>>
  BY RevisionNames DEF Statement, JobOK
<1>2. HistoryFits'
  BY <1>1 DEF InStep, HistoryFits
<1>3. Len(Upgrade[job.rev]) \in Nat /\ Len(Downgrade[job.rev]) \in Nat
  BY <1>1, RevisionNames, Lengths
<1>4. PICK n, m : n = LinePlace /\ m = MenuPlace
  OBVIOUS
<1>5. CASE ~CannotRun
  <2>1. StatementLeads
    BY <1>1, <1>5, EveryStatementLeads
  <2>2. ~TakingAllBack /\ ~TakingAllBack'
    BY <1>1, <1>5 DEF CannotRun, TakingAllBack
  <2>3. Fits(n, m)
    BY <1>4, <2>2 DEF InStep, SchemaFits
  <2>4. ASSUME job.rev = "menus" PROVE SchemaFits'
    <3>1. LinePlace' = n
      BY <1>1, <1>4, <2>4, RevisionNames DEF LinePlace, Height
    <3>2. CASE job.cmd = "upgrade"
      <4>1. Fits(n, m + 1)'
        BY <1>1, <1>4, <2>1, <2>3, <2>4, <3>2 DEF StatementLeads, MenuLeads
      <4>2. MenuPlace' = m + 1
        BY <1>1, <1>4, <2>4, <3>2 DEF MenuPlace, Reached
      <4> QED
        BY <3>1, <4>1, <4>2, PlacesFit
    <3>3. CASE job.cmd = "downgrade"
      <4>1. Fits(n, m - 1)'
        BY <1>1, <1>4, <2>1, <2>3, <2>4, <3>3 DEF StatementLeads, MenuLeads
      <4>2. MenuPlace' = m - 1
        BY <1>1, <1>4, <2>4, <3>3 DEF MenuPlace, Reached
      <4> QED
        BY <3>1, <4>1, <4>2, PlacesFit
    <3> QED
      BY <1>1, <3>2, <3>3
  <2>5. ASSUME job.rev # "menus" PROVE SchemaFits'
    <3>1. /\ job.rev \in MainLine /\ ~takenBack
          /\ LineStart[job.rev] \in Nat /\ LineEnd(job.rev) \in Nat
      <4>1. job.rev \in MainLine /\ ~takenBack
        BY <1>1, <1>5, <2>5, TakenBackRuns, RevisionNames DEF InStep
      <4> QED
        BY <4>1, LinePlaces
    <3>2. MenuPlace' = m
      BY <1>1, <1>4, <2>5 DEF MenuPlace, MenuHeight
    <3>3. CASE job.cmd = "upgrade"
      <4>1. Fits(n + 1, m)'
        BY <1>1, <1>4, <2>1, <2>3, <2>5, <3>3 DEF StatementLeads, Leads
      <4>2. LinePlace' = n + 1
        BY <1>1, <1>4, <3>1, <3>3 DEF LinePlace, Reached
      <4> QED
        BY <3>2, <4>1, <4>2, PlacesFit
    <3>4. CASE job.cmd = "downgrade"
      <4>1. Fits(n - 1, m)'
        BY <1>1, <1>4, <2>1, <2>3, <2>5, <3>4 DEF StatementLeads, Leads
      <4>2. LinePlace' = n - 1
        BY <1>1, <1>4, <3>1, <3>4 DEF LinePlace, Reached
      <4> QED
        BY <3>2, <4>1, <4>2, PlacesFit
    <3> QED
      BY <1>1, <3>3, <3>4
  <2>6. SchemaFits'
    BY <2>4, <2>5
  <2>7. JobFits'
    BY <1>1, <1>3, <1>5, <2>4, TakenBackRuns, RevisionNames
    DEF InStep, JobFits, Upgrading, Downgrading, Script
  <2> QED
    BY <1>2, <2>2, <2>6, <2>7 DEF InStep
<1>6. CASE CannotRun
  <2>1. /\ job.cmd = "downgrade" /\ job.rev = "initial" /\ takenBack /\ job.at <= 1
        /\ CommentAuthorFk \in keys'
    BY <1>1, <1>6, StuckStatement
  <2>2. TakingAllBack' /\ StuckAtAuthors'
    BY <1>1, <2>1 DEF TakingAllBack, StuckAtAuthors
  <2>3. JobFits'
    BY <1>1, <1>3, <2>1 DEF InStep, JobFits, Downgrading, Script
  <2> QED
    BY <1>2, <2>2, <2>3 DEF InStep
<1> QED
  BY <1>5, <1>6

LEMMA HistoryAfterUpgrade ==
    ASSUME InStep, NEW r \in Revision, Upgrading(r), ~takenBack \/ r # "view_count",
           applied' = applied \union {r}, takenBack' = takenBack
    PROVE  /\ HistoryFits' /\ MenuHeight' = (IF r = "menus" THEN 3 ELSE MenuHeight)
           /\ ~takenBack /\ r \in MainLine => Height' = LineEnd(r)
           /\ takenBack \/ r = "menus" => Height' = Height
<1>1. HistoryFits'
  BY DEF InStep, HistoryFits, Upgrading
<1>2. MenuHeight' = IF r = "menus" THEN 3 ELSE MenuHeight
  BY DEF MenuHeight
<1>3. Children(r) \intersect (applied \union {r}) = {}
  <2>1. \A q \in Children(r) : q \in Revision /\ r \in Parents[q]
    BY DEF Children
  <2> QED
    BY <2>1, NoneItsOwnParent DEF InStep, HistoryFits, Upgrading
<1>4. ASSUME ~takenBack, r \in MainLine PROVE Height' = LineEnd(r)
  <2>1. Downward(applied \union {r})
    BY <1>1, HistoryIsDownward DEF HistoryFits
  <2> QED
    BY <1>3, <1>4, <2>1, HeightAbove DEF Height
<1>5. takenBack \/ r = "menus" => Height' = Height
  BY DEF Height, Climbed
<1> QED
  BY <1>1, <1>2, <1>4, <1>5

LEMMA HistoryAfterDowngrade ==
    ASSUME InStep, NEW r \in Revision, Downgrading(r), r # "initial",
           applied' = applied \ {r}, takenBack' = (takenBack \/ r = "view_count")
    PROVE  /\ HistoryFits' /\ MenuHeight' = (IF r = "menus" THEN 0 ELSE MenuHeight)
           /\ r = "view_count" => Height' = 9
           /\ ~takenBack /\ r \in MainLine /\ r # "view_count" => Height' = LineStart[r]
           /\ r = "menus" => Height' = Height
<1>1. \A q \in applied \ {r} : Parents[q] \subseteq applied \ {r}
  BY DEF InStep, HistoryFits, Downgrading, Children
<1>2. r = "view_count" => "initial" \in applied
  BY DEF InStep, HistoryFits, Downgrading, Parents
<1>3. HistoryFits'
  BY <1>1, <1>2 DEF InStep, HistoryFits
<1>4. MenuHeight' = IF r = "menus" THEN 0 ELSE MenuHeight
  BY DEF MenuHeight
<1>5. ASSUME ~takenBack, r \in MainLine, r # "view_count" PROVE Height' = LineStart[r]
  <2>1. Downward(applied \ {r})
    BY <1>1, HistoryIsDownward DEF InStep, HistoryFits
  <2>2. Parents[r] \subseteq applied \ {r}
    BY NoneItsOwnParent DEF InStep, HistoryFits, Downgrading
  <2> QED
    BY <1>5, <2>1, <2>2, HeightBelow DEF Height
<1>6. r = "view_count" => Height' = 9
  BY DEF Height
<1>7. r = "menus" => Height' = Height
  BY DEF Height, Climbed
<1> QED
  BY <1>3, <1>4, <1>5, <1>6, <1>7

LEMMA StampKeeps ==
    ASSUME JobOK, InStep, Stamp
    PROVE  InStep'
<1>1. PICK r : r = job.rev
  OBVIOUS
<1>2. /\ r \in Revision /\ job.cmd \in {"upgrade", "downgrade"} /\ job.at = Len(Script)
      /\ job'.rev = "none" /\ UNCHANGED schema
  BY <1>1, RevisionNames DEF Stamp, JobOK, NoJob
<1>3. PICK n, m : n = LinePlace /\ m = MenuPlace
  OBVIOUS
<1>4. ~TakingAllBack /\ (job.cmd = "downgrade" => r # "initial")
  <2>1. ASSUME job.cmd = "downgrade", r = "initial" PROVE FALSE
    <3>1. job.at = 8
      BY <1>1, <1>2, <2>1, Lengths DEF Script
    <3> QED
      BY <1>1, <2>1, <3>1 DEF InStep, TakingAllBack, StuckAtAuthors
  <2> QED
    BY <1>1, <2>1 DEF TakingAllBack
<1>5. Fits(n, m)'
  BY <1>2, <1>3, <1>4, FitsKept DEF InStep, SchemaFits
<1>6. r \in MainLine =>
         /\ LineStart[r] \in Nat /\ LineEnd(r) = LineStart[r] + Len(Upgrade[r])
         /\ Len(Upgrade[r]) \in Nat /\ Len(Downgrade[r]) \in Nat
         /\ r # "view_count" => Len(Downgrade[r]) = Len(Upgrade[r])
  BY LinePlaces
<1>7. /\ r = "menus" => Len(Upgrade[r]) = 3 /\ Len(Downgrade[r]) = 3
      /\ r = "view_count" => Len(Upgrade[r]) # 0 /\ Len(Downgrade[r]) = 4
  <2>1. CASE r = "menus"
    BY <2>1, Lengths
  <2>2. CASE r = "view_count"
    BY <2>2, Lengths
  <2> QED
    BY <2>1, <2>2
<1>8. CASE job.cmd = "upgrade"
  <2>1. /\ job.at = Len(Upgrade[r]) /\ Upgrading(r)
        /\ applied' = applied \union {r} /\ takenBack' = takenBack
    BY <1>1, <1>2, <1>8, RevisionNames DEF Stamp, InStep, JobFits, Script
  <2>2. ~takenBack \/ r # "view_count"
    BY <1>7, <2>1, RevisionNames DEF Upgrading
  <2>3. /\ HistoryFits' /\ MenuHeight' = (IF r = "menus" THEN 3 ELSE MenuHeight)
        /\ ~takenBack /\ r \in MainLine => Height' = LineEnd(r)
        /\ takenBack \/ r = "menus" => Height' = Height
    BY <1>2, <2>1, <2>2, HistoryAfterUpgrade
  <2>4. LinePlace' = n
    <3>1. LinePlace' = Height'
      BY <1>2, RevisionNames DEF LinePlace
    <3>2. r \in MainLine /\ ~takenBack => n = LineEnd(r)
      BY <1>1, <1>3, <1>6, <1>8, <2>1 DEF LinePlace, Reached
    <3>3. takenBack \/ r = "menus" => n = Height
      BY <1>1, <1>3, RevisionNames DEF LinePlace
    <3> QED
      BY <1>2, <2>3, <3>1, <3>2, <3>3, RevisionNames
  <2>5. MenuPlace' = m
    <3>1. MenuPlace' = MenuHeight'
      BY <1>2 DEF MenuPlace
    <3>2. r # "menus" => m = MenuHeight
      BY <1>1, <1>3 DEF MenuPlace
    <3>3. r = "menus" => m = 0 + job.at /\ job.at = 3
      BY <1>1, <1>3, <1>7, <1>8, <2>1 DEF MenuPlace, Reached
    <3> QED
      BY <2>3, <3>1, <3>2, <3>3
  <2>6. JobFits' /\ ~TakingAllBack'
    BY <1>2 DEF JobFits, TakingAllBack
  <2> QED
    BY <1>5, <2>3, <2>4, <2>5, <2>6, PlacesFit DEF InStep
<1>9. CASE job.cmd = "downgrade"
  <2>1. /\ job.at = Len(Downgrade[r]) /\ Downgrading(r) /\ r # "initial"
        /\ applied' = applied \ {r} /\ takenBack' = (takenBack \/ r = "view_count")
    BY <1>1, <1>2, <1>4, <1>9, RevisionNames DEF Stamp, InStep, JobFits, Script
  <2>2. /\ HistoryFits' /\ MenuHeight' = (IF r = "menus" THEN 0 ELSE MenuHeight)
        /\ r = "view_count" => Height' = 9
        /\ ~takenBack /\ r \in MainLine /\ r # "view_count" => Height' = LineStart[r]
        /\ r = "menus" => Height' = Height
    BY <1>2, <2>1, HistoryAfterDowngrade
  <2>3. r # "menus" => r \in MainLine /\ ~takenBack
    BY <1>1, <1>2, <1>9, <2>1, TakenBackRuns, RevisionNames DEF InStep, CannotRun
  <2>4. LinePlace' = n
    <3>1. LinePlace' = Height'
      BY <1>2, RevisionNames DEF LinePlace
    <3>2. CASE r = "menus"
      BY <1>1, <1>3, <2>2, <3>1, <3>2, RevisionNames DEF LinePlace
    <3>3. CASE r = "view_count"
      <4>1. n = LineEnd(r) - 4
        BY <1>1, <1>3, <1>7, <1>9, <2>1, <2>3, <3>3 DEF LinePlace, Reached
      <4> QED
        BY <2>2, <3>1, <3>3, <4>1, LineEnds
    <3>4. CASE r \notin {"menus", "view_count"}
      <4>1. n = LineEnd(r) - Len(Downgrade[r])
        BY <1>1, <1>3, <1>9, <2>1, <2>3, <3>4 DEF LinePlace, Reached
      <4> QED
        BY <1>6, <2>2, <2>3, <3>1, <3>4, <4>1
    <3> QED
      BY <3>2, <3>3, <3>4
  <2>5. MenuPlace' = m
    <3>1. MenuPlace' = MenuHeight'
      BY <1>2 DEF MenuPlace
    <3>2. r # "menus" => m = MenuHeight
      BY <1>1, <1>3 DEF MenuPlace
    <3>3. r = "menus" => m = 3 - job.at /\ job.at = 3
      BY <1>1, <1>3, <1>7, <1>9, <2>1 DEF MenuPlace, Reached
    <3> QED
      BY <2>2, <3>1, <3>2, <3>3
  <2>6. JobFits' /\ ~TakingAllBack'
    BY <1>2 DEF JobFits, TakingAllBack
  <2> QED
    BY <1>5, <2>2, <2>4, <2>5, <2>6, PlacesFit DEF InStep
<1> QED
  BY <1>2, <1>8, <1>9

-----------------------------------------------------------------------------
(* What the site's steps are to the migrations *)
MigrationMove ==
    \/ \E cmd \in {"upgrade", "downgrade"} : Command(cmd)
    \/ UpgradeDone
    \/ Alembic
    \/ Die

LEMMA SiteIsMigration ==
    ASSUME [SiteNext]_siteVars
    PROVE  /\ MigrationMove \/ UNCHANGED job
           /\ ~dirty' /\ ~synced' =>
                 /\ ~dirty /\ ~synced
                 /\ MigrationMove \/ UNCHANGED <<schema, applied, job, takenBack>>
<1>1. CASE \E cmd \in {"upgrade", "downgrade"} : ByHand(cmd)
  BY <1>1 DEF ByHand, Command, servers, MigrationMove
<1>2. CASE ByHandDone \/ ExecUvicorn
  BY <1>2 DEF ByHandDone, ExecUvicorn, UpgradeDone, servers, MigrationMove
<1>3. CASE Migrate
  <2>1. Alembic => UNCHANGED dirty
    BY DEF Alembic, BeginRevision, Statement, Stamp
  <2> QED
    BY <1>3, <2>1 DEF Migrate, servers, MigrationMove
<1>4. CASE Abort
  BY <1>4 DEF Abort, Die, MigrationMove
<1>5. CASE StartMigrating
  BY <1>5 DEF StartMigrating, Command, MigrationMove
<1>6. CASE \E m \in {"sync", "skip"} : \E ws \in SUBSET Worker : StartWithout(m, ws)
  BY <1>6 DEF StartWithout, migrations
<1>7. CASE Down
  BY <1>7 DEF Down
<1>8. CASE \E w \in Worker : ServerMove(w)
  BY <1>8 DEF ServerMove, Lifespan, SyncStep, SyncDone, Restart, migrations
<1>9. CASE UNCHANGED schemaVars
  BY <1>9 DEF schemaVars, migrations, servers
<1> QED
  BY <1>1, <1>2, <1>3, <1>4, <1>5, <1>6, <1>7, <1>8, <1>9, SiteMoves DEF SchemaMove

LEMMA JobStays ==
    ASSUME JobOK, MigrationMove \/ UNCHANGED job
    PROVE  JobOK'
<1>1. CASE UNCHANGED job
  BY <1>1 DEF JobOK
<1>2. CASE \E cmd \in {"upgrade", "downgrade"} : Command(cmd)
  BY <1>2 DEF Command, NoJob, JobOK
<1>3. CASE UpgradeDone \/ Die
  BY <1>3 DEF UpgradeDone, Die, NoJob, JobOK
<1>4. CASE \E r \in Revision : BeginRevision(r)
  BY <1>4 DEF BeginRevision, JobOK
<1>5. CASE Statement
  BY <1>5 DEF Statement, JobOK
<1>6. CASE Stamp
  BY <1>6 DEF Stamp, NoJob, JobOK
<1> QED
  BY <1>1, <1>2, <1>3, <1>4, <1>5, <1>6 DEF MigrationMove, Alembic

LEMMA MigrationInvKept == MigrationInv /\ [SiteNext]_siteVars => MigrationInv'
<1> SUFFICES ASSUME MigrationInv, [SiteNext]_siteVars PROVE MigrationInv'
  OBVIOUS
<1>1. JobOK /\ JobOK'
  BY JobStays, SiteIsMigration DEF MigrationInv
<1>2. ASSUME ~dirty', ~synced' PROVE InStep'
  <2>1. InStep /\ (MigrationMove \/ UNCHANGED <<schema, applied, job, takenBack>>)
    BY <1>2, SiteIsMigration DEF MigrationInv
  <2>2. CASE UNCHANGED <<schema, applied, job, takenBack>>
    BY <2>1, <2>2 DEF schema, InStep, HistoryFits, JobFits, Upgrading, Downgrading, TakingAllBack,
       StuckAtAuthors, SchemaFits, Fits, TableFits, LinePlace, MenuPlace, MenuHeight, Height,
       Reached
  <2>3. CASE (\E cmd \in {"upgrade", "downgrade"} : Command(cmd)) \/ UpgradeDone
    <3>1. job.at = 0 /\ job'.rev = "none" /\ UNCHANGED <<schema, applied, takenBack>>
      BY <2>3 DEF Command, UpgradeDone, AtHead, NoJob
    <3> QED
      BY <1>1, <2>1, <3>1, NewJob
  <2>4. CASE \E r \in Revision : BeginRevision(r)
    BY <1>1, <2>1, <2>4, BeginKeeps
  <2>5. CASE Statement
    BY <1>1, <2>1, <2>5, StatementKeeps
  <2>6. CASE Stamp
    BY <1>1, <2>1, <2>6, StampKeeps
  <2>7. CASE Die
    <3>1. ~(job.at > 0)
      BY <1>2, <2>7 DEF Die
    <3>2. job.at = 0 /\ job'.rev = "none" /\ UNCHANGED <<schema, applied, takenBack>>
      BY <1>1, <2>7, <3>1 DEF Die, NoJob, JobOK
    <3> QED
      BY <1>1, <2>1, <3>2, NewJob
  <2> QED
    BY <2>1, <2>2, <2>3, <2>4, <2>5, <2>6, <2>7 DEF MigrationMove, Alembic
<1> QED
  BY <1>1, <1>2 DEF MigrationInv

LEMMA MigrationInvFirst == SiteInit => MigrationInv
<1> SUFFICES ASSUME SiteInit PROVE MigrationInv
  OBVIOUS
<1>1. tables = << >> /\ keys = {} /\ applied = {} /\ job = NoJob /\ takenBack = FALSE
  BY DEF SiteInit, InitSchema
<1>2. LinePlace = 0 /\ MenuPlace = 0
  BY <1>1, RevisionNames DEF LinePlace, MenuPlace, MenuHeight, Height, Climbed, NoJob
<1>3. Fits(0, 0)
  BY <1>1 DEF Fits, IsFunction, LineTables, MenuTables, LineKeys, MenuKeys, From
<1>4. HistoryFits /\ JobFits /\ ~TakingAllBack
  BY <1>1 DEF HistoryFits, JobFits, TakingAllBack, NoJob
<1>5. JobOK
  BY <1>1 DEF JobOK, NoJob
<1> QED
  BY <1>2, <1>3, <1>4, <1>5 DEF MigrationInv, InStep, SchemaFits

LEMMA MigrationInvAlways == SiteSpec => []MigrationInv
  BY MigrationInvFirst, MigrationInvKept, PTL DEF SiteSpec

(* alembic/versions and env.py: whatever the history a database took, every  *)
(* statement of every revision finds the schema it was written for, unless a *)
(* command was killed inside a revision, the server synchronised, or the     *)
(* script is one of the two that cannot run.                                *)
THEOREM CommandsFailOnlyForCause == SiteSpec => []CommandsFailForCause
<1>1. MigrationInv => CommandsFailForCause
  <2> SUFFICES ASSUME MigrationInv, Blocked, ~dirty, ~synced, ~CannotRun PROVE FALSE
    BY DEF CommandsFailForCause, CannotRun
  <2>1. JobOK /\ InStep /\ job.rev # "none" /\ job.at < Len(Script)
    BY DEF MigrationInv, Blocked
  <2>2. PICK n, m, s : n = LinePlace /\ m = MenuPlace /\ s = Script[job.at + 1]
    OBVIOUS
  <2>3. Fits(n, m)
    BY <2>1, <2>2 DEF InStep, SchemaFits, TakingAllBack, CannotRun
  <2>4. Applies(s)
    BY <2>1, <2>2, <2>3, EveryStatementLeads DEF StatementLeads, Leads, MenuLeads
  <2> QED
    BY <2>2, <2>4 DEF Blocked
<1> QED
  BY <1>1, MigrationInvAlways, PTL

(* alembic's env.py: between two revisions alembic_version tells the schema,  *)
(* whatever way of upgrades and downgrades led there.  The schema is that of *)
(* a place on each line, which the revisions applied determine; of the first *)
(* names of four columns, which downgrades give back with other attributes,  *)
(* only that they are there.                                                *)
THEOREM SchemaFollowsHistory ==
    SiteSpec => [](job.at = 0 /\ ~dirty /\ ~synced => Fits(Height, MenuHeight))
<1>1. MigrationInv => (job.at = 0 /\ ~dirty /\ ~synced => Fits(Height, MenuHeight))
  <2> SUFFICES ASSUME MigrationInv, job.at = 0, ~dirty, ~synced
               PROVE  Fits(Height, MenuHeight)
    OBVIOUS
  <2>1. JobOK /\ InStep
    BY DEF MigrationInv
  <2> QED
    BY <2>1, BetweenStatements DEF InStep, SchemaFits
<1> QED
  BY <1>1, MigrationInvAlways, PTL

(* The schema at the end of both lines *)
TableIsModel(t, model) ==
    /\ IsFunction(model) /\ DOMAIN model = ColumnsAt(48, t)
    /\ ColumnsAt(48, t) \intersect FirstNames = {}
    /\ \A c \in ColumnsAt(48, t) : model[c] = AttributesAt(48, t, c)

LEMMA HeadTable ==
    ASSUME NEW t, NEW model, TableIsModel(t, model), TableFits(48, t)
    PROVE  tables[t] = model
<1>1. \A c \in ColumnsAt(48, t) : tables[t][c] = model[c]
  BY DEF TableIsModel, TableFits
<1> QED
  BY <1>1 DEF TableIsModel, TableFits, IsFunction

LEMMA HeadModels ==
    /\ TableIsModel("users", UserTable) /\ TableIsModel("posts", PostTable)
    /\ TableIsModel("comments", CommentTable) /\ TableIsModel("posts_like", PostLikeTable)
    /\ TableIsModel("posts_image", PostImageTable)
<1> USE DEF ColumnsAt, FirstNames, From, Until, Named
<1>1. TableIsModel("users", UserTable)
  <2>1. IsFunction(UserTable)
    BY DEF IsFunction, UserTable, Timed, Mixed
  <2>2. DOMAIN UserTable = ColumnsAt(48, "users")
    BY DEF UserTable, Timed, Mixed, TimestampMixin
  <2>3. \A c \in ColumnsAt(48, "users") : UserTable[c] = AttributesAt(48, "users", c)
    BY DEF UserTable, Timed, Mixed, TimestampMixin,
       AttributesAt
  <2>4. ColumnsAt(48, "users") \intersect FirstNames = {}
    OBVIOUS
  <2> QED
    BY <2>1, <2>2, <2>3, <2>4 DEF TableIsModel
<1>2. TableIsModel("posts", PostTable)
  <2>1. IsFunction(PostTable)
    BY DEF IsFunction, PostTable, Kept, Mixed
  <2>2. DOMAIN PostTable = ColumnsAt(48, "posts")
    BY DEF PostTable, Kept, Timed, Mixed, TimestampMixin, SoftDeleteMixin
  <2>3. \A c \in ColumnsAt(48, "posts") : PostTable[c] = AttributesAt(48, "posts", c)
    <3> DEFINE at(c) == AttributesAt(48, "posts", c)
    <3>1. /\ PostTable["created_at"] = {"default", "comment"}
          /\ PostTable["updated_at"] = {"default", "comment"}
          /\ PostTable["deleted_at"] = {"comment"} /\ PostTable["post_id"] = {"auto"}
          /\ PostTable["post_title"] = {} /\ PostTable["post_content"] = {}
          /\ PostTable["author_id"] = {}
          /\ PostTable["post_view_count"] = {} /\ PostTable["post_status"] = {"default"}
          /\ PostTable["post_is_notice"] = {"default"}
      BY DEF PostTable, Kept, Timed, Mixed, TimestampMixin, SoftDeleteMixin
    <3>2. /\ at("created_at") = {"default", "comment"}
          /\ at("updated_at") = {"default", "comment"}
          /\ at("deleted_at") = {"comment"} /\ at("post_id") = {"auto"}
          /\ at("post_title") = {} /\ at("post_content") = {} /\ at("author_id") = {}
          /\ at("post_view_count") = {} /\ at("post_status") = {"default"}
          /\ at("post_is_notice") = {"default"}
      BY DEF AttributesAt
    <3>3. ColumnsAt(48, "posts") =
             {"created_at", "updated_at", "deleted_at", "post_id", "post_title", "post_content",
              "author_id", "post_view_count", "post_status", "post_is_notice"}
      OBVIOUS
    <3> HIDE DEF at, ColumnsAt
    <3>4. \A c \in ColumnsAt(48, "posts") : PostTable[c] = at(c)
      BY <3>1, <3>2, <3>3
    <3> QED
      BY <3>4 DEF at
  <2>4. ColumnsAt(48, "posts") \intersect FirstNames = {}
    OBVIOUS
  <2> QED
    BY <2>1, <2>2, <2>3, <2>4 DEF TableIsModel
<1>3. TableIsModel("comments", CommentTable)
  <2>1. IsFunction(CommentTable)
    BY DEF IsFunction, CommentTable, Kept, Mixed
  <2>2. DOMAIN CommentTable = ColumnsAt(48, "comments")
    BY DEF CommentTable, Kept, Timed, Mixed, TimestampMixin, SoftDeleteMixin
  <2>3. \A c \in ColumnsAt(48, "comments") : CommentTable[c] = AttributesAt(48, "comments", c)
    BY DEF CommentTable, Kept, Timed, Mixed, TimestampMixin, SoftDeleteMixin,
       AttributesAt
  <2>4. ColumnsAt(48, "comments") \intersect FirstNames = {}
    OBVIOUS
  <2> QED
    BY <2>1, <2>2, <2>3, <2>4 DEF TableIsModel
<1>4. TableIsModel("posts_like", PostLikeTable)
  <2>1. IsFunction(PostLikeTable)
    BY DEF IsFunction, PostLikeTable, Timed, Mixed
  <2>2. DOMAIN PostLikeTable = ColumnsAt(48, "posts_like")
    BY DEF PostLikeTable, Timed, Mixed, TimestampMixin
  <2>3. \A c \in ColumnsAt(48, "posts_like") : PostLikeTable[c] = AttributesAt(48, "posts_like", c)
    BY DEF PostLikeTable, Timed, Mixed, TimestampMixin,
       AttributesAt
  <2>4. ColumnsAt(48, "posts_like") \intersect FirstNames = {}
    OBVIOUS
  <2> QED
    BY <2>1, <2>2, <2>3, <2>4 DEF TableIsModel
<1>5. TableIsModel("posts_image", PostImageTable)
  <2>1. IsFunction(PostImageTable)
    BY DEF IsFunction, PostImageTable, Timed, Mixed
  <2>2. DOMAIN PostImageTable = ColumnsAt(48, "posts_image")
    BY DEF PostImageTable, Timed, Mixed, TimestampMixin
  <2>3. \A c \in ColumnsAt(48, "posts_image") :
           PostImageTable[c] = AttributesAt(48, "posts_image", c)
    BY DEF PostImageTable, Timed, Mixed, TimestampMixin,
       AttributesAt
  <2>4. ColumnsAt(48, "posts_image") \intersect FirstNames = {}
    OBVIOUS
  <2> QED
    BY <2>1, <2>2, <2>3, <2>4 DEF TableIsModel
<1> QED
  BY <1>1, <1>2, <1>3, <1>4, <1>5

LEMMA HeadTables ==
    ASSUME Fits(48, 3)
    PROVE  tables = [t \in DOMAIN ModelTables \ InNoMigration |-> ModelTables[t]]
<1>1. LineTables(48) = {"users", "posts", "comments", "posts_like", "posts_image"}
  BY DEF LineTables, From
<1>2. DOMAIN ModelTables \ InNoMigration = LineTables(48) \union {"menus"}
  BY <1>1 DEF ModelTables, InNoMigration
<1>3. /\ DOMAIN tables = LineTables(48) \union {"menus"} /\ IsFunction(tables)
      /\ tables["menus"] = MenuTable /\ \A t \in LineTables(48) : TableFits(48, t)
  BY DEF Fits, MenuTables, From
<1>4. /\ tables["users"] = UserTable /\ tables["posts"] = PostTable
      /\ tables["comments"] = CommentTable /\ tables["posts_like"] = PostLikeTable
      /\ tables["posts_image"] = PostImageTable
  BY <1>1, <1>3, HeadModels, HeadTable
<1>5. \A t \in DOMAIN tables : tables[t] = ModelTables[t]
  BY <1>1, <1>3, <1>4 DEF ModelTables
<1> QED
  BY <1>2, <1>3, <1>5 DEF IsFunction

LEMMA HeadKeys == LineKeys(48) \union MenuKeys(3) = {k \in ModelKeys : k[2] \notin InNoMigration}
  BY DEF LineKeys, MenuKeys, From, ModelKeys, Indexed, InNoMigration,
     CommentsFk, CommentAuthorFk, PostAuthorFk

(* A database at head has the models' schema but for the two tables without  *)
(* a migration, whichever branch of the history it climbed first and         *)
(* whatever it took back on the way.                                       *)
THEOREM HeadIsTheModels == SiteSpec => []HeadIsModels
<1>1. MigrationInv => HeadIsModels
  <2> SUFFICES ASSUME MigrationInv, job = NoJob, applied = Revision, ~dirty, ~synced
               PROVE  /\ tables = [t \in DOMAIN ModelTables \ InNoMigration |-> ModelTables[t]]
                      /\ keys = {k \in ModelKeys : k[2] \notin InNoMigration}
    BY DEF HeadIsModels
  <2>1. InStep /\ job.rev = "none" /\ job.at = 0
    BY DEF MigrationInv, NoJob
  <2>2. LinePlace = 48 /\ MenuPlace = 3
    BY <2>1, RevisionNames DEF InStep, HistoryFits, LinePlace, MenuPlace, MenuHeight, Height,
       Climbed
  <2>3. Fits(48, 3)
    BY <2>1, <2>2 DEF InStep, SchemaFits, TakingAllBack
  <2> QED
    BY <2>3, HeadTables, HeadKeys DEF Fits
<1> QED
  BY <1>1, MigrationInvAlways, PTL

-----------------------------------------------------------------------------
(***************************************************************************)
(* Uploads.                                                               *)
(***************************************************************************)
Ended == {"created", "failed", "killed"}

UploadTypeOK ==
    /\ up \in [Upload -> Step \union Ended \union {"idle", "refused"}]
    /\ post \in [Upload -> Row \union {0}]
    /\ objects \subseteq Upload \X Part
    /\ images \subseteq Upload
    /\ late \subseteq Upload
    /\ gaveUp \subseteq Upload

Rowed == {"sign", "created"}
Thumbed == Rowed \union {"insert", "commit"}
Contented == Thumbed \union {"thumbnail"}
Begun == Contented \union {"content"}

(* The objects a request has stored by the step it is at.                   *)
ObjectsFollow(u) ==
    /\ up[u] \in Begun => <<u, "original">> \in objects
    /\ up[u] \in Contented => <<u, "content">> \in objects
    /\ up[u] \in Thumbed => <<u, "thumbnail">> \in objects
    /\ up[u] \in {"idle", "refused"} => \A p \in Part : <<u, p>> \notin objects
    /\ u \in images => \A p \in Part : <<u, p>> \in objects

(* When there is a row.                                                     *)
RowFollows(u) ==
    /\ up[u] \in Rowed => u \in images
    /\ u \in images => up[u] \in Rowed \/ (up[u] \in Ended /\ u \in late)

(* A picture is sent again only after a failure or out of impatience.        *)
SentInTurn(u) ==
    up[u] # "idle" =>
        \A v \in Upload : v < u => up[v] \in {"failed", "killed"} \/ v \in gaveUp

UploadInv == UploadTypeOK /\ \A u \in Upload : ObjectsFollow(u) /\ RowFollows(u) /\ SentInTurn(u)

(* What a step of the site is to the uploads.                               *)
StorageStep ==
    \/ UNCHANGED storage
    \/ \E S \in SUBSET InFlight : Kill(S)
    \/ \E u \in Upload : (\E r \in Row : Open(u, r)) \/ UploadStep(u) \/ GiveUp(u)

-----------------------------------------------------------------------------
LEMMA SiteIsStorage == [SiteNext]_siteVars => StorageStep
<1> SUFFICES ASSUME [SiteNext]_siteVars PROVE StorageStep
  OBVIOUS
<1>1. CASE UNCHANGED siteVars
  BY <1>1 DEF siteVars, boardVars, StorageStep
<1>2. CASE SchemaStep
  BY <1>2 DEF SchemaStep, Outside, boardVars, StorageStep
<1>3. CASE ServerStep
  <2>1. CASE Outside
    BY <2>1 DEF Outside, boardVars, StorageStep
  <2>2. CASE InFlightEnds
    BY <2>2 DEF InFlightEnds, StorageStep
  <2>3. QED BY <1>3, <2>1, <2>2 DEF ServerStep
<1>4. CASE OpenPages \/ OpenImages \/ PagesStep
  BY <1>4 DEF OpenPages, OpenImages, PagesStep, boardVars, StorageStep
<1>5. CASE ImagesStep
  BY <1>5 DEF ImagesStep, Post, StorageStep
<1>6. QED BY <1>1, <1>2, <1>3, <1>4, <1>5 DEF SiteNext

LEMMA UploadTypes == UploadTypeOK /\ StorageStep => UploadTypeOK'
<1> SUFFICES ASSUME UploadTypeOK, StorageStep PROVE UploadTypeOK'
  OBVIOUS
<1> USE DEF UploadTypeOK, Ended
<1>1. CASE UNCHANGED storage
  BY <1>1 DEF storage
<1>2. ASSUME NEW S \in SUBSET InFlight, Kill(S) PROVE UploadTypeOK'
  BY <1>2 DEF Kill, InFlight
<1>3. ASSUME NEW u \in Upload, NEW r \in Row, Open(u, r) PROVE UploadTypeOK'
  BY <1>3 DEF Open, Goes, Step, Part
<1>4. ASSUME NEW u \in Upload, UploadStep(u) PROVE UploadTypeOK'
  <2>1. ASSUME NEW p \in Part, Put(u, p) \/ PutFails(u, p) PROVE UploadTypeOK'
    BY <2>1 DEF Put, PutFails, Goes, Then, Step, Part
  <2>2. CASE add_image(u) \/ AddFails(u)
    BY <2>2 DEF add_image, AddFails, Goes, Then, Step
  <2>3. CASE CommitImage(u) \/ CommitFails(u)
    BY <2>3 DEF CommitImage, CommitFails, Goes, Then, Step
  <2>4. CASE Sign(u) \/ SignFails(u)
    BY <2>4 DEF Sign, SignFails, Goes, Then, Step
  <2>5. QED BY <1>4, <2>1, <2>2, <2>3, <2>4 DEF UploadStep
<1>5. ASSUME NEW u \in Upload, GiveUp(u) PROVE UploadTypeOK'
  BY <1>5 DEF GiveUp
<1>6. QED BY <1>1, <1>2, <1>3, <1>4, <1>5 DEF StorageStep

-----------------------------------------------------------------------------
(* A step of one request leaves what is known of the others.                 *)
LEMMA OthersKept ==
  ASSUME UploadInv, NEW u \in Upload, NEW v \in Upload, u # v, NEW s,
         up' = [up EXCEPT ![u] = s],
         objects \subseteq objects',
         \A p \in Part : <<v, p>> \in objects' => <<v, p>> \in objects,
         v \in images' <=> v \in images,
         v \in late => v \in late'
  PROVE  ObjectsFollow(v)' /\ RowFollows(v)'
<1>1. up'[v] = up[v]
  BY DEF UploadInv, UploadTypeOK
<1>2. ObjectsFollow(v)'
  BY <1>1 DEF UploadInv, ObjectsFollow, Part
<1>3. RowFollows(v)'
  BY <1>1 DEF UploadInv, RowFollows
<1>4. QED BY <1>2, <1>3

(* Nor does it disturb the order the picture was sent in, unless it sends.   *)
LEMMA OrderKept ==
  ASSUME UploadInv, NEW u \in Upload, NEW s, up[u] \in Step,
         up' = [up EXCEPT ![u] = s], gaveUp' = gaveUp,
         NEW v \in Upload
  PROVE  SentInTurn(v)'
<1>1. \A q \in Upload : up[q] \in {"failed", "killed"} => up'[q] = up[q]
  BY DEF UploadInv, UploadTypeOK, Step, Part
<1>2. up[v] = "idle" => up'[v] = "idle"
  BY DEF UploadInv, UploadTypeOK, Step, Part
<1>3. QED BY <1>1, <1>2 DEF UploadInv, SentInTurn

LEMMA OneRequestKept ==
  ASSUME UploadInv, NEW u \in Upload, UploadStep(u)
  PROVE  /\ ObjectsFollow(u)' /\ RowFollows(u)'
         /\ \A v \in Upload \ {u} : ObjectsFollow(v)' /\ RowFollows(v)'
         /\ \A v \in Upload : SentInTurn(v)'
<1> USE DEF Goes
<1>t. up \in [Upload -> Step \union Ended \union {"idle", "refused"}]
  BY DEF UploadInv, UploadTypeOK
<1>f. ObjectsFollow(u) /\ RowFollows(u)
  BY DEF UploadInv
<1>1. ASSUME NEW p \in Part, Put(u, p)
      PROVE  ObjectsFollow(u)' /\ RowFollows(u)'
  BY <1>1, <1>t, <1>f DEF Put, Then, Part, ObjectsFollow, RowFollows, Begun, Contented, Thumbed, Rowed, Ended
<1>2. ASSUME NEW p \in Part, PutFails(u, p)
      PROVE  ObjectsFollow(u)' /\ RowFollows(u)'
  BY <1>2, <1>t, <1>f DEF PutFails, Part, ObjectsFollow, RowFollows, Begun, Contented, Thumbed, Rowed, Ended
<1>3. CASE add_image(u) \/ AddFails(u)
  <2>1. ObjectsFollow(u)' /\ RowFollows(u)'
    BY <1>3, <1>t, <1>f DEF add_image, AddFails, Then, ObjectsFollow, RowFollows, Begun, Contented, Thumbed, Rowed, Ended
  <2>2. QED BY <1>3, <2>1, OthersKept, OrderKept DEF add_image, AddFails, Step
<1>4. CASE CommitImage(u) \/ CommitFails(u)
  <2>1. ObjectsFollow(u)' /\ RowFollows(u)'
    BY <1>4, <1>t, <1>f DEF CommitImage, CommitFails, Then, Part, ObjectsFollow, RowFollows, Begun, Contented, Thumbed, Rowed, Ended
  <2>2. QED BY <1>4, <2>1, OthersKept, OrderKept DEF CommitImage, CommitFails, Step
<1>5. CASE Sign(u) \/ SignFails(u)
  <2>1. ObjectsFollow(u)' /\ RowFollows(u)'
    BY <1>5, <1>t, <1>f DEF Sign, SignFails, Then, ObjectsFollow, RowFollows, Begun, Contented, Thumbed, Rowed, Ended
  <2>2. QED BY <1>5, <2>1, OthersKept, OrderKept DEF Sign, SignFails, Step
<1>6. CASE \E p \in Part : Put(u, p) \/ PutFails(u, p)
  <2> PICK p \in Part : Put(u, p) \/ PutFails(u, p)
    BY <1>6
  <2>1. ObjectsFollow(u)' /\ RowFollows(u)'
    BY <1>1, <1>2
  <2>2. up[u] \in Step /\ gaveUp' = gaveUp /\ \E s : up' = [up EXCEPT ![u] = s]
    BY DEF Put, PutFails, Step
  <2>3. /\ objects \subseteq objects' /\ images' = images /\ late' = late
        /\ \A v \in Upload \ {u}, q \in Part : <<v, q>> \in objects' => <<v, q>> \in objects
    BY DEF Put, PutFails
  <2>4. QED BY <2>1, <2>2, <2>3, OthersKept, OrderKept
<1>7. QED BY <1>3, <1>4, <1>5, <1>6 DEF UploadStep

LEMMA UploadInvKept == UploadInv /\ StorageStep => UploadInv'
<1> SUFFICES ASSUME UploadInv, StorageStep PROVE UploadInv'
  OBVIOUS
<1>t. UploadTypeOK'
  BY UploadTypes DEF UploadInv
<1>1. CASE UNCHANGED storage
  BY <1>1, <1>t DEF storage, UploadInv, ObjectsFollow, RowFollows, SentInTurn
<1>2. ASSUME NEW S \in SUBSET InFlight, Kill(S), NEW u \in Upload
      PROVE  ObjectsFollow(u)' /\ RowFollows(u)' /\ SentInTurn(u)'
  <2>1. up'[u] = IF u \in S THEN "killed" ELSE up[u]
    BY <1>2 DEF Kill
  <2>2. u \in S => up[u] \in Step
    BY <1>2 DEF InFlight
  <2>3. ObjectsFollow(u) /\ RowFollows(u) /\ SentInTurn(u)
    BY DEF UploadInv
  <2>4. ObjectsFollow(u)'
    BY <1>2, <2>1, <2>2, <2>3 DEF Kill, ObjectsFollow, Begun, Contented, Thumbed, Rowed
  <2>5. RowFollows(u)'
    BY <1>2, <2>1, <2>2, <2>3 DEF Kill, RowFollows, Rowed, Ended, Step, Part
  <2>6. \A v \in Upload : up[v] \in {"failed", "killed"} => up'[v] \in {"failed", "killed"}
    BY <1>2 DEF Kill
  <2>7. SentInTurn(u)'
    BY <1>2, <2>1, <2>2, <2>3, <2>6 DEF Kill, SentInTurn, Step, Part
  <2>8. QED BY <2>4, <2>5, <2>7
<1>3. ASSUME NEW u \in Upload, NEW r \in Row, Open(u, r), NEW v \in Upload
      PROVE  ObjectsFollow(v)' /\ RowFollows(v)' /\ SentInTurn(v)'
  <2>1. up[u] = "idle" /\ \E s \in {"original", "refused"} : up' = [up EXCEPT ![u] = s]
    BY <1>3 DEF Open, Goes
  <2>2. PICK s \in {"original", "refused"} : up' = [up EXCEPT ![u] = s]
    BY <2>1
  <2>3. UNCHANGED <<objects, images, late, gaveUp>>
    BY <1>3 DEF Open
  <2>4. \A q \in Upload : up'[q] = IF q = u THEN s ELSE up[q]
    BY <2>2 DEF UploadInv, UploadTypeOK
  <2>5. ObjectsFollow(v)'
    BY <2>1, <2>3, <2>4 DEF UploadInv, ObjectsFollow, Begun, Contented, Thumbed, Rowed
  <2>6. RowFollows(v)'
    BY <2>1, <2>3, <2>4 DEF UploadInv, RowFollows, Rowed, Ended
  <2>7. SentInTurn(v)'
    BY <1>3, <2>1, <2>3, <2>4 DEF UploadInv, SentInTurn, Open
  <2>8. QED BY <2>5, <2>6, <2>7
<1>4. ASSUME NEW u \in Upload, UploadStep(u) PROVE UploadInv'
  BY <1>4, <1>t, OneRequestKept DEF UploadInv
<1>5. ASSUME NEW u \in Upload, GiveUp(u), NEW v \in Upload
      PROVE  ObjectsFollow(v)' /\ RowFollows(v)' /\ SentInTurn(v)'
  BY <1>5 DEF GiveUp, UploadInv, ObjectsFollow, RowFollows, SentInTurn
<1>6. QED BY <1>t, <1>1, <1>2, <1>3, <1>4, <1>5 DEF StorageStep, UploadInv

LEMMA UploadInvFirst == SiteInit => UploadInv
<1> SUFFICES ASSUME SiteInit PROVE UploadInv
  OBVIOUS
<1>1. InitImages
  BY DEF SiteInit
<1>2. UploadTypeOK
  BY <1>1 DEF InitImages, UploadTypeOK
<1>3. QED
  BY <1>1, <1>2 DEF InitImages, UploadInv, ObjectsFollow, RowFollows, SentInTurn,
     Begun, Contented, Thumbed, Rowed

LEMMA UploadInvAlways == SiteSpec => []UploadInv
<1>1. UploadInv /\ [SiteNext]_siteVars => UploadInv'
  BY SiteIsStorage, UploadInvKept
<1>2. QED BY <1>1, UploadInvFirst, PTL DEF SiteSpec

-----------------------------------------------------------------------------
(* The requests, the bucket and the table keep their types: upload_image     *)
(* and whatever ends the server.                                           *)
THEOREM UploadTypesCorrect == SiteSpec => []UploadTypeOK
<1>1. UploadInv => UploadTypeOK
  BY DEF UploadInv
<1>2. QED BY <1>1, UploadInvAlways, PTL

(* list_images never signs a URL for an object that is not there, however    *)
(* many uploads fail, are killed with the server or are sent again.         *)
THEOREM NoBrokenImage == SiteSpec => []ListedImagesExist
<1>1. UploadInv => ListedImagesExist
  <2> SUFFICES ASSUME UploadInv, NEW u \in images
               PROVE  {u} \X Part \subseteq objects
    BY DEF ListedImagesExist, list_images
  <2>1. \A p \in Part : <<u, p>> \in objects
    BY DEF UploadInv, UploadTypeOK, ObjectsFollow
  <2>2. QED BY <2>1
<1>2. QED BY <1>1, UploadInvAlways, PTL

(* What upload_image answers is so, and an attempt that failed before its    *)
(* commit left no row.                                                     *)
THEOREM UploadAnswersAreTrue == SiteSpec => []AnswersAreTrue
<1>1. UploadInv => AnswersAreTrue
  BY DEF UploadInv, AnswersAreTrue, ObjectsFollow, RowFollows, Rowed, Ended
<1>2. QED BY <1>1, UploadInvAlways, PTL

(* Sending a picture until upload_image succeeds stores it once, but for     *)
(* failures at the commit or later and clients that do not wait.            *)
THEOREM RetriesStoreOnce == SiteSpec => []OnePictureOneRow
<1>1. UploadInv => OnePictureOneRow
  <2> SUFFICES ASSUME UploadInv, late = {}, gaveUp = {},
                      NEW u \in images, NEW v \in images, u < v
               PROVE  FALSE
    BY DEF OnePictureOneRow, UploadInv, UploadTypeOK, Upload
  <2>1. u \in Upload /\ v \in Upload
    BY DEF UploadInv, UploadTypeOK
  <2>2. up[u] \in Rowed /\ up[v] \in Rowed
    BY <2>1 DEF UploadInv, RowFollows
  <2>3. QED BY <2>1, <2>2 DEF UploadInv, SentInTurn, Rowed
<1>2. QED BY <1>1, UploadInvAlways, PTL

-----------------------------------------------------------------------------
(***************************************************************************)
(* Lists, page by page.                                                   *)
(*                                                                        *)
(* The argument: how many rows are ahead of a row says on which page it is.*)
(* While nothing leaves, a row not shown yet has every page read so far   *)
(* ahead of it, so the total of the last answer counts a further page.    *)
(* While nothing enters, a row already shown has less than that ahead of it,*)
(* so the next page does not reach it.                                    *)
(***************************************************************************)
RowsTypeOK ==
    /\ kind \in Kind
    /\ row \in [Row -> {"none", "pending", "listed", "gone"}]
    /\ second \in [Row -> Nat]

WalkTypeOK ==
    /\ RowsTypeOK
    /\ size \in Nat \ {0}
    /\ page \in Nat /\ pages \in Nat
    /\ base \subseteq Row /\ seen \subseteq Row
    /\ twice \in BOOLEAN /\ entered \in BOOLEAN /\ left \in BOOLEAN

(* The order without its ties, which is all there is to it unless Tied.      *)
Newer(q, r) ==
    CASE kind = "posts" -> q > r
      [] kind = "comments" -> second[q] > second[r] \/ (second[q] = second[r] /\ q > r)
      [] kind = "reports" -> second[q] > second[r]

NewerThan(r) == {q \in Listed : Newer(q, r)}

OnlyPages == /\ page = 0 => seen = {} /\ ~twice
             /\ page > 0 => board = "pages"

NothingPassedBy ==
    page > 0 /\ ~left /\ ~Tied =>
        /\ base \subseteq Listed
        /\ \A r \in base \ seen : Cardinality(NewerThan(r)) >= page * size /\ pages > page

NothingComesBack ==
    page > 0 /\ ~entered /\ ~Tied =>
        \A r \in seen \intersect Listed : Cardinality(NewerThan(r)) < page * size

WalkInv ==
    WalkTypeOK /\ OnlyPages /\ NothingPassedBy /\ NothingComesBack /\ NothingTwiceWithoutCreation

-----------------------------------------------------------------------------
LEMMA CountsAreOrdered ==
  ASSUME NEW T \in SUBSET Row, NEW S \in SUBSET T
  PROVE  /\ Cardinality(S) \in Nat /\ Cardinality(T) \in Nat
         /\ Cardinality(S) <= Cardinality(T)
         /\ \A r \in T \ S : Cardinality(S) < Cardinality(T)
<1>1. IsFiniteSet(Row)
  BY FS_Interval, RowsAssumption DEF Row
<1>2. IsFiniteSet(T)
  BY <1>1, FS_Subset
<1>3. /\ IsFiniteSet(S) /\ Cardinality(S) <= Cardinality(T)
      /\ Cardinality(S) = Cardinality(T) => S = T
  BY <1>2, FS_Subset
<1>4. Cardinality(S) \in Nat /\ Cardinality(T) \in Nat
  BY <1>2, <1>3, FS_CardinalityType
<1>5. ASSUME NEW r \in T \ S PROVE S # T
  BY <1>5
<1>6. QED BY <1>3, <1>4, <1>5

LEMMA QuotientRoundsDown ==
  ASSUME NEW a \in Nat, NEW s \in Nat \ {0}, NEW d, d = a \div s
  PROVE  d \in Nat /\ a < (d + 1) * s
OBVIOUS

(* A total that exceeds so many full pages makes one page more.              *)
LEMMA OnePageMore ==
  ASSUME NEW n \in Nat, NEW s \in Nat \ {0}, NEW p \in Nat, n > p * s
  PROVE  (n + s - 1) \div s > p
<1>1. PICK d : d = (n + s - 1) \div s
  OBVIOUS
<1>2. n + s - 1 \in Nat
  OBVIOUS
<1>3. d \in Nat /\ n + s - 1 < (d + 1) * s
  BY <1>1, <1>2, QuotientRoundsDown
<1>4. (p + 1) * s = p * s + s /\ p * s \in Nat
  OBVIOUS
<1>5. ASSUME d <= p PROVE (d + 1) * s <= (p + 1) * s
  BY <1>3, <1>5
<1>6. d > p
  <2>1. (d + 1) * s \in Nat
    BY <1>3
  <2>2. QED BY <1>3, <1>4, <1>5, <2>1
<1>7. QED BY <1>1, <1>6

LEMMA TiesDecideNothing ==
  ASSUME WalkTypeOK, ~Tied, NEW tie \in Tie, NEW r \in Listed
  PROVE  Ahead(r, tie) = NewerThan(r)
<1>1. ASSUME NEW q \in Listed PROVE Before(q, r, tie) <=> Newer(q, r)
  <2>1. q \in Row /\ r \in Row /\ row[q] # "none" /\ row[r] # "none"
    BY DEF Listed
  <2>2. kind = "reports" /\ second[q] = second[r] => q = r
    BY <2>1 DEF Tied
  <2>3. kind \in Kind
    BY DEF WalkTypeOK, RowsTypeOK
  <2>4. second[q] \in Nat /\ tie[q] \in Int
    BY <2>1 DEF WalkTypeOK, RowsTypeOK, Tie, Row
  <2>5. QED BY <2>2, <2>3, <2>4 DEF Before, Newer, Kind
<1>2. QED BY <1>1 DEF Ahead, NewerThan
-----------------------------------------------------------------------------
(* What a step of the site is to the rows that are there, and to the walk.   *)
RowsStay ==
    /\ UNCHANGED kind
    /\ \A q \in Row : row[q] # "none" => row'[q] # "none" /\ second'[q] = second[q]

LEMMA OrderStays ==
  ASSUME WalkTypeOK, RowsStay
  PROVE  /\ Tied => Tied'
         /\ \A q, r \in Row : row[q] # "none" /\ row[r] # "none" => (Newer(q, r)' <=> Newer(q, r))
<1>1. Tied => Tied'
  BY DEF RowsStay, Tied
<1>2. \A q, r \in Row : row[q] # "none" /\ row[r] # "none" => (Newer(q, r)' <=> Newer(q, r))
  BY DEF RowsStay, Newer
<1>3. QED BY <1>1, <1>2

(* The rows come and go.                                                    *)
LEMMA RowStep ==
  ASSUME RowsTypeOK,
         NEW r \in Row, Insert(r) \/ Commit(r) \/ RollBack(r)
  PROVE  RowsTypeOK' /\ RowsStay /\ Listed \subseteq Listed' /\ (Insert(r) \/ RollBack(r) => Listed' = Listed)
<1>1. CASE Insert(r)
  <2> PICK s \in 1..(IF kind = "posts" THEN 1 ELSE MaxSecond) : second' = [second EXCEPT ![r] = s]
    BY <1>1 DEF Insert
  <2>1. s \in Nat /\ second' = [second EXCEPT ![r] = s]
    OBVIOUS
  <2>2. row[r] = "none" /\ row' = [row EXCEPT ![r] = "pending"] /\ kind' = kind
    BY <1>1 DEF Insert
  <2>3. \A q \in Row : q # r => row'[q] = row[q] /\ second'[q] = second[q]
    BY <2>1, <2>2 DEF RowsTypeOK
  <2>4. row'[r] = "pending"
    BY <2>2 DEF RowsTypeOK
  <2>5. RowsTypeOK'
    BY <2>1, <2>2 DEF RowsTypeOK
  <2>6. RowsStay
    BY <2>2, <2>3 DEF RowsStay
  <2>7. Listed' = Listed
    BY <2>2, <2>3, <2>4 DEF Listed
  <2>8. QED BY <2>5, <2>6, <2>7
<1>2. CASE Commit(r)
  <2>1. ~(Insert(r) \/ RollBack(r))
    BY <1>2 DEF Commit, Insert, RollBack, RowsTypeOK
  <2>2. QED BY <1>2, <2>1 DEF Commit, RowsTypeOK, RowsStay, Listed
<1>3. CASE RollBack(r)
  BY <1>3 DEF RollBack, RowsTypeOK, RowsStay, Listed
<1>4. QED BY <1>1, <1>2, <1>3

LEMMA WithdrawStep ==
  ASSUME RowsTypeOK, NEW S, Withdraw(S)
  PROVE  RowsTypeOK' /\ RowsStay /\ Listed' \subseteq Listed
BY DEF Withdraw, RowsTypeOK, RowsStay, Listed

(* Nothing the client could notice: the page is not turned, and no row       *)
(* comes into the list or leaves it unrecorded.                             *)
Between ==
    /\ RowsTypeOK' /\ RowsStay
    /\ UNCHANGED <<size, page, pages, base, seen, twice>>
    /\ entered \in BOOLEAN => entered' \in BOOLEAN
    /\ left \in BOOLEAN => left' \in BOOLEAN
    /\ Listed' \subseteq Listed \/ (page > 0 => entered')
    /\ Listed \subseteq Listed' \/ (page > 0 => left')
    /\ (entered => entered') /\ (left => left')

WalkStep ==
    \/ Between
    \/ page = 0 /\ RowsTypeOK' /\ size' \in Nat \ {0}
       /\ UNCHANGED <<page, pages, base, seen, twice, entered, left>>
    \/ /\ board = "pages" /\ UNCHANGED board
       /\ \E tie \in Tie : FirstPage(tie) \/ NextPage(tie)

LEMMA NothingMoves ==
  ASSUME WalkTypeOK, UNCHANGED <<rows, walk>>
  PROVE  WalkStep
BY DEF WalkTypeOK, RowsTypeOK, rows, walk, RowsStay, Listed, WalkStep, Between

LEMMA EndIsBetween == WalkTypeOK /\ InFlightEnds => WalkStep /\ board' = board
BY DEF InFlightEnds, WalkTypeOK, RowsTypeOK, walk, RowsStay, Listed, WalkStep, Between

LEMMA PagesAreSteps ==
  ASSUME WalkTypeOK, PagesStep
  PROVE  WalkStep /\ board' = board /\ board = "pages"
<1>b. board' = board /\ board = "pages"
  BY DEF PagesStep, Inside
<1>t. RowsTypeOK /\ entered \in BOOLEAN /\ left \in BOOLEAN
  BY DEF WalkTypeOK
<1>1. ASSUME NEW r \in Row, Create(r) \/ Rejected(r) PROVE Between
  <2>1. (Insert(r) \/ RollBack(r)) /\ UNCHANGED walk
    BY <1>1 DEF Create, Rejected
  <2>2. RowsTypeOK' /\ RowsStay /\ Listed' = Listed
    BY <2>1, <1>t, RowStep
  <2>3. QED BY <2>1, <2>2, <1>t DEF Between, walk
<1>2. ASSUME NEW r \in Row, Enter(r) PROVE Between
  <2>1. RowsTypeOK' /\ RowsStay /\ Listed \subseteq Listed'
    BY <1>2, <1>t, RowStep DEF Enter
  <2>2. /\ entered' = (entered \/ page > 0) /\ left' = left
        /\ UNCHANGED <<size, page, pages, base, seen, twice>>
    BY <1>2 DEF Enter, Quiet
  <2>3. entered' \in BOOLEAN /\ (entered => entered') /\ (page > 0 => entered')
    BY <2>2
  <2>4. QED BY <2>1, <2>2, <2>3 DEF Between
<1>3. ASSUME NEW S \in SUBSET Listed, Leave(S) PROVE Between
  <2>1. RowsTypeOK' /\ RowsStay /\ Listed' \subseteq Listed
    BY <1>3, <1>t, WithdrawStep DEF Leave
  <2>2. /\ left' = (left \/ page > 0) /\ entered' = entered
        /\ UNCHANGED <<size, page, pages, base, seen, twice>>
    BY <1>3 DEF Leave, Quiet
  <2>3. left' \in BOOLEAN /\ (left => left') /\ (page > 0 => left')
    BY <2>2
  <2>4. QED BY <2>1, <2>2, <2>3 DEF Between
<1>4. QED BY <1>b, <1>1, <1>2, <1>3 DEF PagesStep, PagesNext, WalkStep

LEMMA ImagesAreSteps ==
  ASSUME WalkTypeOK, page = 0, ImagesStep
  PROVE  WalkStep /\ board' = board
<1>b. board' = board /\ UNCHANGED walk
  BY DEF ImagesStep, Inside
<1>t. RowsTypeOK /\ size \in Nat \ {0}
  BY DEF WalkTypeOK
<1>1. RowsTypeOK'
  <2>1. CASE UNCHANGED rows
    BY <2>1, <1>t DEF rows, RowsTypeOK
  <2>2. ASSUME NEW r \in Row, Insert(r) \/ Commit(r) PROVE RowsTypeOK'
    BY <2>2, <1>t, RowStep
  <2>3. ASSUME NEW S, Withdraw(S) PROVE RowsTypeOK'
    BY <2>3, <1>t, WithdrawStep
  <2>4. QED BY <2>1, <2>2, <2>3 DEF ImagesStep, Post
<1>2. QED BY <1>b, <1>t, <1>1 DEF WalkStep, walk

LEMMA SiteIsWalk ==
  ASSUME WalkInv, [SiteNext]_siteVars
  PROVE  WalkStep /\ (board' = board \/ page = 0)
<1>t. WalkTypeOK /\ (page = 0 \/ board = "pages")
  BY DEF WalkInv, OnlyPages, WalkTypeOK
<1>1. CASE UNCHANGED <<rows, walk, board>>
  BY <1>1, <1>t, NothingMoves
<1>2. CASE UNCHANGED siteVars \/ SchemaStep
  BY <1>1, <1>2 DEF siteVars, boardVars, SchemaStep, Outside
<1>3. CASE ServerStep
  <2>1. Outside \/ InFlightEnds
    BY <1>3 DEF ServerStep
  <2>2. QED BY <2>1, <1>1, <1>t, EndIsBetween DEF Outside, boardVars
<1>4. CASE OpenPages
  <2>1. board = "closed" /\ kind' \in Kind /\ size' \in 1..MaxSize
        /\ UNCHANGED <<row, second, page, pages, base, seen, twice, entered, left>>
    BY <1>4 DEF OpenPages
  <2>2. page = 0
    BY <2>1, <1>t
  <2>3. RowsTypeOK' /\ size' \in Nat \ {0}
    BY <2>1, <1>t, SizeAssumption DEF WalkTypeOK, RowsTypeOK
  <2>4. QED BY <2>1, <2>2, <2>3 DEF WalkStep
<1>5. CASE OpenImages
  <2>1. board = "closed" /\ UNCHANGED <<rows, walk>>
    BY <1>5 DEF OpenImages, boardVars
  <2>2. QED BY <2>1, <1>t, NothingMoves
<1>6. CASE PagesStep
  BY <1>6, <1>t, PagesAreSteps
<1>7. CASE ImagesStep
  <2>1. board = "images"
    BY <1>7 DEF ImagesStep
  <2>2. QED BY <1>7, <2>1, <1>t, ImagesAreSteps
<1>8. QED BY <1>2, <1>3, <1>4, <1>5, <1>6, <1>7 DEF SiteNext

-----------------------------------------------------------------------------
LEMMA BetweenKeeps ==
  ASSUME WalkInv, Between, board' = board \/ page = 0
  PROVE  WalkInv'
<1>t. WalkTypeOK /\ RowsStay
  BY DEF WalkInv, Between
<1>l. Listed \subseteq Row /\ Listed' \subseteq Row /\ \A q \in Listed : row[q] # "none"
  BY DEF Listed
<1>o. /\ Tied => Tied'
      /\ \A q, r \in Row : row[q] # "none" /\ row[r] # "none" => (Newer(q, r)' <=> Newer(q, r))
  BY <1>t, OrderStays
<1>1. WalkTypeOK'
  <2>1. entered' \in BOOLEAN /\ left' \in BOOLEAN
    BY <1>t DEF WalkTypeOK, Between
  <2>2. QED BY <1>t, <2>1 DEF WalkTypeOK, Between
<1>2. OnlyPages'
  BY <1>t DEF WalkInv, OnlyPages, Between, WalkTypeOK
<1>3. NothingPassedBy'
  <2> SUFFICES ASSUME page > 0, ~left', ~Tied'
               PROVE  /\ base \subseteq Listed'
                      /\ \A r \in base \ seen :
                            Cardinality(NewerThan(r)') >= page * size /\ pages > page
    BY DEF NothingPassedBy, Between
  <2>1. ~left /\ ~Tied /\ Listed \subseteq Listed'
    BY <1>o DEF Between
  <2>2. /\ base \subseteq Listed
        /\ \A r \in base \ seen : Cardinality(NewerThan(r)) >= page * size /\ pages > page
    BY <2>1 DEF WalkInv, NothingPassedBy
  <2>3. ASSUME NEW r \in base \ seen PROVE Cardinality(NewerThan(r)') >= page * size
    <3> PICK A : A = NewerThan(r)
      OBVIOUS
    <3> PICK B : B = NewerThan(r)'
      OBVIOUS
    <3>1. A \subseteq B /\ B \subseteq Row
      BY <1>l, <1>o, <2>1, <2>2 DEF NewerThan
    <3>2. Cardinality(A) <= Cardinality(B) /\ Cardinality(A) \in Nat /\ Cardinality(B) \in Nat
      BY <3>1, CountsAreOrdered
    <3>3. page * size \in Nat /\ Cardinality(A) >= page * size
      BY <1>t, <2>2 DEF WalkTypeOK
    <3>4. QED BY <3>2, <3>3
  <2>4. QED BY <2>1, <2>2, <2>3
<1>4. NothingComesBack'
  <2> SUFFICES ASSUME page > 0, ~entered', ~Tied', NEW r \in seen \intersect Listed'
               PROVE  Cardinality(NewerThan(r)') < page * size
    BY DEF NothingComesBack, Between
  <2>1. ~entered /\ ~Tied /\ Listed' \subseteq Listed
    BY <1>o DEF Between
  <2>2. Cardinality(NewerThan(r)) < page * size
    BY <2>1 DEF WalkInv, NothingComesBack
  <2> PICK A : A = NewerThan(r)
    OBVIOUS
  <2> PICK B : B = NewerThan(r)'
    OBVIOUS
  <2>3. B \subseteq A /\ A \subseteq Row
    BY <1>l, <1>o, <2>1 DEF NewerThan
  <2>4. Cardinality(B) <= Cardinality(A) /\ Cardinality(A) \in Nat /\ Cardinality(B) \in Nat
    BY <2>3, CountsAreOrdered
  <2>5. page * size \in Nat
    BY <1>t DEF WalkTypeOK
  <2>6. QED BY <2>2, <2>4, <2>5
<1>5. NothingTwiceWithoutCreation'
  BY <1>o DEF WalkInv, NothingTwiceWithoutCreation, Between
<1>6. QED BY <1>1, <1>2, <1>3, <1>4, <1>5 DEF WalkInv

-----------------------------------------------------------------------------
LEMMA WhatIsShown ==
  ASSUME WalkTypeOK, ~Tied, NEW tie \in Tie, NEW r \in Listed, NEW p \in Nat
  PROVE  r \in Shown(p, tie) <=>
            (p - 1) * size <= Cardinality(NewerThan(r)) /\ Cardinality(NewerThan(r)) < p * size
<1>1. Ahead(r, tie) = NewerThan(r)
  BY TiesDecideNothing
<1>2. p * size = (p - 1) * size + size
  BY DEF WalkTypeOK
<1>3. QED BY <1>1, <1>2 DEF Shown, offset

LEMMA RowsBehindCount ==
  ASSUME WalkTypeOK, NEW r \in Listed, NEW p \in Nat, Cardinality(NewerThan(r)) >= p * size
  PROVE  TotalPages > p
<1> PICK A : A = NewerThan(r)
  OBVIOUS
<1> PICK L : L = Listed
  OBVIOUS
<1> PICK n : n = Cardinality(L)
  OBVIOUS
<1>1. L \subseteq Row /\ A \subseteq L
  BY DEF Listed, NewerThan
<1>2. r \notin A
  <2>1. r \in Row /\ kind \in Kind /\ second[r] \in Nat
    BY DEF Listed, WalkTypeOK, RowsTypeOK
  <2>2. ~(r > r) /\ ~(second[r] > second[r])
    BY <2>1 DEF Row
  <2>3. ~Newer(r, r)
    BY <2>1, <2>2 DEF Newer, Kind
  <2>4. QED BY <2>3 DEF NewerThan
<1>3. n \in Nat /\ Cardinality(A) \in Nat /\ Cardinality(A) < n
  BY <1>1, <1>2, CountsAreOrdered
<1>4. size \in Nat \ {0} /\ p * size \in Nat
  BY DEF WalkTypeOK
<1>5. n > p * size
  BY <1>3, <1>4
<1>6. (n + size - 1) \div size > p
  BY <1>3, <1>4, <1>5, OnePageMore
<1>7. QED BY <1>6 DEF TotalPages

(* One request for a page.                                                  *)
LEMMA GiveKeeps ==
  ASSUME WalkInv, board = "pages", board' = board, NEW tie \in Tie,
         FirstPage(tie) \/ NextPage(tie)
  PROVE  WalkInv'
<1> PICK p \in Nat \ {0} :
       /\ Give(p, tie) /\ p = page + 1
       /\ \/ page = 0 /\ base' = Listed
          \/ page > 0 /\ base' = base
  <2>1. page \in Nat
    BY DEF WalkInv, WalkTypeOK
  <2>2. CASE FirstPage(tie)
    BY <2>2 DEF FirstPage
  <2>3. CASE NextPage(tie)
    BY <2>1, <2>3 DEF NextPage
  <2>4. QED BY <2>2, <2>3
<1>t. WalkTypeOK
  BY DEF WalkInv
<1>g. /\ page' = p /\ pages' = TotalPages
      /\ seen' = seen \union Shown(p, tie)
      /\ UNCHANGED <<rows, size, entered, left>>
  BY DEF Give
<1>r. /\ Listed' = Listed /\ (Tied' <=> Tied)
      /\ \A r : NewerThan(r)' = NewerThan(r)
  BY <1>g DEF rows, Listed, Tied, NewerThan, Newer
<1>s. Shown(p, tie) \subseteq Listed /\ Listed \subseteq Row
  BY DEF Shown, Listed
<1>m. /\ p * size = page * size + size /\ page * size \in Nat /\ (p - 1) * size = page * size
      /\ size \in Nat \ {0}
  BY <1>t DEF WalkTypeOK
<1>c. \A r \in Listed : Cardinality(NewerThan(r)) \in Nat
  <2> SUFFICES ASSUME NEW r \in Listed PROVE Cardinality(NewerThan(r)) \in Nat
    OBVIOUS
  <2>1. NewerThan(r) \subseteq Row
    BY <1>s DEF NewerThan
  <2>2. QED BY <2>1, CountsAreOrdered
<1>w. ASSUME ~Tied, NEW r \in Listed
      PROVE  r \in Shown(p, tie) <=>
                page * size <= Cardinality(NewerThan(r)) /\ Cardinality(NewerThan(r)) < p * size
  BY <1>w, <1>t, <1>m, WhatIsShown
<1>1. WalkTypeOK'
  <2>1. TotalPages \in Nat
    <3>1. CASE Listed = {}
      BY <3>1 DEF TotalPages
    <3>2. CASE Listed # {}
      <4>1. PICK n : n = Cardinality(Listed)
        OBVIOUS
      <4>2. n \in Nat
        BY <4>1, <1>s, CountsAreOrdered
      <4>3. n + size - 1 \in Nat
        BY <4>2, <1>m
      <4>4. (n + size - 1) \div size \in Nat
        BY <4>3, <1>m, QuotientRoundsDown
      <4>5. QED BY <3>2, <4>1, <4>4 DEF TotalPages
    <3>3. QED BY <3>1, <3>2
  <2>2. RowsTypeOK'
    BY <1>t, <1>g DEF WalkTypeOK, RowsTypeOK, rows
  <2>3. entered' \in BOOLEAN /\ left' \in BOOLEAN
    BY <1>t, <1>g DEF WalkTypeOK
  <2>4. twice' \in BOOLEAN
    BY DEF Give
  <2>5. size' \in Nat \ {0} /\ page' \in Nat /\ pages' \in Nat /\ base' \subseteq Row /\ seen' \subseteq Row
    BY <1>t, <1>g, <1>s, <2>1 DEF WalkTypeOK
  <2>6. QED BY <2>2, <2>3, <2>4, <2>5 DEF WalkTypeOK
<1>2. OnlyPages'
  BY <1>g DEF OnlyPages
<1>3. NothingPassedBy'
  <2> SUFFICES ASSUME ~left, ~Tied
               PROVE  /\ base' \subseteq Listed
                      /\ \A r \in base' \ seen' :
                            Cardinality(NewerThan(r)) >= p * size /\ TotalPages > p
    BY <1>g, <1>r DEF NothingPassedBy
  <2>1. base' \subseteq Listed
    BY DEF WalkInv, NothingPassedBy
  <2>2. ASSUME NEW r \in base' \ seen'
        PROVE  Cardinality(NewerThan(r)) >= p * size /\ TotalPages > p
    <3>1. r \in Listed /\ r \notin Shown(p, tie) /\ r \notin seen
      BY <1>g, <2>1
    <3>2. Cardinality(NewerThan(r)) >= page * size
      <4>1. CASE page = 0
        BY <4>1, <3>1, <1>c, <1>m
      <4>2. CASE page > 0
        BY <4>2, <3>1, <2>2 DEF WalkInv, NothingPassedBy
      <4>3. QED BY <4>1, <4>2, <1>t DEF WalkTypeOK
    <3>3. Cardinality(NewerThan(r)) >= p * size
      BY <1>w, <1>c, <1>m, <3>1, <3>2
    <3>4. QED BY <1>t, <3>1, <3>3, RowsBehindCount
  <2>3. QED BY <2>1, <2>2
<1>4. ASSUME ~entered, ~Tied, NEW r \in seen \intersect Listed
      PROVE  Cardinality(NewerThan(r)) < page * size
  <2>1. page > 0
    BY <1>4, <1>t DEF WalkInv, OnlyPages, WalkTypeOK
  <2>2. QED BY <1>4, <2>1 DEF WalkInv, NothingComesBack
<1>5. NothingComesBack'
  <2> SUFFICES ASSUME ~entered, ~Tied, NEW r \in seen' \intersect Listed
               PROVE  Cardinality(NewerThan(r)) < p * size
    BY <1>g, <1>r DEF NothingComesBack
  <2>1. CASE r \in seen
    BY <1>4, <1>c, <1>m, <2>1
  <2>2. CASE r \in Shown(p, tie)
    BY <1>w, <2>2
  <2>3. QED BY <1>g, <2>1, <2>2
<1>6. NothingTwiceWithoutCreation'
  <2> SUFFICES ASSUME ~entered, ~Tied PROVE ~twice'
    BY <1>g, <1>r DEF NothingTwiceWithoutCreation
  <2>1. ~twice
    BY DEF WalkInv, NothingTwiceWithoutCreation
  <2>2. ASSUME NEW r \in Shown(p, tie) \intersect seen PROVE FALSE
    BY <1>4, <1>w, <1>c, <1>m, <1>s, <2>2
  <2>3. QED BY <2>1, <2>2 DEF Give
<1>7. QED BY <1>1, <1>2, <1>3, <1>5, <1>6 DEF WalkInv

-----------------------------------------------------------------------------
LEMMA WalkInvKept == WalkInv /\ [SiteNext]_siteVars => WalkInv'
<1> SUFFICES ASSUME WalkInv, [SiteNext]_siteVars PROVE WalkInv'
  OBVIOUS
<1>1. WalkStep /\ (board' = board \/ page = 0)
  BY SiteIsWalk
<1>2. CASE Between
  BY <1>1, <1>2, BetweenKeeps
<1>3. CASE /\ page = 0 /\ RowsTypeOK' /\ size' \in Nat \ {0}
           /\ UNCHANGED <<page, pages, base, seen, twice, entered, left>>
  <2>1. seen = {} /\ ~twice
    BY <1>3 DEF WalkInv, OnlyPages
  <2>2. WalkTypeOK'
    BY <1>3 DEF WalkInv, WalkTypeOK
  <2>3. OnlyPages' /\ NothingPassedBy' /\ NothingComesBack'
    BY <1>3, <2>1 DEF OnlyPages, NothingPassedBy, NothingComesBack
  <2>4. NothingTwiceWithoutCreation'
    BY <1>3, <2>1 DEF NothingTwiceWithoutCreation
  <2>5. QED BY <2>2, <2>3, <2>4 DEF WalkInv
<1>4. CASE /\ board = "pages" /\ UNCHANGED board
           /\ \E tie \in Tie : FirstPage(tie) \/ NextPage(tie)
  BY <1>4, GiveKeeps
<1>5. QED BY <1>1, <1>2, <1>3, <1>4 DEF WalkStep

LEMMA WalkInvFirst == SiteInit => WalkInv
<1> SUFFICES ASSUME SiteInit PROVE WalkInv
  OBVIOUS
<1>1. /\ kind = "posts" /\ size = 1 /\ row = [r \in Row |-> "none"] /\ second = [r \in Row |-> 1]
      /\ page = 0 /\ pages = 0 /\ base = {} /\ seen = {}
  BY DEF SiteInit, PagesInit, InitRows, InitWalk
<1>2. twice = FALSE /\ entered = FALSE /\ left = FALSE
  BY DEF SiteInit, PagesInit, InitWalk
<1>3. RowsTypeOK
  BY <1>1 DEF RowsTypeOK, Kind
<1>4. WalkTypeOK
  <2>1. twice \in BOOLEAN /\ entered \in BOOLEAN /\ left \in BOOLEAN
    BY <1>2
  <2>2. QED BY <1>1, <1>3, <2>1 DEF WalkTypeOK
<1>5. OnlyPages /\ NothingPassedBy /\ NothingComesBack
  BY <1>1, <1>2 DEF OnlyPages, NothingPassedBy, NothingComesBack
<1>6. NothingTwiceWithoutCreation
  BY <1>2 DEF NothingTwiceWithoutCreation
<1>7. QED BY <1>4, <1>5, <1>6 DEF WalkInv

LEMMA WalkInvAlways == SiteSpec => []WalkInv
BY WalkInvFirst, WalkInvKept, PTL DEF SiteSpec

-----------------------------------------------------------------------------
(* The rows of the lists and the client's walk keep their types: PageParams  *)
(* and the tables.                                                         *)
THEOREM WalkTypesCorrect == SiteSpec => []WalkTypeOK
<1>1. WalkInv => WalkTypeOK
  BY DEF WalkInv
<1>2. QED BY <1>1, WalkInvAlways, PTL

(* list_posts, list_by_post and list_reports: a client that reads page 1 to  *)
(* total_pages has seen all that page 1's list held, unless a row left      *)
(* meanwhile or reports of one second changed places.                       *)
THEOREM NothingMissed == SiteSpec => []NothingMissedWithoutWithdrawal
<1>1. WalkInv => NothingMissedWithoutWithdrawal
  <2> SUFFICES ASSUME WalkInv, 0 < page, pages <= page, ~left, ~Tied, NEW r \in base, r \notin seen
               PROVE  FALSE
    BY DEF NothingMissedWithoutWithdrawal, Over
  <2>1. pages > page
    BY DEF WalkInv, NothingPassedBy
  <2>2. QED BY <2>1 DEF WalkInv, WalkTypeOK
<1>2. QED BY <1>1, WalkInvAlways, PTL

(* The same three lists: nothing is given twice unless a row entered         *)
(* meanwhile or reports of one second changed places.                       *)
THEOREM NothingTwice == SiteSpec => []NothingTwiceWithoutCreation
<1>1. WalkInv => NothingTwiceWithoutCreation
  BY DEF WalkInv
<1>2. QED BY <1>1, WalkInvAlways, PTL
===============================================================================
