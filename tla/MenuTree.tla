------------------------------ MODULE MenuTree ------------------------------
(***************************************************************************)
(* The menus of the board (app/modules/menus): rows that name their parent, *)
(* with no foreign key, deleted by setting deleted_at.                      *)
(*                                                                          *)
(* MenuService validates a request on the snapshot its session took in      *)
(* get_current_user (MySQL's REPEATABLE READ), then sends one INSERT or     *)
(* UPDATE, which works on the rows as they are by then, and commits.        *)
(***************************************************************************)
EXTENDS Naturals

CONSTANTS Menu,         \* every menu_id the table can hand out
          Name, Request,
          NoMenu,       \* a NULL menu_parent_id
          NoName,       \* the name of a row not there yet
          MaxSecond     \* the clock stops here (bounds the model)

ASSUME MenuAssumption == NoMenu \notin Menu /\ MaxSecond \in Nat

VARIABLES
    now,        \* seconds: DATETIME drops the fraction
    made,       \* SUBSET Menu: the rows there are, deleted ones included
    parent,     \* [Menu -> Menu or NoMenu]: menu_parent_id
    name,       \* [Menu -> Name or NoName]: menu_name
    deleted,    \* [Menu -> Nat]: deleted_at, 0 for NULL
    pc,         \* [Request -> {"idle", "work"}]
    view,       \* [Request -> View]: the session's snapshot
    raced       \* BOOLEAN, history: two requests have overlapped

rows == <<made, parent, name, deleted>>
vars == <<now, rows, pc, view, raced>>

Alive == {m \in made : deleted[m] = 0}
Current == [alive |-> Alive, parent |-> parent, name |-> name]

View == [alive : SUBSET Menu,
         parent : [Menu -> Menu \union {NoMenu}],
         name : [Menu -> Name \union {NoName}]]
NoView == [alive |-> {},
           parent |-> [m \in Menu |-> NoMenu],
           name |-> [m \in Menu |-> NoName]]

-----------------------------------------------------------------------------
(* No menu of S has its parent in S, nor that one, and so on for ever. *)
Loopless(S, up) == \A T \in SUBSET S : T # {} => \E m \in T : up[m] \notin T

MayGoUnderShallow(v, m, p) == p # m  \* mutant: the walk stops at the first parent

(* _ensure_not_own_descendant: the walk from p, upwards until a menu has no *)
(* parent or is deleted, ends and does not meet m.                          *)
MayGoUnder(v, m, p) ==
    \E Walk \in SUBSET Menu :
        /\ p \in Walk
        /\ m \notin Walk
        /\ \A x \in Walk \intersect v.alive : v.parent[x] \in Walk \union {NoMenu}
        /\ Loopless(Walk \intersect v.alive, v.parent)

(* exists_by_parent_and_name; SQLAlchemy compares with None as IS NULL. *)
Taken(v, p, n) == \E m \in v.alive : v.parent[m] = p /\ v.name[m] = n

(* uq_menus_parent_name: a NULL in any of its columns satisfies it. *)
UniqueKey(m, up, nm, del) ==
    \A k \in made \ {m} :
        up[m] # NoMenu /\ del[m] # 0 => <<up[k], nm[k], del[k]>> # <<up[m], nm[m], del[m]>>

-----------------------------------------------------------------------------
Init ==
    /\ now = 1
    /\ made = {}
    /\ parent = NoView.parent
    /\ name = NoView.name
    /\ deleted = [m \in Menu |-> 0]
    /\ pc = [r \in Request |-> "idle"]
    /\ view = [r \in Request |-> NoView]
    /\ raced = FALSE

Begin(r) ==
    /\ pc[r] = "idle"
    /\ pc' = [pc EXCEPT ![r] = "work"]
    /\ view' = [view EXCEPT ![r] = Current]
    /\ raced' = (raced \/ \E q \in Request : pc[q] = "work")
    /\ UNCHANGED <<now, rows>>

End(r) ==
    /\ pc[r] = "work"
    /\ pc' = [pc EXCEPT ![r] = "idle"]
    /\ view' = [view EXCEPT ![r] = NoView]
    /\ UNCHANGED <<now, raced>>

(* MenuService.create *)
Create(r) ==
    /\ End(r)
    /\ \E m \in Menu \ made, p \in view[r].alive \union {NoMenu}, n \in Name :
        /\ ~Taken(view[r], p, n)
        /\ made' = made \union {m}
        /\ parent' = [parent EXCEPT ![m] = p]
        /\ name' = [name EXCEPT ![m] = n]
        /\ UNCHANGED deleted

UpdateRenameOnly(r) ==  \* mutant: a move alone is not checked for its name
    /\ End(r)
    /\ LET v == view[r] IN
       \E m \in v.alive, n \in Name : \E p \in v.alive \union {NoMenu, v.parent[m]} :
        /\ p \in {NoMenu, v.parent[m]} \/ MayGoUnder(v, m, p)
        /\ n # v.name[m] => ~Taken(v, p, n)
        /\ parent' = [parent EXCEPT ![m] = IF p = v.parent[m] THEN @ ELSE p]
        /\ name' = [name EXCEPT ![m] = IF n = v.name[m] THEN @ ELSE n]
        /\ UniqueKey(m, parent', name', deleted)
        /\ UNCHANGED <<made, deleted>>

UpdateWholeRow(r) ==  \* mutant: every column is written back
    /\ End(r)
    /\ LET v == view[r] IN
       \E m \in v.alive, n \in Name : \E p \in v.alive \union {NoMenu, v.parent[m]} :
        /\ p \in {NoMenu, v.parent[m]} \/ MayGoUnder(v, m, p)
        /\ <<p, n>> # <<v.parent[m], v.name[m]>> => ~Taken(v, p, n)
        /\ parent' = [parent EXCEPT ![m] = p]
        /\ name' = [name EXCEPT ![m] = n]
        /\ deleted' = [deleted EXCEPT ![m] = 0]
        /\ UNCHANGED made

(* MenuService.update: p and n are what was sent, or the menu's own.  Only  *)
(* columns that differ from what the session read are written.              *)
Update(r) ==
    /\ End(r)
    /\ LET v == view[r] IN
       \E m \in v.alive, n \in Name : \E p \in v.alive \union {NoMenu, v.parent[m]} :
        /\ p \in {NoMenu, v.parent[m]} \/ MayGoUnder(v, m, p)
        /\ <<p, n>> # <<v.parent[m], v.name[m]>> => ~Taken(v, p, n)
        /\ parent' = [parent EXCEPT ![m] = IF p = v.parent[m] THEN @ ELSE p]
        /\ name' = [name EXCEPT ![m] = IF n = v.name[m] THEN @ ELSE n]
        /\ UniqueKey(m, parent', name', deleted)
        /\ UNCHANGED <<made, deleted>>

DeleteWithChildren(r) ==  \* mutant: list_children is not asked
    /\ End(r)
    /\ \E m \in view[r].alive :
        /\ deleted' = [deleted EXCEPT ![m] = now]
        /\ UniqueKey(m, parent, name, deleted')
    /\ UNCHANGED <<made, parent, name>>

(* MenuService.delete *)
Delete(r) ==
    /\ End(r)
    /\ \E m \in view[r].alive :
        /\ \A k \in view[r].alive : view[r].parent[k] # m
        /\ deleted' = [deleted EXCEPT ![m] = now]
        /\ UniqueKey(m, parent, name, deleted')
    /\ UNCHANGED <<made, parent, name>>

(* A read, a check that failed, or an error: the session is rolled back. *)
Refuse(r) == End(r) /\ UNCHANGED rows

Tick ==
    /\ now < MaxSecond
    /\ now' = now + 1
    /\ UNCHANGED <<rows, pc, view, raced>>

Next ==
    \/ Tick
    \/ \E r \in Request :
        Begin(r) \/ Create(r) \/ Update(r) \/ Delete(r) \/ Refuse(r)

Spec == Init /\ [][Next]_vars

-----------------------------------------------------------------------------
(* Types; menu_ids not handed out yet have no row, and every row a name. *)
TypeOK ==
    /\ now \in Nat \ {0}
    /\ made \in SUBSET Menu
    /\ parent \in [Menu -> Menu \union {NoMenu}]
    /\ name \in [Menu -> Name \union {NoName}]
    /\ deleted \in [Menu -> Nat]
    /\ pc \in [Request -> {"idle", "work"}]
    /\ view \in [Request -> View]
    /\ raced \in BOOLEAN
    /\ \A m \in Menu \ made : deleted[m] = 0
    /\ \A m \in made : name[m] \in Name
    /\ \A r \in Request : view[r].alive \subseteq made

-----------------------------------------------------------------------------
(***************************************************************************)
(* Until two requests overlap, each of them is one indivisible change of    *)
(* the board (the snapshot MenuService validates on is what it writes to);  *)
(* and whatever interleaves, no session that still sees a menu brings it    *)
(* back from its deletion, for it writes the columns it changed, and        *)
(* deleted_at is none of them.                                              *)
(***************************************************************************)
Board ==
    INSTANCE MenuBoard WITH
        place <- [m \in Alive |-> [parent |-> parent[m], name |-> name[m]]],
        gone <- {m \in made : deleted[m] # 0},
        disturbed <- raced

ImplementsMenuBoard == Board!BoardSpec

(***************************************************************************)
(* Of that, the part about deletions (MenuService.update, delete).          *)
(***************************************************************************)
DeletionIsFinal == [][\A m \in Menu : deleted[m] # 0 => deleted'[m] # 0]_vars

-----------------------------------------------------------------------------
ParentsAlive == \A m \in Alive : parent[m] \in Alive \union {NoMenu}

SiblingsDiffer ==
    \A m, k \in Alive : parent[m] = parent[k] /\ name[m] = name[k] => m = k

(***************************************************************************)
(* No move has made a loop (MenuService._ensure_not_own_descendant): false  *)
(* of requests that overlap.                                                *)
(***************************************************************************)
NoLoop == Loopless(Alive, parent)

(* get_tree: a menu is appended to its parent's children, or to the roots.  *)
Roots == {m \in Alive : parent[m] \notin Alive}
Children(m) == {k \in Alive : parent[k] = m}

EveryMenuIsShown ==
    \A Shown \in SUBSET Alive :
        Roots \subseteq Shown /\ (\A m \in Shown : Children(m) \subseteq Shown)
        => Shown = Alive

(***************************************************************************)
(* Until two requests overlap, a menu hangs under a menu that is there      *)
(* (_ensure_parent_exists, and list_children in MenuService.delete).        *)
(***************************************************************************)
NoOrphanWithoutRace == ~raced => ParentsAlive

(***************************************************************************)
(* Until two requests overlap, the menus under one parent, and those under  *)
(* none, have different names (_ensure_name_available;                      *)
(* uq_menus_parent_name says nothing of menus that are there).              *)
(***************************************************************************)
NoNamesakeWithoutRace == ~raced => SiblingsDiffer

(***************************************************************************)
(* Until two requests overlap, every menu can be reached from a root of the *)
(* tree that get_tree returns: there is no way to lose a branch of the      *)
(* board by moving menus (_ensure_not_own_descendant).                      *)
(***************************************************************************)
BoardIsWholeWithoutRace == ~raced => EveryMenuIsShown

(* Why they hold: the snapshot validated is the state written to. *)
OneAtATime == \A q, s \in Request : pc[q] = "work" /\ pc[s] = "work" => q = s
SequentialInv ==
    /\ OneAtATime
    /\ \A r \in Request : pc[r] = "work" => view[r] = Current
    /\ ParentsAlive
    /\ SiblingsDiffer
    /\ NoLoop

=============================================================================
