----------------------------- MODULE MenuBoard -----------------------------
(***************************************************************************)
(* What the menus' service promises (menu_service.py): until two requests   *)
(* overlap, each of them is one indivisible change of the board, checked    *)
(* against the board it changes.  Whatever overlaps, it is a change of one  *)
(* menu, and a menu that is gone is gone for good.                          *)
(* No snapshots, sessions or columns: MenuTree has to implement this.       *)
(***************************************************************************)
CONSTANTS Menu, Name, NoMenu

VARIABLES
    place,      \* [menus on the board -> [parent, name]]
    gone,       \* SUBSET Menu: the deleted ones
    disturbed   \* BOOLEAN: two requests have overlapped

board == <<place, gone, disturbed>>

Placed == DOMAIN place
At(p, n) == [parent |-> p, name |-> n]
Free(p, n) == \A k \in Placed : place[k] # At(p, n)

(* m and the menus below it fit into a set that p is not in. *)
Apart(m, p) ==
    \E Branch \in SUBSET Placed :
        /\ m \in Branch
        /\ p \notin Branch
        /\ \A k \in Placed : place[k].parent \in Branch => k \in Branch

BoardInit ==
    /\ place = [m \in {} |-> At(NoMenu, m)]
    /\ gone = {}
    /\ disturbed = FALSE

Add(m, p, n) ==
    /\ m \notin Placed \union gone
    /\ disturbed \/ (p \in Placed \union {NoMenu} /\ Free(p, n))
    /\ place' = [k \in Placed \union {m} |-> IF k = m THEN At(p, n) ELSE place[k]]
    /\ UNCHANGED <<gone, disturbed>>

(* A move, a rename or both. *)
Change(m, p, n) ==
    /\ m \in Placed
    /\ \/ disturbed
       \/ /\ p \in {NoMenu, place[m].parent} \/ (p \in Placed /\ Apart(m, p))
          /\ Free(p, n)
    /\ place' = [place EXCEPT ![m] = At(p, n)]
    /\ UNCHANGED <<gone, disturbed>>

Remove(m) ==
    /\ m \in Placed
    /\ disturbed \/ \A k \in Placed : place[k].parent # m
    /\ place' = [k \in Placed \ {m} |-> place[k]]
    /\ gone' = gone \union {m}
    /\ UNCHANGED disturbed

Overlap == disturbed' = TRUE /\ UNCHANGED <<place, gone>>

BoardNext ==
    \/ \E m \in Menu, p \in Menu \union {NoMenu}, n \in Name : Add(m, p, n) \/ Change(m, p, n)
    \/ \E m \in Menu : Remove(m)
    \/ Overlap

BoardSpec == BoardInit /\ [][BoardNext]_board

=============================================================================
