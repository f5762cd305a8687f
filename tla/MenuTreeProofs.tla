--------------------------- MODULE MenuTreeProofs ---------------------------
(* Proofs about MenuTree, for any set of menus, names and requests.         *)
EXTENDS MenuTree, TLAPS

(***************************************************************************)
(* Each step preserves the types (all of MenuService).                      *)
(***************************************************************************)
LEMMA TypeStep == TypeOK /\ [Next]_vars => TypeOK'
<1> SUFFICES ASSUME TypeOK, [Next]_vars PROVE TypeOK'
  OBVIOUS
<1> USE MenuAssumption
<1>1. CASE UNCHANGED vars
  BY <1>1 DEF vars, rows, TypeOK
<1>2. CASE Tick
  BY <1>2 DEF Tick, rows, TypeOK
<1>3. ASSUME NEW r \in Request, Begin(r) PROVE TypeOK'
  <2>1. Current \in View /\ Current.alive \subseteq made
    BY DEF Current, Alive, View, TypeOK
  <2> QED BY <1>3, <2>1 DEF Begin, rows, TypeOK
<1>4. ASSUME NEW r \in Request, End(r)
      PROVE  /\ now' \in Nat \ {0}
             /\ pc' \in [Request -> {"idle", "work"}]
             /\ view' \in [Request -> View]
             /\ raced' \in BOOLEAN
             /\ \A q \in Request : view'[q].alive \subseteq made
             /\ view[r].alive \subseteq made
  <2>1. NoView \in View /\ NoView.alive = {}
    BY DEF NoView, View
  <2> QED BY <1>4, <2>1 DEF End, TypeOK
<1>5. ASSUME NEW r \in Request, Create(r) PROVE TypeOK'
  <2>1. PICK m \in Menu \ made, p \in view[r].alive \union {NoMenu}, n \in Name :
          /\ made' = made \union {m}
          /\ parent' = [parent EXCEPT ![m] = p]
          /\ name' = [name EXCEPT ![m] = n]
          /\ UNCHANGED deleted
    BY <1>5 DEF Create
  <2>2. End(r)
    BY <1>5 DEF Create
  <2> QED BY <1>4, <2>1, <2>2 DEF TypeOK
<1>6. ASSUME NEW r \in Request, Update(r) PROVE TypeOK'
  <2> DEFINE v == view[r]
  <2>1. v \in View /\ v.alive \subseteq made /\ End(r)
    BY <1>6 DEF Update, TypeOK
  <2>2. PICK m \in v.alive, n \in Name : \E p \in v.alive \union {NoMenu, v.parent[m]} :
          /\ parent' = [parent EXCEPT ![m] = IF p = v.parent[m] THEN @ ELSE p]
          /\ name' = [name EXCEPT ![m] = IF n = v.name[m] THEN @ ELSE n]
          /\ UNCHANGED <<made, deleted>>
    BY <1>6 DEF Update
  <2>3. m \in Menu /\ v.alive \union {NoMenu, v.parent[m]} \subseteq Menu \union {NoMenu}
    BY <2>1 DEF View, TypeOK
  <2> QED BY <1>4, <2>1, <2>2, <2>3 DEF TypeOK
<1>7. ASSUME NEW r \in Request, Delete(r) PROVE TypeOK'
  <2>1. End(r) /\ UNCHANGED <<made, parent, name>>
    BY <1>7 DEF Delete
  <2>2. PICK m \in view[r].alive : deleted' = [deleted EXCEPT ![m] = now]
    BY <1>7 DEF Delete
  <2>3. m \in made
    BY DEF TypeOK
  <2> QED BY <1>4, <2>1, <2>2, <2>3 DEF TypeOK
<1>8. ASSUME NEW r \in Request, Refuse(r) PROVE TypeOK'
  BY <1>4, <1>8 DEF Refuse, rows, TypeOK
<1> QED BY <1>1, <1>2, <1>3, <1>5, <1>6, <1>7, <1>8 DEF Next

(***************************************************************************)
(* The types hold in every behaviour (all of MenuService).                  *)
(***************************************************************************)
THEOREM TypeCorrect == Spec => []TypeOK
<1>1. Init => TypeOK
  <2>1. NoView \in View /\ NoView.alive = {}
    BY DEF NoView, View
  <2>2. Init => raced \in BOOLEAN
    BY DEF Init
  <2> QED BY <2>1, <2>2, MenuAssumption DEF Init, NoView, TypeOK
<1> QED BY <1>1, TypeStep, PTL DEF Spec

(***************************************************************************)
(* However the requests interleave, a deleted menu never comes back         *)
(* (MenuService.update writes changed columns only).                        *)
(***************************************************************************)
THEOREM DeletedForEver == Spec => DeletionIsFinal
<1> DEFINE Kept == \A m \in Menu : deleted[m] # 0 => deleted'[m] # 0
<1>1. ASSUME TypeOK, Next PROVE Kept
  <2>1. ASSUME NEW r \in Request, Delete(r) PROVE Kept
    <3>1. PICK m \in view[r].alive : deleted' = [deleted EXCEPT ![m] = now]
      BY <2>1 DEF Delete
    <3> QED BY <1>1, <3>1 DEF TypeOK
  <2>2. ASSUME NEW r \in Request, ~Delete(r), Begin(r) \/ Create(r) \/ Update(r) \/ Refuse(r)
        PROVE UNCHANGED deleted
    BY <2>2 DEF Begin, Create, Update, Refuse, rows
  <2>3. Tick => UNCHANGED deleted
    BY DEF Tick, rows
  <2> QED BY <1>1, <2>1, <2>2, <2>3 DEF Next
<1>2. TypeOK /\ [Next]_vars => [Kept]_vars
  BY <1>1
<1> QED BY <1>2, TypeCorrect, PTL DEF Spec, DeletionIsFinal

-----------------------------------------------------------------------------
(***************************************************************************)
(* Giving m the parent p makes no loop if a walk from p upwards leads past  *)
(* m (_ensure_not_own_descendant): a loop would hold m, hence p, hence, by  *)
(* then without m, a loop on that walk.                                     *)
(***************************************************************************)
LEMMA MoveMakesNoLoop ==
  ASSUME NEW v \in View, NEW m \in v.alive, NEW p \in v.alive,
         Loopless(v.alive, v.parent), MayGoUnder(v, m, p)
  PROVE  Loopless(v.alive, [v.parent EXCEPT ![m] = p])
<1> DEFINE up == [v.parent EXCEPT ![m] = p]
<1> SUFFICES ASSUME NEW T \in SUBSET v.alive, T # {}, \A x \in T : up[x] \in T
             PROVE  FALSE
  BY DEF Loopless
<1>0. v.alive \subseteq Menu /\ v.parent \in [Menu -> Menu \union {NoMenu}] /\ NoMenu \notin Menu
  BY MenuAssumption DEF View
<1>1. m \in T
  <2> SUFFICES ASSUME m \notin T PROVE FALSE
    OBVIOUS
  <2>1. \A x \in T : up[x] = v.parent[x]
    BY <1>0
  <2> QED BY <2>1 DEF Loopless
<1>2. p \in T
  BY <1>0, <1>1
<1>3. PICK Walk \in SUBSET Menu :
        /\ p \in Walk
        /\ m \notin Walk
        /\ \A x \in Walk \intersect v.alive : v.parent[x] \in Walk \union {NoMenu}
  BY DEF MayGoUnder
<1>4. \A x \in T \intersect Walk : v.parent[x] \in T \intersect Walk
  <2> SUFFICES ASSUME NEW x \in T \intersect Walk PROVE v.parent[x] \in T \intersect Walk
    OBVIOUS
  <2>1. up[x] = v.parent[x]
    BY <1>0, <1>3
  <2> QED BY <1>0, <1>3, <2>1
<1>5. T \intersect Walk \in SUBSET v.alive /\ T \intersect Walk # {}
  BY <1>2, <1>3
<1> QED BY <1>4, <1>5 DEF Loopless

(***************************************************************************)
(* In a forest every menu is found from the roots: those that are not would *)
(* each have a parent among themselves (MenuService.get_tree).              *)
(***************************************************************************)
LEMMA ForestIsShown == Loopless(Alive, parent) => EveryMenuIsShown
<1> SUFFICES ASSUME Loopless(Alive, parent), NEW Shown \in SUBSET Alive,
                    Roots \subseteq Shown, \A m \in Shown : Children(m) \subseteq Shown,
                    Shown # Alive
             PROVE  FALSE
  BY DEF EveryMenuIsShown
<1>1. PICK m \in Alive \ Shown : parent[m] \notin Alive \ Shown
  BY DEF Loopless
<1>2. m \notin Roots
  OBVIOUS
<1>3. parent[m] \in Shown
  BY <1>1, <1>2 DEF Roots
<1> QED BY <1>1, <1>3 DEF Children

-----------------------------------------------------------------------------
(* From here on: what holds until two requests overlap.                     *)

(***************************************************************************)
(* A step that ends a request leaves no snapshot that could be stale.       *)
(***************************************************************************)
LEMMA NoOtherWork ==
  ASSUME OneAtATime, TypeOK, NEW r \in Request, End(r)
  PROVE  \A q \in Request : pc'[q] # "work"
BY DEF End, OneAtATime, TypeOK

(***************************************************************************)
(* MenuService.create validates on the rows it then adds to, and keeps the  *)
(* forest in order.                                                         *)
(***************************************************************************)
LEMMA CreateStep ==
  ASSUME TypeOK, SequentialInv, NEW r \in Request, Create(r)
  PROVE  SequentialInv'
<1> USE MenuAssumption
<1>1. End(r) /\ view[r] = Current
  BY DEF Create, End, SequentialInv
<1>a. view[r].alive = Alive
  BY <1>1 DEF Current
<1>2. PICK m \in Menu \ made, p \in Alive \union {NoMenu}, n \in Name :
        /\ ~Taken(view[r], p, n)
        /\ made' = made \union {m}
        /\ parent' = [parent EXCEPT ![m] = p]
        /\ name' = [name EXCEPT ![m] = n]
        /\ UNCHANGED deleted
  BY <1>a DEF Create
<1>3. Alive' = Alive \union {m} /\ m \notin Alive /\ Alive \subseteq Menu
  BY <1>2 DEF Alive, TypeOK
<1>4. /\ \A x \in Alive : parent'[x] = parent[x] /\ name'[x] = name[x]
      /\ parent'[m] = p /\ name'[m] = n
  BY <1>2, <1>3 DEF TypeOK
<1>5. ParentsAlive'
  BY <1>2, <1>3, <1>4 DEF ParentsAlive, SequentialInv
<1>6. SiblingsDiffer'
  <2>1. \A k \in Alive : ~(parent[k] = p /\ name[k] = n)
    BY <1>1, <1>2 DEF Taken, Current
  <2> QED BY <1>3, <1>4, <2>1 DEF SiblingsDiffer, SequentialInv
<1>7. NoLoop'
  <2> SUFFICES ASSUME NEW T \in SUBSET (Alive \union {m}), T # {},
                      \A x \in T : parent'[x] \in T
               PROVE  FALSE
    BY <1>3 DEF NoLoop, Loopless
  <2>1. T \ {m} # {}
    BY <1>2, <1>3, <1>4
  <2>2. \A x \in T \ {m} : parent[x] \in T \ {m}
    BY <1>2, <1>3, <1>4 DEF ParentsAlive, SequentialInv
  <2> QED BY <2>1, <2>2 DEF NoLoop, Loopless, SequentialInv
<1> QED BY <1>1, <1>5, <1>6, <1>7, NoOtherWork DEF OneAtATime, SequentialInv

(***************************************************************************)
(* MenuService.update moves and renames without disturbing the forest.      *)
(***************************************************************************)
LEMMA UpdateStep ==
  ASSUME TypeOK, SequentialInv, NEW r \in Request, Update(r)
  PROVE  SequentialInv'
<1> USE MenuAssumption
<1>1. End(r) /\ view[r] = Current
  BY DEF Update, End, SequentialInv
<1>2. PICK m \in view[r].alive, n \in Name : \E p \in view[r].alive \union {NoMenu, view[r].parent[m]} :
        /\ p \in {NoMenu, view[r].parent[m]} \/ MayGoUnder(view[r], m, p)
        /\ <<p, n>> # <<view[r].parent[m], view[r].name[m]>> => ~Taken(view[r], p, n)
        /\ parent' = [parent EXCEPT ![m] = IF p = view[r].parent[m] THEN @ ELSE p]
        /\ name' = [name EXCEPT ![m] = IF n = view[r].name[m] THEN @ ELSE n]
        /\ UNCHANGED <<made, deleted>>
  BY DEF Update
<1>a. view[r].alive = Alive /\ view[r].parent = parent /\ view[r].name = name
  BY <1>1 DEF Current
<1>b. m \in Alive /\ m \in Menu
  BY <1>2, <1>a DEF Alive, TypeOK
<1>3. PICK p \in Alive \union {NoMenu, parent[m]} :
        /\ p \in {NoMenu, parent[m]} \/ MayGoUnder(Current, m, p)
        /\ <<p, n>> # <<parent[m], name[m]>> => ~Taken(Current, p, n)
        /\ parent' = [parent EXCEPT ![m] = IF p = parent[m] THEN @ ELSE p]
        /\ name' = [name EXCEPT ![m] = IF n = name[m] THEN @ ELSE n]
        /\ UNCHANGED <<made, deleted>>
  BY <1>1, <1>2, <1>a
<1>c. p \in Alive \union {NoMenu}
  BY <1>b DEF ParentsAlive, SequentialInv
<1>4. Alive' = Alive /\ Alive \subseteq Menu
  BY <1>3 DEF Alive, TypeOK
<1>5. /\ \A x \in Alive \ {m} : parent'[x] = parent[x] /\ name'[x] = name[x]
      /\ parent'[m] = p /\ name'[m] = n
  BY <1>3, <1>4, <1>b DEF TypeOK
<1>6. ParentsAlive'
  BY <1>4, <1>5, <1>c DEF ParentsAlive, SequentialInv
<1>7. SiblingsDiffer'
  <2>1. CASE <<p, n>> = <<parent[m], name[m]>>
    BY <1>4, <1>5, <2>1 DEF SiblingsDiffer, SequentialInv
  <2>2. CASE <<p, n>> # <<parent[m], name[m]>>
    <3>1. \A k \in Alive : ~(parent[k] = p /\ name[k] = n)
      BY <1>3, <2>2 DEF Taken, Current
    <3> QED BY <1>4, <1>5, <3>1 DEF SiblingsDiffer, SequentialInv
  <2> QED BY <2>1, <2>2
<1>8. NoLoop'
  <2>1. CASE p = parent[m]
    <3>1. parent' = parent
      BY <1>3, <2>1 DEF TypeOK
    <3> QED BY <1>4, <3>1 DEF NoLoop, SequentialInv
  <2>2. CASE p = NoMenu
    <3>1. \A T \in SUBSET Alive : m \in T => parent'[m] \notin T
      BY <1>4, <1>5, <2>2
    <3> QED BY <1>4, <1>5, <3>1 DEF NoLoop, Loopless, SequentialInv
  <2>3. CASE p \in Alive /\ MayGoUnder(Current, m, p)
    <3>1. Current \in View /\ Current.alive = Alive /\ Current.parent = parent
      BY <1>4 DEF Current, View, TypeOK
    <3>2. Loopless(Alive, [parent EXCEPT ![m] = p])
      BY <1>b, <2>3, <3>1, MoveMakesNoLoop DEF NoLoop, SequentialInv
    <3>3. parent' = [parent EXCEPT ![m] = p]
      BY <1>3, <1>b DEF TypeOK
    <3> QED BY <1>4, <3>2, <3>3 DEF NoLoop
  <2> QED BY <1>3, <1>c, <2>1, <2>2, <2>3
<1> QED BY <1>1, <1>6, <1>7, <1>8, NoOtherWork DEF OneAtATime, SequentialInv

(***************************************************************************)
(* MenuService.delete takes a leaf off the forest.                          *)
(***************************************************************************)
LEMMA DeleteStep ==
  ASSUME TypeOK, SequentialInv, NEW r \in Request, Delete(r)
  PROVE  SequentialInv'
<1>1. End(r) /\ view[r] = Current /\ UNCHANGED <<made, parent, name>>
  BY DEF Delete, End, SequentialInv
<1>a. view[r].alive = Alive /\ view[r].parent = parent
  BY <1>1 DEF Current
<1>2. PICK m \in Alive :
        /\ \A k \in Alive : parent[k] # m
        /\ deleted' = [deleted EXCEPT ![m] = now]
  BY <1>a DEF Delete
<1>3. Alive' = Alive \ {m}
  BY <1>1, <1>2 DEF Alive, TypeOK
<1>4. ParentsAlive' /\ SiblingsDiffer'
  BY <1>1, <1>2, <1>3 DEF ParentsAlive, SiblingsDiffer, SequentialInv
<1>5. NoLoop'
  BY <1>1, <1>3 DEF NoLoop, Loopless, SequentialInv
<1> QED BY <1>1, <1>4, <1>5, NoOtherWork DEF OneAtATime, SequentialInv

(***************************************************************************)
(* The forest stays in order whatever MenuService does, until two requests  *)
(* overlap.                                                                 *)
(***************************************************************************)
LEMMA SequentialInvariant == Spec => [](~raced => SequentialInv)
<1>1. Init => SequentialInv
  BY DEF Init, SequentialInv, OneAtATime, ParentsAlive, SiblingsDiffer, NoLoop, Loopless, Alive
<1>2. TypeOK /\ (~raced => SequentialInv) /\ [Next]_vars => (~raced' => SequentialInv')
  <2> SUFFICES ASSUME TypeOK, ~raced => SequentialInv, [Next]_vars, ~raced'
               PROVE  SequentialInv'
    OBVIOUS
  <2>0. ~raced
    BY DEF Next, Begin, Create, Update, Delete, Refuse, End, Tick, vars
  <2>1. ASSUME UNCHANGED rows, OneAtATime', \A r \in Request : pc'[r] = "work" => view'[r] = Current
        PROVE  SequentialInv'
    BY <2>0, <2>1 DEF rows, SequentialInv, ParentsAlive, SiblingsDiffer, NoLoop, Alive, Current
  <2>2. CASE UNCHANGED vars
    BY <2>0, <2>1, <2>2 DEF vars, OneAtATime, SequentialInv
  <2>3. CASE Tick
    BY <2>0, <2>1, <2>3 DEF Tick, OneAtATime, SequentialInv
  <2>4. ASSUME NEW r \in Request, Begin(r) PROVE SequentialInv'
    <3>1. \A q \in Request : pc[q] # "work"
      BY <2>4 DEF Begin
    <3>2. OneAtATime' /\ \A q \in Request : pc'[q] = "work" => view'[q] = Current
      BY <2>4, <3>1 DEF Begin, OneAtATime, TypeOK
    <3> QED BY <2>1, <2>4, <3>2 DEF Begin
  <2>5. ASSUME NEW r \in Request, Refuse(r) PROVE SequentialInv'
    <3>1. \A q \in Request : pc'[q] # "work"
      BY <2>0, <2>5, NoOtherWork DEF Refuse, SequentialInv
    <3> QED BY <2>1, <2>5, <3>1 DEF Refuse, OneAtATime
  <2> QED BY <2>0, <2>2, <2>3, <2>4, <2>5, CreateStep, UpdateStep, DeleteStep DEF Next
<1> QED BY <1>1, <1>2, TypeCorrect, PTL DEF Spec

(***************************************************************************)
(* Until two requests overlap, no menu hangs under a missing one            *)
(* (_ensure_parent_exists, list_children).                                  *)
(***************************************************************************)
THEOREM ParentsExist == Spec => []NoOrphanWithoutRace
<1>1. (~raced => SequentialInv) => NoOrphanWithoutRace
  BY DEF SequentialInv, NoOrphanWithoutRace
<1> QED BY <1>1, SequentialInvariant, PTL

(***************************************************************************)
(* Until two requests overlap, no two siblings share a name                 *)
(* (_ensure_name_available).                                                *)
(***************************************************************************)
THEOREM NamesAreUnique == Spec => []NoNamesakeWithoutRace
<1>1. (~raced => SequentialInv) => NoNamesakeWithoutRace
  BY DEF SequentialInv, NoNamesakeWithoutRace
<1> QED BY <1>1, SequentialInvariant, PTL

(***************************************************************************)
(* The moves MenuService.update allows never make a loop until two requests *)
(* overlap, so that get_tree returns every menu.                            *)
(***************************************************************************)
THEOREM TreeIsWhole == Spec => []BoardIsWholeWithoutRace
<1>1. (~raced => SequentialInv) => BoardIsWholeWithoutRace
  BY ForestIsShown DEF SequentialInv, NoLoop, BoardIsWholeWithoutRace
<1> QED BY <1>1, SequentialInvariant, PTL

-----------------------------------------------------------------------------
(* The refinement: every step of MenuTree is a step of MenuBoard or none.   *)

Placing(S, up, nm) == [m \in S |-> [parent |-> up[m], name |-> nm[m]]]
Gone == {m \in made : deleted[m] # 0}

(***************************************************************************)
(* MenuService.create adds one menu to the board.                           *)
(***************************************************************************)
LEMMA CreateAdds ==
  ASSUME TypeOK, ~raced => SequentialInv, NEW r \in Request, Create(r)
  PROVE  Board!BoardNext
<1>1. PICK m \in Menu \ made, p \in view[r].alive \union {NoMenu}, n \in Name :
        /\ ~Taken(view[r], p, n)
        /\ made' = made \union {m}
        /\ parent' = [parent EXCEPT ![m] = p]
        /\ name' = [name EXCEPT ![m] = n]
        /\ UNCHANGED deleted
  BY DEF Create
<1>2. End(r) /\ UNCHANGED raced
  BY DEF Create, End
<1>3. p \in Menu \union {NoMenu}
  BY <1>1 DEF TypeOK
<1>4. Alive' = Alive \union {m} /\ m \notin Alive \union Gone /\ Alive \subseteq Menu /\ Gone' = Gone
  BY <1>1 DEF Alive, Gone, TypeOK
<1>5. ~raced => p \in Alive \union {NoMenu} /\ \A k \in Alive : ~(parent[k] = p /\ name[k] = n)
  BY <1>1, <1>2 DEF End, SequentialInv, Current, Taken
<1>6. Placing(Alive', parent', name')
        = [k \in Alive \union {m} |-> IF k = m THEN [parent |-> p, name |-> n]
                                               ELSE Placing(Alive, parent, name)[k]]
  BY <1>1, <1>4 DEF Placing, TypeOK
<1>7. Board!Add(m, p, n)
  BY <1>2, <1>4, <1>5, <1>6 DEF Board!Add, Board!Placed, Board!Free, Board!At, Placing, Gone
<1> QED BY <1>1, <1>3, <1>7 DEF Board!BoardNext

(***************************************************************************)
(* The walk of _ensure_not_own_descendant keeps to one side: what it misses *)
(* holds m and everything below it.                                         *)
(***************************************************************************)
LEMMA WalkKeepsApart ==
  ASSUME TypeOK, NEW m \in Alive, NEW p, MayGoUnder(Current, m, p)
  PROVE  Board!Apart(m, p)
<1>1. PICK Walk \in SUBSET Menu :
        /\ p \in Walk
        /\ m \notin Walk
        /\ \A x \in Walk \intersect Alive : parent[x] \in Walk \union {NoMenu}
  BY DEF MayGoUnder, Current
<1>2. NoMenu \notin Alive
  BY MenuAssumption DEF Alive, TypeOK
<1>3. /\ m \in Alive \ Walk
      /\ p \notin Alive \ Walk
      /\ \A k \in Alive : parent[k] \in Alive \ Walk => k \in Alive \ Walk
  BY <1>1, <1>2
<1> QED BY <1>3 DEF Board!Apart, Board!Placed

(***************************************************************************)
(* MenuService.update changes one menu of the board; one that has been      *)
(* deleted meanwhile, and one sent as it was, it leaves as they are.        *)
(***************************************************************************)
LEMMA UpdateChanges ==
  ASSUME TypeOK, ~raced => SequentialInv, NEW r \in Request, Update(r)
  PROVE  [Board!BoardNext]_(Board!board)
<1> USE MenuAssumption
<1> DEFINE v == view[r]
<1>1. End(r) /\ UNCHANGED <<made, deleted, raced>>
  BY DEF Update, End
<1>2. PICK m \in v.alive, n \in Name : \E p \in v.alive \union {NoMenu, v.parent[m]} :
        /\ p \in {NoMenu, v.parent[m]} \/ MayGoUnder(v, m, p)
        /\ <<p, n>> # <<v.parent[m], v.name[m]>> => ~Taken(v, p, n)
        /\ parent' = [parent EXCEPT ![m] = IF p = v.parent[m] THEN @ ELSE p]
        /\ name' = [name EXCEPT ![m] = IF n = v.name[m] THEN @ ELSE n]
  BY DEF Update
<1>3. PICK p \in v.alive \union {NoMenu, v.parent[m]} :
        /\ p \in {NoMenu, v.parent[m]} \/ MayGoUnder(v, m, p)
        /\ <<p, n>> # <<v.parent[m], v.name[m]>> => ~Taken(v, p, n)
        /\ parent' = [parent EXCEPT ![m] = IF p = v.parent[m] THEN @ ELSE p]
        /\ name' = [name EXCEPT ![m] = IF n = v.name[m] THEN @ ELSE n]
  BY <1>2
<1>4. v \in View /\ v.alive \subseteq made /\ made \subseteq Menu
  BY DEF TypeOK
<1>5. Alive' = Alive /\ Alive \subseteq made /\ Gone' = Gone
  BY <1>1 DEF Alive, Gone
<1>6. \A k \in Alive \ {m} : parent'[k] = parent[k] /\ name'[k] = name[k]
  BY <1>3, <1>4, <1>5 DEF TypeOK
<1>7. ASSUME \A k \in Alive : parent'[k] = parent[k] /\ name'[k] = name[k]
      PROVE  UNCHANGED Board!board
  BY <1>1, <1>5, <1>7 DEF Board!board, Gone
<1>8. ASSUME m \in Alive, <<parent'[m], name'[m]>> # <<parent[m], name[m]>>
      PROVE  Board!BoardNext
  <2>1. PICK q \in Menu \union {NoMenu}, o \in Name : q = parent'[m] /\ o = name'[m]
    BY <1>3, <1>4, <1>8 DEF View, TypeOK
  <2>2. Placing(Alive', parent', name')
          = [Placing(Alive, parent, name) EXCEPT ![m] = [parent |-> q, name |-> o]]
    BY <1>5, <1>6, <1>8, <2>1 DEF Placing
  <2>3. ASSUME ~raced
        PROVE  /\ q \in {NoMenu, parent[m]} \/ (q \in Alive /\ Board!Apart(m, q))
               /\ \A k \in Alive : ~(parent[k] = q /\ name[k] = o)
    <3>1. v = Current /\ v.alive = Alive /\ v.parent = parent /\ v.name = name
      BY <1>1, <2>3 DEF End, SequentialInv, Current
    <3>2. q = p /\ o = n
      BY <1>3, <1>4, <2>1, <3>1 DEF TypeOK
    <3>3. ~Taken(Current, p, n)
      BY <1>3, <1>8, <2>1, <3>1, <3>2
    <3>4. p \in {NoMenu, parent[m]} \/ (p \in Alive /\ MayGoUnder(Current, m, p))
      BY <1>3, <3>1
    <3>5. p \in {NoMenu, parent[m]} \/ (p \in Alive /\ Board!Apart(m, p))
      BY <1>8, <3>4, WalkKeepsApart
    <3>6. \A k \in Alive : ~(parent[k] = p /\ name[k] = n)
      BY <3>3 DEF Taken, Current
    <3> QED BY <3>2, <3>5, <3>6
  <2>4. Board!Change(m, q, o)
    BY <1>1, <1>5, <1>8, <2>2, <2>3 DEF Board!Change, Board!Placed, Board!Free, Board!At, Placing, Gone
  <2> QED BY <1>4, <2>4 DEF Board!BoardNext
<1> QED BY <1>6, <1>7, <1>8

(***************************************************************************)
(* MenuService.delete takes one menu off the board, or finds it gone.       *)
(***************************************************************************)
LEMMA DeleteRemoves ==
  ASSUME TypeOK, ~raced => SequentialInv, NEW r \in Request, Delete(r)
  PROVE  [Board!BoardNext]_(Board!board)
<1>1. End(r) /\ UNCHANGED <<made, parent, name, raced>>
  BY DEF Delete, End
<1>2. PICK m \in view[r].alive :
        /\ \A k \in view[r].alive : view[r].parent[k] # m
        /\ deleted' = [deleted EXCEPT ![m] = now]
  BY DEF Delete
<1>3. m \in made /\ m \in Menu /\ now # 0
  BY DEF TypeOK
<1>4. Alive' = Alive \ {m} /\ Gone' = Gone \union {m}
  BY <1>1, <1>2, <1>3 DEF Alive, Gone, TypeOK
<1>5. CASE m \in Alive
  <2>1. ~raced => \A k \in Alive : parent[k] # m
    BY <1>1, <1>2 DEF End, SequentialInv, Current
  <2>2. Placing(Alive', parent', name') = [k \in Alive \ {m} |-> Placing(Alive, parent, name)[k]]
    BY <1>1, <1>4 DEF Placing
  <2>3. Board!Remove(m)
    BY <1>1, <1>4, <1>5, <2>1, <2>2 DEF Board!Remove, Board!Placed, Placing, Gone
  <2> QED BY <1>3, <2>3 DEF Board!BoardNext
<1>6. CASE m \notin Alive
  <2>1. Alive' = Alive /\ Gone' = Gone
    BY <1>3, <1>4, <1>6 DEF Alive, Gone
  <2> QED BY <1>1, <2>1 DEF Board!board, Gone
<1> QED BY <1>5, <1>6

(***************************************************************************)
(* MenuService implements MenuBoard, whatever interleaves: each request is  *)
(* one change of one menu, by the rules of the board as it is until two     *)
(* requests overlap, and no deleted menu returns.                           *)
(***************************************************************************)
THEOREM Implements == Spec => ImplementsMenuBoard
<1>1. Init => Board!BoardInit
  <2>1. Init => Alive = {} /\ Gone = {}
    BY DEF Init, Alive, Gone
  <2> QED BY <2>1 DEF Init, Board!BoardInit, Gone
<1>2. TypeOK /\ (~raced => SequentialInv) /\ [Next]_vars => [Board!BoardNext]_(Board!board)
  <2> SUFFICES ASSUME TypeOK, ~raced => SequentialInv, [Next]_vars
               PROVE  [Board!BoardNext]_(Board!board)
    OBVIOUS
  <2>1. ASSUME UNCHANGED rows PROVE UNCHANGED <<Placing(Alive, parent, name), Gone>>
    BY <2>1 DEF rows, Alive, Gone, Placing
  <2>2. ASSUME UNCHANGED <<rows, raced>> PROVE UNCHANGED Board!board
    BY <2>1, <2>2 DEF Board!board, Placing, Gone
  <2>3. ASSUME NEW r \in Request, Begin(r) PROVE [Board!BoardNext]_(Board!board)
    <3>1. UNCHANGED rows /\ (raced' = raced \/ raced' = TRUE)
      BY <2>3 DEF Begin, TypeOK
    <3>2. ASSUME raced' = TRUE PROVE Board!BoardNext
      BY <2>1, <3>1, <3>2 DEF Board!BoardNext, Board!Overlap, Placing, Gone
    <3> QED BY <2>2, <3>1, <3>2
  <2>4. ASSUME NEW r \in Request, Refuse(r) PROVE UNCHANGED Board!board
    BY <2>2, <2>4 DEF Refuse, End
  <2>5. Tick \/ UNCHANGED vars => UNCHANGED Board!board
    BY <2>2 DEF Tick, vars
  <2> QED BY <2>3, <2>4, <2>5, CreateAdds, UpdateChanges, DeleteRemoves DEF Next
<1> QED BY <1>1, <1>2, TypeCorrect, SequentialInvariant, PTL DEF Spec, ImplementsMenuBoard, Board!BoardSpec

=============================================================================
