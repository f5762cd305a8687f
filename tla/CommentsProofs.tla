--------------------------- MODULE CommentsProofs ---------------------------
(* Proofs about Comments, for any users, posts, comments and requests.      *)
EXTENDS Comments, FiniteSetTheorems, TLAPS

Snapshot == [alive : SUBSET made, public : SUBSET Post, nick : [User -> Nick \union {NoNick}]]

(***************************************************************************)
(* A request ends or begins within the types (comment_service.py).          *)
(***************************************************************************)
LEMMA SessionStep ==
  ASSUME TypeOK, NEW r \in Request, Begin(r) \/ Free(r)
  PROVE  /\ user' \in [Request -> User \union {NoUser}]
         /\ view' \in [Request -> Snapshot]
         /\ public' \in SUBSET Post
         /\ raced' \in BOOLEAN
<1>1. NoView \in Snapshot
  BY DEF NoView, Snapshot
<1>2. [alive |-> made \ gone, public |-> public, nick |-> nick] \in Snapshot
  BY DEF TypeOK, Snapshot
<1>3. raced' \in BOOLEAN
  BY DEF Begin, Free, TypeOK
<1>4. PICK v \in Snapshot, u \in User \union {NoUser} :
        view' = [view EXCEPT ![r] = v] /\ user' = [user EXCEPT ![r] = u]
  BY <1>1, <1>2 DEF Begin, Free
<1>5. public' = public
  BY DEF Begin, Free
<1> QED BY <1>3, <1>4, <1>5 DEF TypeOK, Snapshot

(***************************************************************************)
(* Each step preserves the types (all of CommentService).                   *)
(***************************************************************************)
LEMMA TypeStep == TypeOK /\ [Next]_vars => TypeOK'
<1> SUFFICES ASSUME TypeOK, [Next]_vars PROVE TypeOK'
  OBVIOUS
<1> USE CommentsAssumption
<1>1. CASE UNCHANGED vars
  BY <1>1 DEF vars, comments, TypeOK
<1>2. ASSUME NEW r \in Request, Begin(r) PROVE TypeOK'
  BY <1>2, SessionStep DEF Begin, comments, TypeOK, Snapshot
<1>3. ASSUME NEW r \in Request, Create(r) PROVE TypeOK'
  <2>1. PICK c \in Comment \ made, p \in Commentable(r), t \in Nick \union {NoNick},
             q \in made \union {NoComment} :
          /\ made' = made \union {c}
          /\ post' = [post EXCEPT ![c] = p]
          /\ author' = [author EXCEPT ![c] = user[r]]
          /\ parent' = [parent EXCEPT ![c] = q]
          /\ text' = [text EXCEPT ![c] = t]
          /\ UNCHANGED gone
    BY <1>3 DEF Create, Commentable
  <2>2. Free(r) /\ UNCHANGED <<nick, told>> /\ user[r] \in User
    BY <1>3 DEF Create, End, Free, TypeOK
  <2>3. Commentable(r) \subseteq Post
    BY DEF TypeOK, Commentable
  <2>4. view' \in [Request -> Snapshot']
    <3>1. Snapshot \subseteq Snapshot'
      BY <2>1 DEF Snapshot
    <3> QED BY <2>2, <3>1, SessionStep
  <2>5. q \in Comment \union {NoComment} /\ p \in Post
    BY <2>3 DEF TypeOK
  <2>6. /\ made' \in SUBSET Comment
        /\ gone' \in SUBSET made'
        /\ post' \in [Comment -> Post \union {NoPost}]
        /\ author' \in [Comment -> User \union {NoUser}]
        /\ parent' \in [Comment -> Comment \union {NoComment}]
        /\ text' \in [Comment -> Nick \union {NoNick}]
    BY <2>1, <2>2, <2>5 DEF TypeOK
  <2>7. \A d \in Comment :
          /\ d \in made' => post'[d] \in Post /\ author'[d] \in User
          /\ d \notin made' => post'[d] = NoPost /\ author'[d] = NoUser /\ parent'[d] = NoComment
    BY <2>1, <2>2, <2>5 DEF TypeOK
  <2> QED BY <2>2, <2>4, <2>6, <2>7, SessionStep DEF TypeOK, Snapshot
<1>4. ASSUME NEW r \in Request, Update(r) PROVE TypeOK'
  <2>1. PICK c \in Comment, t \in Nick \union {NoNick} :
          /\ text' = [text EXCEPT ![c] = t]
          /\ UNCHANGED <<made, gone, post, author, parent>>
    BY <1>4 DEF Update, Owned, TypeOK
  <2>2. Free(r) /\ UNCHANGED <<nick, told>>
    BY <1>4 DEF Update, End
  <2> QED BY <2>1, <2>2, SessionStep DEF TypeOK, Snapshot
<1>5. ASSUME NEW r \in Request, Delete(r) PROVE TypeOK'
  <2>1. PICK c \in made : gone' = gone \union {c}
    BY <1>5 DEF Delete, Owned, TypeOK
  <2>2. Free(r) /\ UNCHANGED <<nick, told>> /\ UNCHANGED <<made, post, author, parent, text>>
    BY <1>5 DEF Delete, End
  <2> QED BY <2>1, <2>2, SessionStep DEF TypeOK, Snapshot
<1>6. ASSUME NEW r \in Request, NEW n \in Nick, RefuseMention(r, n) PROVE TypeOK'
  BY <1>6, SessionStep DEF RefuseMention, comments, TypeOK, Snapshot
<1>7. ASSUME NEW r \in Request, Refuse(r) PROVE TypeOK'
  BY <1>7, SessionStep DEF Refuse, End, comments, TypeOK, Snapshot
<1>8. ASSUME NEW p \in public, Withdraw(p) PROVE TypeOK'
  BY <1>8 DEF Withdraw, comments, TypeOK
<1>9. ASSUME NEW r \in Request, Rename(r) PROVE TypeOK'
  <2>1. PICK u \in User, n \in Nick \union {NoNick} : nick' = [nick EXCEPT ![u] = n]
    BY <1>9 DEF Rename, Free, TypeOK
  <2>2. nick' \in [User -> Nick \union {NoNick}]
    BY <2>1 DEF TypeOK
  <2> QED BY <1>9, <2>2, SessionStep DEF Rename, comments, TypeOK, Snapshot
<1>10. ASSUME NEW u \in User, NEW n \in Nick, SignUp(u, n) PROVE TypeOK'
  BY <1>10 DEF SignUp, comments, TypeOK
<1> QED BY <1>1, <1>2, <1>3, <1>4, <1>5, <1>6, <1>7, <1>8, <1>9, <1>10 DEF Next

(***************************************************************************)
(* The types hold in every behaviour (all of CommentService).               *)
(***************************************************************************)
THEOREM TypeCorrect == Spec => []TypeOK
<1>1. Init => TypeOK
  <2>1. Init => raced \in BOOLEAN
    BY DEF Init
  <2> QED BY <2>1, CommentsAssumption DEF Init, NoView, TypeOK
<1> QED BY <1>1, TypeStep, PTL DEF Spec

(***************************************************************************)
(* However requests interleave, replies stay one level deep and on their    *)
(* post (CommentService.create): a comment's post and parent never change,  *)
(* so what the snapshot said of parent_comment is still so at the INSERT.   *)
(***************************************************************************)
THEOREM RepliesStayFlat == Spec => []RepliesAreFlat
<1>1. Init => RepliesAreFlat
  BY DEF Init, RepliesAreFlat
<1>2. TypeOK /\ RepliesAreFlat /\ [Next]_vars => RepliesAreFlat'
  <2> SUFFICES ASSUME TypeOK, RepliesAreFlat, [Next]_vars PROVE RepliesAreFlat'
    OBVIOUS
  <2>1. CASE UNCHANGED <<made, post, parent>>
    BY <2>1 DEF RepliesAreFlat
  <2>2. ASSUME NEW r \in Request, Create(r) PROVE RepliesAreFlat'
    <3>1. PICK c \in Comment \ made, p \in Commentable(r), t \in Nick \union {NoNick},
               q \in made \union {NoComment} :
            /\ q # NoComment => MayReplyTo(view[r], p, q)
            /\ made' = made \union {c}
            /\ post' = [post EXCEPT ![c] = p]
            /\ parent' = [parent EXCEPT ![c] = q]
      BY <2>2 DEF Create, Commentable
    <3>2. /\ post'[c] = p /\ parent'[c] = q
          /\ \A d \in made : post'[d] = post[d] /\ parent'[d] = parent[d]
      BY <3>1 DEF TypeOK
    <3>3. q # NoComment => q \in made /\ post[q] = p /\ parent[q] = NoComment
      BY <3>1 DEF MayReplyTo
    <3>4. ASSUME NEW d \in made, parent[d] # NoComment PROVE parent[d] \in made
      BY <3>4 DEF RepliesAreFlat
    <3> QED BY <3>1, <3>2, <3>3, <3>4 DEF RepliesAreFlat
  <2>3. ASSUME NEW r \in Request, NEW n \in Nick, RefuseMention(r, n)
        PROVE  UNCHANGED <<made, post, parent>>
    BY <2>3 DEF RefuseMention, comments
  <2>4. ASSUME NEW r \in Request, Begin(r) \/ Update(r) \/ Delete(r) \/ Refuse(r) \/ Rename(r)
        PROVE  UNCHANGED <<made, post, parent>>
    BY <2>4 DEF Begin, Update, Delete, Refuse, Rename, comments
  <2>5. ASSUME NEW p \in public, Withdraw(p) PROVE UNCHANGED <<made, post, parent>>
    BY <2>5 DEF Withdraw, comments
  <2>6. ASSUME NEW u \in User, NEW n \in Nick, SignUp(u, n) PROVE UNCHANGED <<made, post, parent>>
    BY <2>6 DEF SignUp, comments
  <2> QED BY <2>1, <2>2, <2>3, <2>4, <2>5, <2>6 DEF Next, vars, comments
<1> QED BY <1>1, <1>2, TypeCorrect, PTL DEF Spec

(***************************************************************************)
(* However requests interleave, only its author edits or deletes a comment, *)
(* and a deletion is final (CommentService._get_owned, update, delete).     *)
(***************************************************************************)
THEOREM AuthorsDecideAlways == Spec => AuthorsDecide
<1> DEFINE Fair(c) ==
      /\ c \in gone => c \in gone'
      /\ (text[c] # text'[c] \/ (c \in gone) # (c \in gone')) =>
            \E r \in Request : user[r] = author[c] /\ user'[r] = NoUser
<1>1. ASSUME TypeOK, Next, NEW c \in made PROVE Fair(c)
  <2>1. CASE UNCHANGED <<text, gone>>
    BY <2>1
  <2>2. ASSUME NEW r \in Request, Create(r) PROVE Fair(c)
    <3>1. PICK d \in Comment \ made, t \in Nick \union {NoNick} :
            text' = [text EXCEPT ![d] = t] /\ UNCHANGED gone
      BY <2>2 DEF Create, Commentable
    <3> QED BY <1>1, <3>1 DEF TypeOK
  <2>3. ASSUME NEW r \in Request, Free(r) PROVE user'[r] = NoUser
    BY <1>1, <2>3 DEF Free, TypeOK
  <2>4. ASSUME NEW r \in Request, Update(r) PROVE Fair(c)
    <3>1. PICK d \in Owned(r), t \in Nick \union {NoNick} :
            text' = [text EXCEPT ![d] = t] /\ UNCHANGED gone
      BY <2>4 DEF Update
    <3>2. author[d] = user[r] /\ user'[r] = NoUser
      BY <2>3, <2>4 DEF Owned, Update, End
    <3>3. c # d => text'[c] = text[c]
      BY <1>1, <3>1 DEF TypeOK
    <3> QED BY <3>1, <3>2, <3>3
  <2>5. ASSUME NEW r \in Request, Delete(r) PROVE Fair(c)
    <3>1. PICK d \in Owned(r) : gone' = gone \union {d}
      BY <2>5 DEF Delete
    <3>2. author[d] = user[r] /\ user'[r] = NoUser /\ UNCHANGED text
      BY <2>3, <2>5 DEF Owned, Delete, End
    <3> QED BY <3>1, <3>2
  <2>6. ASSUME NEW r \in Request, Begin(r) \/ Refuse(r) \/ Rename(r) PROVE UNCHANGED <<text, gone>>
    BY <2>6 DEF Begin, Refuse, Rename, comments
  <2>7. ASSUME NEW r \in Request, NEW n \in Nick, RefuseMention(r, n)
        PROVE  UNCHANGED <<text, gone>>
    BY <2>7 DEF RefuseMention, comments
  <2>8. ASSUME NEW p \in public, Withdraw(p) PROVE UNCHANGED <<text, gone>>
    BY <2>8 DEF Withdraw, comments
  <2>9. ASSUME NEW u \in User, NEW n \in Nick, SignUp(u, n) PROVE UNCHANGED <<text, gone>>
    BY <2>9 DEF SignUp, comments
  <2> QED BY <1>1, <2>1, <2>2, <2>4, <2>5, <2>6, <2>7, <2>8, <2>9 DEF Next
<1>2. TypeOK /\ [Next]_vars => [\A c \in made : Fair(c)]_vars
  BY <1>1
<1> QED BY <1>2, TypeCorrect, PTL DEF Spec, AuthorsDecide

-----------------------------------------------------------------------------
(***************************************************************************)
(* Until two requests overlap, the comments a request sees are those there  *)
(* are (get_current_user opens the snapshot; each handler ends its own).    *)
(***************************************************************************)
LEMMA SnapshotStaysCurrent == Spec => [](~raced => SnapshotIsCurrent)
<1>1. Init => SnapshotIsCurrent
  BY DEF Init, SnapshotIsCurrent
<1>2. TypeOK /\ (~raced => SnapshotIsCurrent) /\ [Next]_vars => (~raced' => SnapshotIsCurrent')
  <2> SUFFICES ASSUME TypeOK, ~raced => SnapshotIsCurrent, [Next]_vars, ~raced'
               PROVE  SnapshotIsCurrent'
    OBVIOUS
  <2>1. ~raced
    BY DEF Next, vars, Begin, Create, Update, Delete, Refuse, RefuseMention, Rename, SignUp,
       End, Free, Withdraw
  <2>2. ASSUME UNCHANGED <<made, gone, user, view>> PROVE SnapshotIsCurrent'
    BY <2>1, <2>2 DEF SnapshotIsCurrent
  <2>3. ASSUME NEW r \in Request, Begin(r) PROVE SnapshotIsCurrent'
    <3>1. \A q \in Request : user[q] = NoUser
      BY <2>3 DEF Begin
    <3>2. \A q \in Request : q # r => user'[q] = NoUser
      BY <2>3, <3>1 DEF Begin, TypeOK
    <3>3. view'[r].alive = made' \ gone'
      BY <2>3 DEF Begin, comments, TypeOK
    <3> QED BY <3>2, <3>3 DEF SnapshotIsCurrent
  <2>4. ASSUME NEW r \in Request, Free(r) PROVE SnapshotIsCurrent'
    <3>1. \A q \in Request : user'[q] = NoUser
      BY <2>1, <2>4 DEF Free, SnapshotIsCurrent, TypeOK
    <3> QED BY <3>1 DEF SnapshotIsCurrent
  <2>5. ASSUME NEW r \in Request, Create(r) \/ Update(r) \/ Delete(r) \/ Refuse(r) \/ Rename(r)
        PROVE  Free(r)
    BY <2>5 DEF Create, Update, Delete, Refuse, Rename, End
  <2>6. ASSUME NEW r \in Request, NEW n \in Nick, RefuseMention(r, n) PROVE Free(r)
    BY <2>6 DEF RefuseMention
  <2>7. ASSUME NEW p \in public, Withdraw(p) PROVE UNCHANGED <<made, gone, user, view>>
    BY <2>7 DEF Withdraw, comments
  <2>8. ASSUME NEW u \in User, NEW n \in Nick, SignUp(u, n) PROVE UNCHANGED <<made, gone, user, view>>
    BY <2>8 DEF SignUp, comments
  <2> QED BY <2>2, <2>3, <2>4, <2>5, <2>6, <2>7, <2>8 DEF Next, vars, comments
<1> QED BY <1>1, <1>2, TypeCorrect, PTL DEF Spec

(***************************************************************************)
(* Until two requests overlap, no reply is written under a deleted comment  *)
(* (get_parent_comment in CommentService.create).                           *)
(***************************************************************************)
THEOREM RepliesMeetComments == Spec => RepliesMeetTheirCommentWithoutRace
<1> DEFINE Met == \A c \in made' \ made : ~raced => parent'[c] \notin gone
<1>1. TypeOK /\ (~raced => SnapshotIsCurrent) /\ [Next]_vars => [Met]_vars
  <2> SUFFICES ASSUME TypeOK, SnapshotIsCurrent, Next PROVE Met
    BY DEF Next
  <2>1. ASSUME NEW r \in Request, Create(r) PROVE Met
    <3>1. PICK c \in Comment \ made, p \in Commentable(r), t \in Nick \union {NoNick},
               q \in made \union {NoComment} :
            /\ q # NoComment => MayReplyTo(view[r], p, q)
            /\ made' = made \union {c}
            /\ parent' = [parent EXCEPT ![c] = q]
      BY <2>1 DEF Create
    <3>2. view[r].alive = made \ gone
      BY <2>1 DEF Create, End, Free, SnapshotIsCurrent
    <3>3. q \notin gone
      BY <3>1, <3>2, CommentsAssumption DEF MayReplyTo, TypeOK
    <3>4. parent'[c] = q
      BY <3>1 DEF TypeOK
    <3> QED BY <3>1, <3>3, <3>4
  <2>2. ASSUME NEW r \in Request, Begin(r) \/ Update(r) \/ Delete(r) \/ Refuse(r) \/ Rename(r)
        PROVE  UNCHANGED made
    BY <2>2 DEF Begin, Update, Delete, Refuse, Rename, comments
  <2>3. ASSUME NEW r \in Request, NEW n \in Nick, RefuseMention(r, n) PROVE UNCHANGED made
    BY <2>3 DEF RefuseMention, comments
  <2>4. ASSUME NEW p \in public, Withdraw(p) PROVE UNCHANGED made
    BY <2>4 DEF Withdraw, comments
  <2>5. ASSUME NEW u \in User, NEW n \in Nick, SignUp(u, n) PROVE UNCHANGED made
    BY <2>5 DEF SignUp, comments
  <2> QED BY <2>1, <2>2, <2>3, <2>4, <2>5 DEF Next
<1> QED BY <1>1, SnapshotStaysCurrent, TypeCorrect, PTL DEF Spec, RepliesMeetTheirCommentWithoutRace

-----------------------------------------------------------------------------
(***************************************************************************)
(* A search that misses a user with the very nickname, although the pattern *)
(* matches it, has filled its LIMIT with others (search_mention_users).     *)
(***************************************************************************)
LEMMA SearchMissesOnlyWhenFull ==
  ASSUME NEW nk, NEW n \in Nick, NEW u \in User, nk[u] = n, n \in matched[n],
         MentionsFail(nk, n)
  PROVE  Cardinality(Matching(nk, n)) > MentionLimit
<1> USE CommentsAssumption
<1>1. PICK found \in SUBSET User :
         MayFind(nk, n, found) /\ \A v \in found : nk[v] # n
  BY DEF MentionsFail
<1>2. u \in Matching(nk, n) /\ u \notin found
  BY <1>1 DEF Matching
<1> PICK all : all = Matching(nk, n)
  OBVIOUS
<1>3. found \subseteq all /\ found # all /\ Cardinality(found) = MentionLimit
  BY <1>1, <1>2 DEF MayFind
<1>4. IsFiniteSet(all)
  BY FS_Subset DEF Matching
<1>5. /\ IsFiniteSet(found) /\ Cardinality(found) <= Cardinality(all)
      /\ Cardinality(all) = Cardinality(found) => all = found
  BY <1>3, <1>4, FS_Subset
<1>6. Cardinality(all) \in Nat
  BY <1>4, FS_CardinalityType
<1> QED BY <1>3, <1>5, <1>6

(***************************************************************************)
(* Whatever the order MySQL gives the users in, and whoever signs up or is  *)
(* renamed during the request, _validate_mentions lets in a nickname only   *)
(* if somebody had it, and refuses one that somebody had only for LIMIT or  *)
(* for a pattern that does not match itself.                                *)
(***************************************************************************)
THEOREM MentionsJudged == Spec => MentionsAreJudgedBySnapshot
<1> DEFINE LetIn == \A c \in Comment : text'[c] \notin {text[c], NoNick} =>
               \E r \in Request : JudgedFor(r, c) /\ Bearers(view[r].nick, text'[c]) # {}
           Cause(nk, n) == \/ Bearers(nk, n) = {}
                           \/ n \notin matched[n]
                           \/ Cardinality(Matching(nk, n)) > MentionLimit
           Refused == \A r \in Request :
               told'[r] \notin {told[r], NoNick} => Cause(view[r].nick, told'[r])
<1>1. ASSUME NEW nk, NEW n \in Nick, MentionsFail(nk, n) PROVE Cause(nk, n)
  BY <1>1, SearchMissesOnlyWhenFull DEF Bearers
<1>2. ASSUME NEW nk, NEW t \in Nick \union {NoNick}, MentionsPass(nk, t), t # NoNick
      PROVE  Bearers(nk, t) # {}
  BY <1>2 DEF MentionsPass, Bearers
<1>3. ASSUME TypeOK, NEW r \in Request, Create(r) \/ Update(r)
      PROVE  LetIn
  <2>1. PICK c \in Comment, t \in Nick \union {NoNick} :
          /\ MentionsPass(view[r].nick, t)
          /\ text' = [text EXCEPT ![c] = t]
          /\ author'[c] = user[r]
    BY <1>3 DEF Create, Update, Owned, Commentable, TypeOK
  <2>2. user'[r] = NoUser
    BY <1>3 DEF Create, Update, End, Free, TypeOK
  <2>3. t # NoNick => Bearers(view[r].nick, t) # {}
    BY <1>2, <2>1
  <2>4. \A d \in Comment : text'[d] = IF d = c THEN t ELSE text[d]
    BY <1>3, <2>1 DEF TypeOK
  <2> QED BY <2>1, <2>2, <2>3, <2>4 DEF JudgedFor
<1>4. ASSUME TypeOK, NEW r \in Request, NEW n \in Nick, RefuseMention(r, n)
      PROVE  Refused
  <2>1. \A q \in Request : told'[q] = IF q = r THEN n ELSE told[q]
    BY <1>4 DEF RefuseMention, TypeOK
  <2>2. Cause(view[r].nick, n)
    BY <1>1, <1>4 DEF RefuseMention
  <2> HIDE DEF Cause
  <2> QED BY <2>1, <2>2
<1>5. ASSUME TypeOK, NEW r \in Request, Begin(r) PROVE Refused /\ UNCHANGED text
  BY <1>5 DEF Begin, comments, TypeOK
<1>6. ASSUME TypeOK, Next PROVE LetIn /\ Refused
  <2> HIDE DEF Cause
  <2>1. UNCHANGED text => LetIn
    OBVIOUS
  <2>2. UNCHANGED told => Refused
    OBVIOUS
  <2> HIDE DEF LetIn, Refused
  <2>3. ASSUME NEW r \in Request, Create(r) \/ Update(r) PROVE UNCHANGED told
    BY <2>3 DEF Create, Update, End
  <2>4. ASSUME NEW r \in Request, Delete(r) \/ Refuse(r) \/ Rename(r)
        PROVE  UNCHANGED <<text, told>>
    BY <2>4 DEF Delete, Refuse, Rename, End, comments
  <2>5. ASSUME NEW r \in Request, NEW n \in Nick, RefuseMention(r, n) PROVE UNCHANGED text
    BY <2>5 DEF RefuseMention, comments
  <2>6. ASSUME NEW u \in User, NEW n \in Nick, SignUp(u, n) PROVE UNCHANGED <<text, told>>
    BY <2>6 DEF SignUp, comments
  <2>7. ASSUME NEW p \in public, Withdraw(p) PROVE UNCHANGED <<text, told>>
    BY <2>7 DEF Withdraw, comments
  <2> QED BY <1>3, <1>4, <1>5, <1>6, <2>1, <2>2, <2>3, <2>4, <2>5, <2>6, <2>7 DEF Next
<1>7. TypeOK /\ [Next]_vars => [LetIn /\ Refused]_vars
  BY <1>6
<1> QED BY <1>7, TypeCorrect, PTL DEF Spec, MentionsAreJudgedBySnapshot

=============================================================================
