------------------------------ MODULE Comments ------------------------------
(***************************************************************************)
(* Comments and replies (app/modules/comments): rows that name a post, an   *)
(* author and, for a reply, a comment; no foreign keys; deletion sets       *)
(* deleted_at.  A request is validated on the snapshot get_current_user     *)
(* took, and its INSERT or UPDATE works on the rows as they are by then.    *)
(*                                                                          *)
(* A text is reduced to the nickname it mentions, if it mentions one.  (A   *)
(* nickname with a blank in it, which split() cuts, no text mentions.)      *)
(***************************************************************************)
EXTENDS Naturals, FiniteSets

CONSTANTS User, Post, Comment, Request, NoUser, NoPost, NoComment,
          Nick,             \* nicknames, and what texts take for one
          NoNick,           \* of a text that mentions no one, and of no user yet
          matched,          \* [Nick -> SUBSET Nick]: the nicknames LIKE '%n%' finds
          MentionLimit      \* LIMIT of search_mention_users (5)

ASSUME CommentsAssumption ==
    /\ NoUser \notin User
    /\ NoPost \notin Post
    /\ NoComment \notin Comment
    /\ NoNick \notin Nick
    /\ matched \in [Nick -> SUBSET Nick]
    /\ MentionLimit \in Nat
    /\ IsFiniteSet(User)

VARIABLES
    made,       \* SUBSET Comment: the rows there are
    gone,       \* SUBSET Comment: rows with a deleted_at
    post,       \* [Comment -> Post or NoPost]
    author,     \* [Comment -> User or NoUser]
    parent,     \* [Comment -> Comment or NoComment]
    text,       \* [Comment -> Nick or NoNick]
    public,     \* SUBSET Post: posts PUBLISHED and not deleted
    nick,       \* [User -> Nick or NoNick]: user_nickname, not unique
    user,       \* [Request -> User or NoUser]: whom it serves, if busy
    view,       \* [Request -> [alive, public, nick]]: the session's snapshot
    told,       \* [Request -> Nick or NoNick]: the nickname its 404 names
    raced       \* history: BOOLEAN: two requests have overlapped

comments == <<made, gone, post, author, parent, text>>
vars == <<comments, public, nick, user, view, told, raced>>

NoView == [alive |-> {}, public |-> {}, nick |-> [u \in User |-> NoNick]]

Init ==
    /\ made = {}
    /\ gone = {}
    /\ post = [c \in Comment |-> NoPost]
    /\ author = [c \in Comment |-> NoUser]
    /\ parent = [c \in Comment |-> NoComment]
    /\ text = [c \in Comment |-> NoNick]
    /\ public = Post
    /\ nick = NoView.nick
    /\ user = [r \in Request |-> NoUser]
    /\ view = [r \in Request |-> NoView]
    /\ told = [r \in Request |-> NoNick]
    /\ raced = FALSE

-----------------------------------------------------------------------------
Begin(r) ==
    /\ user[r] = NoUser
    /\ \E u \in User : nick[u] # NoNick /\ user' = [user EXCEPT ![r] = u]
    /\ view' = [view EXCEPT ![r] = [alive |-> made \ gone, public |-> public, nick |-> nick]]
    /\ told' = [told EXCEPT ![r] = NoNick]
    /\ raced' = (raced \/ \E q \in Request : user[q] # NoUser)
    /\ UNCHANGED <<comments, public, nick>>

Free(r) ==
    /\ user[r] # NoUser
    /\ user' = [user EXCEPT ![r] = NoUser]
    /\ view' = [view EXCEPT ![r] = NoView]
    /\ UNCHANGED <<public, raced>>

End(r) == Free(r) /\ UNCHANGED <<nick, told>>

(* LIKE finds nicknames that hold n, more where % and _ in n are wildcards, *)
(* and not n itself where a backslash in it escapes what follows.           *)
Matching(nk, n) == {u \in User : nk[u] \in matched[n]}

MayFindOneFewer(nk, n, found) ==  \* mutant: LIMIT is one short
    /\ found \subseteq Matching(nk, n)
    /\ Cardinality(found) <= MentionLimit - 1
    /\ found = Matching(nk, n) \/ Cardinality(found) = MentionLimit - 1

(* search_mention_users: some of the users with a matching nickname, no     *)
(* more than the limit and in no order.                                     *)
MayFind(nk, n, found) ==
    /\ found \subseteq Matching(nk, n)
    /\ Cardinality(found) <= MentionLimit
    /\ found = Matching(nk, n) \/ Cardinality(found) = MentionLimit

(* _validate_mentions *)
MentionsPass(nk, t) ==
    t # NoNick =>
        \E found \in SUBSET User : MayFind(nk, t, found) /\ \E u \in found : nk[u] = t

MentionsFail(nk, t) ==
    \E found \in SUBSET User : MayFind(nk, t, found) /\ \A u \in found : nk[u] # t

ReplyToDeleted(v, p, c) == c \in made /\ post[c] = p /\ parent[c] = NoComment  \* mutant: deleted ones too

(* CommentService.create: the three checks on parent_comment. *)
MayReplyTo(v, p, c) == c \in v.alive /\ post[c] = p /\ parent[c] = NoComment

(* _ensure_post_exists *)
Commentable(r) == view[r].public

(* CommentService.create *)
Create(r) ==
    /\ End(r)
    /\ \E c \in Comment \ made, p \in Commentable(r), t \in Nick \union {NoNick},
         q \in made \union {NoComment} :
        /\ q # NoComment => MayReplyTo(view[r], p, q)
        /\ MentionsPass(view[r].nick, t)
        /\ made' = made \union {c}
        /\ post' = [post EXCEPT ![c] = p]
        /\ author' = [author EXCEPT ![c] = user[r]]
        /\ parent' = [parent EXCEPT ![c] = q]
        /\ text' = [text EXCEPT ![c] = t]
        /\ UNCHANGED gone

(* _get_owned *)
Owned(r) == {c \in view[r].alive : author[c] = user[r]}

UpdateWholeRow(r) ==  \* mutant: deleted_at is written back as it was read
    /\ End(r)
    /\ \E c \in Owned(r), t \in Nick \union {NoNick} :
        /\ MentionsPass(view[r].nick, t)
        /\ text' = [text EXCEPT ![c] = t]
        /\ gone' = gone \ {c}
        /\ UNCHANGED <<made, post, author, parent>>

(* CommentService.update *)
Update(r) ==
    /\ End(r)
    /\ \E c \in Owned(r), t \in Nick \union {NoNick} :
        /\ MentionsPass(view[r].nick, t)
        /\ text' = [text EXCEPT ![c] = t]
        /\ UNCHANGED <<made, gone, post, author, parent>>

(* CommentService.delete *)
Delete(r) ==
    /\ End(r)
    /\ \E c \in Owned(r) : gone' = gone \union {c}
    /\ UNCHANGED <<made, post, author, parent, text>>

(* _validate_mentions refuses a comment that mentions n. *)
RefuseMention(r, n) ==
    /\ MentionsFail(view[r].nick, n)
    /\ Free(r)
    /\ told' = [told EXCEPT ![r] = n]
    /\ UNCHANGED <<comments, nick>>

(* UserService.update: PATCH /me writes a nickname that differs from the    *)
(* one its session read.                                                    *)
Rename(r) ==
    /\ Free(r)
    /\ \E n \in Nick :
        nick' = [nick EXCEPT ![user[r]] = IF n = view[r].nick[user[r]] THEN @ ELSE n]
    /\ UNCHANGED <<comments, told>>

(* UserService.create; how sign-ups race is in Accounts.                    *)
SignUp(u, n) ==
    /\ nick[u] = NoNick
    /\ nick' = [nick EXCEPT ![u] = n]
    /\ UNCHANGED <<comments, public, user, view, told, raced>>

(* A read, another check that failed, or an error. *)
Refuse(r) == End(r) /\ UNCHANGED comments

(* PostService.delete, or a report that hides the post. *)
Withdraw(p) ==
    /\ public' = public \ {p}
    /\ UNCHANGED <<comments, nick, user, view, told, raced>>

Next ==
    \/ \E r \in Request :
        \/ Begin(r) \/ Create(r) \/ Update(r) \/ Delete(r) \/ Refuse(r) \/ Rename(r)
        \/ \E n \in Nick : RefuseMention(r, n)
    \/ \E u \in User, n \in Nick : SignUp(u, n)
    \/ \E p \in public : Withdraw(p)

Spec == Init /\ [][Next]_vars

-----------------------------------------------------------------------------
(* Types; a comment has a post and an author, and only a comment that was   *)
(* made is in anyone's snapshot, or deleted.                                *)
TypeOK ==
    /\ made \in SUBSET Comment
    /\ gone \in SUBSET made
    /\ post \in [Comment -> Post \union {NoPost}]
    /\ author \in [Comment -> User \union {NoUser}]
    /\ parent \in [Comment -> Comment \union {NoComment}]
    /\ text \in [Comment -> Nick \union {NoNick}]
    /\ public \in SUBSET Post
    /\ nick \in [User -> Nick \union {NoNick}]
    /\ told \in [Request -> Nick \union {NoNick}]
    /\ raced \in BOOLEAN
    /\ user \in [Request -> User \union {NoUser}]
    /\ view \in [Request -> [alive : SUBSET made, public : SUBSET Post,
                             nick : [User -> Nick \union {NoNick}]]]
    /\ \A c \in Comment :
        /\ c \in made => post[c] \in Post /\ author[c] \in User
        /\ c \notin made => post[c] = NoPost /\ author[c] = NoUser /\ parent[c] = NoComment

(***************************************************************************)
(* A reply is one to a top-level comment of its own post, whatever was      *)
(* deleted or edited between the checks and the INSERT                      *)
(* (CommentService.create).                                                 *)
(***************************************************************************)
RepliesAreFlat ==
    \A c \in made : parent[c] # NoComment =>
        /\ parent[c] \in made
        /\ post[parent[c]] = post[c]
        /\ parent[parent[c]] = NoComment

(***************************************************************************)
(* A comment changes, or disappears, only by a request of its author that   *)
(* ends in that step (CommentService._get_owned), and never comes back,     *)
(* not by an edit that read it before it was deleted either.                *)
(***************************************************************************)
AuthorsDecide ==
    [][\A c \in made :
        /\ c \in gone => c \in gone'
        /\ (text[c] # text'[c] \/ (c \in gone) # (c \in gone')) =>
              \E r \in Request : user[r] = author[c] /\ user'[r] = NoUser]_vars

(***************************************************************************)
(* Until two requests overlap, a reply goes under a comment that is still   *)
(* there (get_parent_comment reads active comments only).                   *)
(***************************************************************************)
RepliesMeetTheirCommentWithoutRace ==
    [][\A c \in made' \ made : ~raced => parent'[c] \notin gone]_vars

(* Why it holds: one request at a time sees the comments as they are. *)
SnapshotIsCurrent ==
    /\ \A r, q \in Request : user[r] # NoUser /\ user[q] # NoUser => r = q
    /\ \A r \in Request : user[r] # NoUser => view[r].alive = made \ gone

(* r ends as a request of the author of c *)
JudgedFor(r, c) == user[r] = author'[c] /\ user'[r] = NoUser

Bearers(nk, n) == {u \in User : nk[u] = n}

(***************************************************************************)
(* Whoever signs up or is renamed meanwhile, a mention is judged by the     *)
(* nicknames there were when its request began: it is let in only if a user *)
(* had the nickname, and one that a user had is refused only if LIKE does   *)
(* not match it with itself, or matches more users than the search returns  *)
(* (_validate_mentions, search_mention_users).                              *)
(***************************************************************************)
MentionsAreJudgedBySnapshot ==
    [][/\ \A c \in Comment : text'[c] \notin {text[c], NoNick} =>
             \E r \in Request : JudgedFor(r, c) /\ Bearers(view[r].nick, text'[c]) # {}
       /\ \A r \in Request : told'[r] \notin {told[r], NoNick} =>
             \/ Bearers(view[r].nick, told'[r]) = {}
             \/ told'[r] \notin matched[told'[r]]
             \/ Cardinality(Matching(view[r].nick, told'[r])) > MentionLimit]_vars

=============================================================================
