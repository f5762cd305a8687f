------------------------------ MODULE Revisions ------------------------------
(***************************************************************************)
(* The revisions of src/alembic/versions as sequences of DDL statements,     *)
(* upgrade and downgrade, and the order their down_revision gives them.     *)
(***************************************************************************)
EXTENDS Models, Sequences

(* A table's own keys are given without its name: <<kind, columns>>.         *)
CreateTable(t, columns, ks) == [op |-> "create_table", table |-> t, columns |-> columns, keys |-> ks]
DropTable(t) == [op |-> "drop_table", table |-> t]
AddColumn(t, c, a) == [op |-> "add_column", table |-> t, column |-> c, attrs |-> a]
DropColumn(t, c) == [op |-> "drop_column", table |-> t, column |-> c]
CreateKey(k) == [op |-> "create_key", key |-> k]
DropKey(k) == [op |-> "drop_key", key |-> k]
CreateIndex(t, c) == CreateKey(<<"ix", t, c>>)
DropIndex(t, c) == DropKey(<<"ix", t, c>>)

(* CHANGE or MODIFY: the definition is replaced, not amended -- what it does *)
(* not repeat is lost.                                                      *)
Rename(t, c, new, a) == [op |-> "change", table |-> t, column |-> c, new |-> new, attrs |-> a]
Modify(t, c, a) == Rename(t, c, c, a)

-----------------------------------------------------------------------------
CommentsFk == <<"fk", "comments", "post_id">>
CommentAuthorFk == <<"fk", "comments", "author_id">>
PostAuthorFk == <<"fk", "posts", "author_id">>

InitialUp == <<
    CreateTable("users",
        Timed([id |-> {"auto"}, email |-> {"comment"}, password_hash |-> {},
               nickname |-> {"comment"}, role |-> {"default"},
               is_active |-> {"default", "comment"}]),
        {<<"uq", "email">>}),
    CreateTable("posts",
        Kept([id |-> {"auto"}, title |-> {}, content |-> {}, author_id |-> {}]),
        {<<"fk", "author_id">>}),
    CreateIndex("posts", "author_id"), CreateIndex("posts", "deleted_at"),
    CreateTable("comments",
        Kept([id |-> {"auto"}, content |-> {}, post_id |-> {}, author_id |-> {}]),
        {<<"fk", "author_id">>, <<"fk", "post_id">>}),
    CreateIndex("comments", "author_id"), CreateIndex("comments", "deleted_at"),
    CreateIndex("comments", "post_id") >>

InitialDown == <<
    DropIndex("comments", "post_id"), DropIndex("comments", "deleted_at"),
    DropIndex("comments", "author_id"), DropTable("comments"),
    DropIndex("posts", "deleted_at"), DropIndex("posts", "author_id"),
    DropTable("posts"), DropTable("users") >>

MenusUp == <<
    CreateTable("menus", MenuTable, {<<"uq", "parent_name">>}),
    CreateIndex("menus", "deleted_at"), CreateIndex("menus", "menu_parent_id") >>

MenusDown == <<
    DropIndex("menus", "menu_parent_id"), DropIndex("menus", "deleted_at"), DropTable("menus") >>

ViewCountUp == <<
    DropKey(CommentsFk),
    Rename("posts", "id", "post_id", {}), Rename("posts", "title", "post_title", {}),
    Rename("posts", "content", "post_content", {}),
    AddColumn("posts", "post_view_count", {"default"}) >>

ViewCountDown == <<
    DropColumn("posts", "post_view_count"),
    Rename("posts", "post_content", "content", {}), Rename("posts", "post_title", "title", {}),
    Rename("posts", "post_id", "id", {}) >>

UserIdUp == << Rename("users", "id", "user_id", {"auto"}) >>

UserIdDown == << Rename("users", "user_id", "id", {"auto"}) >>

LikesUp == <<
    CreateTable("posts_like", PostLikeTable, {<<"uq", "post_id_user_id">>}),
    CreateIndex("posts_like", "post_id"), CreateIndex("posts_like", "user_id"),
    Rename("comments", "id", "comment_id", {"auto"}),
    Rename("comments", "content", "comment_content", {}),
    CreateKey(CommentsFk),
    Modify("posts", "post_view_count", {}),
    DropKey(PostAuthorFk),
    DropKey(<<"uq", "users", "email">>),
    Rename("users", "email", "user_email", {}),
    Rename("users", "password_hash", "user_password_hash", {}),
    Rename("users", "nickname", "user_nickname", {}),
    Rename("users", "role", "user_role", {"default"}),
    CreateKey(<<"uq", "users", "user_email">>) >>

LikesDown == <<
    DropKey(<<"uq", "users", "user_email">>),
    Rename("users", "user_role", "role", {"default"}),
    Rename("users", "user_nickname", "nickname", {}),
    Rename("users", "user_password_hash", "password_hash", {}),
    Rename("users", "user_email", "email", {}),
    CreateKey(<<"uq", "users", "email">>),
    CreateKey(PostAuthorFk),
    Modify("posts", "post_view_count", {"default"}),
    DropKey(CommentsFk),
    Rename("comments", "comment_content", "content", {}),
    Rename("comments", "comment_id", "id", {"auto"}),
    DropIndex("posts_like", "user_id"), DropIndex("posts_like", "post_id"),
    DropTable("posts_like") >>

ImagesUp == <<
    CreateTable("posts_image",
        Timed([image_id |-> {"auto"}, post_id |-> {}, image_path |-> {}]), {}),
    CreateIndex("posts_image", "post_id"),
    Modify("users", "user_email", {"comment"}), Modify("users", "user_nickname", {"comment"}) >>

ImagesDown == <<
    Modify("users", "user_nickname", {}), Modify("users", "user_email", {}),
    DropIndex("posts_image", "post_id"), DropTable("posts_image") >>

MergeUp == << >>

MergeDown == << >>

ActiveUp == << Rename("users", "is_active", "user_is_active", {}) >>

ActiveDown == << Rename("users", "user_is_active", "is_active", {}) >>

AutoIncrementUp == <<
    DropKey(CommentsFk), Modify("posts", "post_id", {"auto"}), CreateKey(CommentsFk) >>

AutoIncrementDownKeyless == <<  \* mutant: the foreign key is not put back
    DropKey(CommentsFk), Modify("posts", "post_id", {}) >>

AutoIncrementDown == <<
    DropKey(CommentsFk), Modify("posts", "post_id", {}), CreateKey(CommentsFk) >>

ImagePathsUpBare == <<          \* mutant: user_is_active keeps what active left of it
    AddColumn("comments", "parent_comment_id", {}), CreateIndex("comments", "parent_comment_id"),
    DropKey(CommentsFk), DropKey(CommentAuthorFk),
    AddColumn("posts_image", "image_original_path", {}),
    AddColumn("posts_image", "image_content_path", {}),
    AddColumn("posts_image", "image_thumbnail_path", {}),
    DropColumn("posts_image", "image_path") >>

ImagePathsUp == <<
    AddColumn("comments", "parent_comment_id", {}), CreateIndex("comments", "parent_comment_id"),
    DropKey(CommentsFk), DropKey(CommentAuthorFk),
    AddColumn("posts_image", "image_original_path", {}),
    AddColumn("posts_image", "image_content_path", {}),
    AddColumn("posts_image", "image_thumbnail_path", {}),
    DropColumn("posts_image", "image_path"),
    Modify("users", "user_is_active", {"default", "comment"}) >>

ImagePathsDown == <<
    Modify("users", "user_is_active", {}),
    AddColumn("posts_image", "image_path", {}),
    DropColumn("posts_image", "image_thumbnail_path"),
    DropColumn("posts_image", "image_content_path"),
    DropColumn("posts_image", "image_original_path"),
    CreateKey(CommentAuthorFk), CreateKey(CommentsFk),
    DropIndex("comments", "parent_comment_id"), DropColumn("comments", "parent_comment_id") >>

NoticeUp == <<
    AddColumn("posts", "post_status", {"default"}),
    AddColumn("posts", "post_is_notice", {"default"}),
    CreateIndex("posts", "post_status") >>

NoticeDown == <<
    DropIndex("posts", "post_status"),
    DropColumn("posts", "post_is_notice"), DropColumn("posts", "post_status") >>

-----------------------------------------------------------------------------
Upgrade ==
    [initial |-> InitialUp, menus |-> MenusUp, view_count |-> ViewCountUp,
     user_id |-> UserIdUp, likes |-> LikesUp, images |-> ImagesUp, merge |-> MergeUp,
     active |-> ActiveUp, auto_increment |-> AutoIncrementUp,
     image_paths |-> ImagePathsUp, notice |-> NoticeUp]

Downgrade ==
    [initial |-> InitialDown, menus |-> MenusDown, view_count |-> ViewCountDown,
     user_id |-> UserIdDown, likes |-> LikesDown, images |-> ImagesDown, merge |-> MergeDown,
     active |-> ActiveDown, auto_increment |-> AutoIncrementDown,
     image_paths |-> ImagePathsDown, notice |-> NoticeDown]

Revision == DOMAIN Upgrade

(* down_revision: menus and view_count both follow the first; merge joins   *)
(* them.                                                                    *)
Parents ==
    [initial |-> {}, menus |-> {"initial"}, view_count |-> {"initial"},
     user_id |-> {"view_count"}, likes |-> {"user_id"}, images |-> {"likes"},
     merge |-> {"menus", "images"}, active |-> {"merge"}, auto_increment |-> {"active"},
     image_paths |-> {"auto_increment"}, notice |-> {"image_paths"}]

Children(r) == {q \in Revision : r \in Parents[q]}
===============================================================================
