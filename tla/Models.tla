-------------------------------- MODULE Models --------------------------------
(***************************************************************************)
(* The tables the ORM models ask for, as model_registry.py collects them.   *)
(* A table is a function from its columns to what their definitions keep    *)
(* besides a type: "auto" (AUTO_INCREMENT), "default" (a server default)     *)
(* and "comment".  An index, unique key or foreign key is <<kind, table,     *)
(* columns>>, its name under base.py's naming convention.                   *)
(***************************************************************************)
Attribute == {"auto", "default", "comment"}

TimestampMixin ==
    [created_at |-> {"default", "comment"}, updated_at |-> {"default", "comment"}]

SoftDeleteMixin == [deleted_at |-> {"comment"}]

(* The columns of a class and those of its mixin *)
Mixed(columns, mixin) ==
    [c \in DOMAIN columns \union DOMAIN mixin |->
        IF c \in DOMAIN columns THEN columns[c] ELSE mixin[c]]

Timed(columns) == Mixed(columns, TimestampMixin)
Kept(columns) == Mixed(Timed(columns), SoftDeleteMixin)

UserTable == Timed(
    [user_id |-> {"auto"}, user_email |-> {"comment"}, user_password_hash |-> {},
     user_nickname |-> {"comment"}, user_role |-> {"default"},
     user_is_active |-> {"default", "comment"}])

PostTable == Kept(
    [post_id |-> {"auto"}, post_title |-> {}, post_content |-> {}, author_id |-> {},
     post_view_count |-> {}, post_status |-> {"default"}, post_is_notice |-> {"default"}])

CommentTable == Kept(
    [comment_id |-> {"auto"}, comment_content |-> {}, post_id |-> {}, author_id |-> {},
     parent_comment_id |-> {}])

MenuTable == Kept([menu_id |-> {"auto"}, menu_name |-> {}, menu_parent_id |-> {}])

PostLikeTable == Timed([like_id |-> {"auto"}, post_id |-> {}, user_id |-> {}])

PostImageTable == Timed(
    [image_id |-> {"auto"}, post_id |-> {}, image_original_path |-> {},
     image_content_path |-> {}, image_thumbnail_path |-> {}])

ReportTable == Timed(
    [report_id |-> {"auto"}, reporter_user_id |-> {}, report_content_type |-> {},
     post_id |-> {}, post_title |-> {}, post_content |-> {}, comment_id |-> {},
     comment_content |-> {}, reported_user_id |-> {}, report_category |-> {},
     report_reason |-> {}, report_status |-> {"default"}, user_sanction_type |-> {},
     reviewer_user_id |-> {}, processed_at |-> {}])

UserSanctionTable == Timed(
    [user_sanction_id |-> {"auto"}, reported_user_id |-> {}, user_sanction_type |-> {},
     user_sanction_reason |-> {}, report_id |-> {}, expires_at |-> {}])

(* "ix" is an index on one column, "ixs" one on several.                     *)
Indexed(t, columns) == {<<"ix", t, c>> : c \in columns}

(* Base.metadata *)
ModelTables ==
    [users |-> UserTable, posts |-> PostTable, comments |-> CommentTable, menus |-> MenuTable,
     posts_like |-> PostLikeTable, posts_image |-> PostImageTable, reports |-> ReportTable,
     user_sanctions |-> UserSanctionTable]

ModelKeys ==
    {<<"uq", "users", "user_email">>, <<"uq", "menus", "parent_name">>,
     <<"uq", "posts_like", "post_id_user_id">>, <<"ixs", "reports", "status_created_at">>}
    \union Indexed("posts", {"author_id", "post_status", "deleted_at"})
    \union Indexed("comments", {"post_id", "author_id", "parent_comment_id", "deleted_at"})
    \union Indexed("menus", {"menu_parent_id", "deleted_at"})
    \union Indexed("posts_like", {"post_id", "user_id"})
    \union Indexed("posts_image", {"post_id"})
    \union Indexed("reports", {"reporter_user_id", "report_content_type",
                               "post_id", "comment_id", "reported_user_id", "report_status",
                               "user_sanction_type", "reviewer_user_id"})
    \union Indexed("user_sanctions", {"reported_user_id", "user_sanction_type", "report_id"})
===============================================================================
