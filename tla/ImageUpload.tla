----------------------------- MODULE ImageUpload -----------------------------
(***************************************************************************)
(* Images of posts: upload_image stores three objects and then a row, with   *)
(* nothing to take them back, and signs a URL after the commit; list_images  *)
(* signs a URL for each row.  The bucket (boto3) is external.                *)
(***************************************************************************)
EXTENDS Rows

CONSTANT MaxUpload      \* bound: requests to upload

ASSUME UploadAssumption == MaxUpload \in Nat

Upload == 1..MaxUpload

VARIABLES
    up,         \* [Upload -> the step its request is at, or how it ended]
    post,       \* [Upload -> the post]
    objects,    \* the bucket: <<upload, part>>, an upload has its own file_id
    images,     \* posts_image: the uploads that have a row
    late,       \* history: uploads that failed at their commit or after it
    gaveUp      \* uploads whose client stopped waiting

storage == <<up, post, objects, images, late, gaveUp>>

InitImages ==
    /\ up = [u \in Upload |-> "idle"]
    /\ post = [u \in Upload |-> 0]
    /\ objects = {} /\ images = {} /\ late = {} /\ gaveUp = {}

Part == {"original", "content", "thumbnail"}

Step == Part \union {"insert", "commit", "sign"}

InFlight == {u \in Upload : up[u] \in Step}

Goes(u, from, to) == up[u] = from /\ up' = [up EXCEPT ![u] = to]

ThenThumbnailLast ==    \* mutant: the row does not wait for the thumbnail
    [original |-> "content", content |-> "insert", insert |-> "commit",
     commit |-> "thumbnail", thumbnail |-> "sign", sign |-> "created"]

ThenUncommitted ==      \* mutant: the commit is forgotten
    [original |-> "content", content |-> "thumbnail", thumbnail |-> "insert",
     insert |-> "sign", commit |-> "sign", sign |-> "created"]

Then ==
    [original |-> "content", content |-> "thumbnail", thumbnail |-> "insert",
     insert |-> "commit", commit |-> "sign", sign |-> "created"]

-----------------------------------------------------------------------------
(* A client sends its picture, and again after an error, after no answer,   *)
(* or when it will not wait.  Post, author, size and format are checked, and *)
(* the smaller images made, before anything is stored.                      *)
Open(u, r) ==
    /\ \A v \in Upload : v < u => up[v] \in {"failed", "killed"} \/ v \in gaveUp
    /\ \/ row[r] = "listed" /\ Goes(u, "idle", "original")
       \/ Goes(u, "idle", "refused")
    /\ post' = [post EXCEPT ![u] = r]
    /\ UNCHANGED <<objects, images, late, gaveUp>>

Put(u, p) ==
    /\ Goes(u, p, Then[p])
    /\ objects' = objects \union {<<u, p>>}
    /\ UNCHANGED <<post, images, late, gaveUp>>

(* The answer of the bucket may be what is lost.                            *)
PutFails(u, p) ==
    /\ Goes(u, p, "failed")
    /\ objects' \in {objects, objects \union {<<u, p>>}}
    /\ UNCHANGED <<post, images, late, gaveUp>>

add_image(u) ==
    /\ Goes(u, "insert", Then["insert"])
    /\ UNCHANGED <<post, objects, images, late, gaveUp>>

AddFails(u) ==
    /\ Goes(u, "insert", "failed")
    /\ UNCHANGED <<post, objects, images, late, gaveUp>>

CommitImage(u) ==
    /\ Goes(u, "commit", Then["commit"])
    /\ images' = images \union {u}
    /\ UNCHANGED <<post, objects, late, gaveUp>>

(* As may the answer of MySQL.                                              *)
CommitFails(u) ==
    /\ Goes(u, "commit", "failed")
    /\ images' \in {images, images \union {u}}
    /\ late' = late \union {u}
    /\ UNCHANGED <<post, objects, gaveUp>>

Sign(u) ==
    /\ Goes(u, "sign", Then["sign"])
    /\ UNCHANGED <<post, objects, images, late, gaveUp>>

SignFails(u) ==
    /\ Goes(u, "sign", "failed")
    /\ late' = late \union {u}
    /\ UNCHANGED <<post, objects, images, gaveUp>>

(* The process of these requests ends; MySQL rolls back.                    *)
Kill(S) ==
    /\ up' = [u \in Upload |-> IF u \in S THEN "killed" ELSE up[u]]
    /\ late' = late \union {u \in S : up[u] = "sign"}
    /\ UNCHANGED <<post, objects, images, gaveUp>>

GiveUp(u) ==
    /\ u \in InFlight \ gaveUp
    /\ gaveUp' = gaveUp \union {u}
    /\ UNCHANGED <<up, post, objects, images, late>>

UploadStep(u) ==
    \/ \E p \in Part : Put(u, p) \/ PutFails(u, p)
    \/ add_image(u) \/ AddFails(u)
    \/ CommitImage(u) \/ CommitFails(u)
    \/ Sign(u) \/ SignFails(u)

-----------------------------------------------------------------------------
list_images(r) == {u \in images : post[u] = r}

(* Every image a post lists has its three objects, whatever failed, was      *)
(* killed or sent again: a URL list_images signs is of an object that       *)
(* exists.                                                                 *)
ListedImagesExist ==
    \A r \in Row : \A u \in list_images(r) : {u} \X Part \subseteq objects

(* What the client is told is so: an image it was given a URL for is stored, *)
(* a refused one left nothing, and one that failed before its commit left   *)
(* no row -- objects only, which a second attempt does not disturb.         *)
AnswersAreTrue ==
    \A u \in Upload :
        /\ up[u] = "created" => u \in images
        /\ up[u] = "refused" => u \notin images /\ \A p \in Part : <<u, p>> \notin objects
        /\ up[u] \in {"failed", "killed"} /\ u \notin late => u \notin images

(* A client that sends a picture until it succeeds gets it twice only if an *)
(* attempt failed at its commit or while the URL was signed, or it did not   *)
(* wait.                                                                   *)
OnePictureOneRow ==
    late = {} /\ gaveUp = {} => \A u, v \in images : u = v
===============================================================================
