--------------------------------- MODULE Site ---------------------------------
(***************************************************************************)
(* Schema, server and board together: requests are answered only while a     *)
(* worker serves, and a server that ends takes those in flight with it.      *)
(***************************************************************************)
EXTENDS Startup, Pages, ImageUpload

CONSTANT MaxPost    \* bound: posts that get images

ASSUME PostAssumption == MaxPost \in Nat

Post == {r \in Row : r <= MaxPost}

VARIABLE board      \* bound, what this behaviour is about: "closed", "pages" or "images"

boardVars == <<rows, walk, storage>>
siteVars == <<migrations, servers, boardVars, board>>

SiteInit ==
    /\ InitSchema /\ InitServer
    /\ PagesInit /\ InitImages
    /\ kind = "posts" /\ size = 1
    /\ board = "closed"

(* Neither a kill nor a synchronisation has touched the schema.              *)
MigrationsOnly == ~dirty /\ ~synced

Serving == \E w \in Worker : worker[w] = "serving"

(* Bounds: the board is opened on a schema migrated to head, and stays with   *)
(* that server and that schema.                                            *)
OpenPages ==
    /\ board = "closed" /\ board' = "pages"
    /\ Serving /\ mode = "migrate" /\ MigrationsOnly
    /\ kind' \in Kind /\ size' \in 1..MaxSize
    /\ UNCHANGED <<migrations, servers, row, second, page, pages, base, seen, twice, entered, left>>
    /\ UNCHANGED storage

OpenImages ==
    /\ board = "closed" /\ board' = "images"
    /\ Serving /\ mode = "migrate" /\ MigrationsOnly
    /\ UNCHANGED <<migrations, servers, boardVars>>

(* Transactions roll back and uploads stop.                                 *)
InFlightEnds ==
    /\ row' = [r \in Row |-> IF row[r] = "pending" THEN "gone" ELSE row[r]]
    /\ Kill(InFlight)
    /\ UNCHANGED <<kind, second, walk, board>>

Outside == UNCHANGED <<boardVars, board>>

SchemaStep ==
    \/ \E cmd \in {"upgrade", "downgrade"} : board = "closed" /\ ByHand(cmd) /\ Outside
    \/ ByHandDone /\ Outside
    \/ Migrate /\ Outside
    \/ Abort /\ Outside

(* Bound: two workers synchronise a new database or one at head, one worker  *)
(* any other.                                                              *)
Started == IF ~dirty /\ applied \in {{}, Revision} THEN Worker ELSE {CHOOSE w \in Worker : TRUE}

ServerStep ==
    \/ StartMigrating /\ Outside
    \/ \E m \in {"sync", "skip"} : board = "closed" /\ StartWithout(m, Started) /\ Outside
    \/ ExecUvicorn /\ Outside
    \/ Down /\ InFlightEnds
    \/ \E w \in Worker :
          \/ Lifespan(w) /\ Outside
          \/ SyncStep(w) /\ Outside
          \/ SyncDone(w) /\ Outside
          \/ /\ Restart(w)
             /\ IF \E v \in Worker \ {w} : worker[v] = "serving" THEN Outside ELSE InFlightEnds

Inside == UNCHANGED <<migrations, servers, board>>

PagesStep ==
    /\ board = "pages" /\ Serving
    /\ Inside /\ UNCHANGED storage
    /\ PagesNext

ImagesStep ==
    /\ board = "images" /\ Serving
    /\ Inside /\ UNCHANGED walk
    /\ \/ /\ UNCHANGED storage
          /\ \/ \E r \in Post : Insert(r) \/ Commit(r)
             \/ \E r \in Listed : Withdraw({r})
       \/ /\ UNCHANGED rows
          /\ \E u \in Upload :
                \/ \E r \in Post : Open(u, r)
                \/ UploadStep(u)
                \/ u \in InFlight /\ Kill({u})
                \/ GiveUp(u)

SiteNext == SchemaStep \/ ServerStep \/ OpenPages \/ OpenImages \/ PagesStep \/ ImagesStep

SiteSpec == SiteInit /\ [][SiteNext]_siteVars
===============================================================================
