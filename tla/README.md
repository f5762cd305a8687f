# TLA+ models of the green-community backend

This directory specifies the concurrent core of the backend in TLA+: what its
handlers, its Redis commands, its MySQL transactions and its background job do,
step by step, and what must not go wrong when these steps interleave. TLC
checks the modules on small instances; TLAPS proves most of their safety
properties for every value of the constants.

    tlc -workers 2 -config Menus.cfg MCMenuTree.tla      (a run)
    tlapm MenuTreeProofs.tla                             (its proofs)

PROJECT.json lists the components, the runs, the lines each definition
translates, the hazards of the code with the properties that speak of them, and
for every property a wrong variant of the code that it notices.

## 1. The system

A FastAPI server of a community board: users, menus (a tree of boards), posts
with likes and images, comments with replies and mentions, reports handled by
administrators. Several uvicorn processes share one MySQL database and one
Redis. Handlers are `def`: each runs in hops on a thread pool, so the requests
of one process interleave as freely as those of two. In each process a scheduler
runs `post_like_sync` every five minutes *on the event loop*. The container's
entrypoint migrates the schema, or leaves it to each worker's lifespan to
synchronise it with the models, before requests are served.

Three facts of the platform shape almost every model.

- **Snapshots.** A request has one SQLAlchemy session, whose first SELECT, the
  one of `get_current_user`, opens a transaction; under MySQL's REPEATABLE READ
  all its later SELECTs see that moment. INSERT, UPDATE and DELETE work on the
  rows as they are by then. SQLAlchemy writes only the columns a handler changed.
- **Commit in the service.** A service commits before it returns; `get_db` only
  rolls back and closes (`infrastructure/database/session.py`). A request's
  writes are one transaction on rows it has locked: in the models, one step.
- **No transaction across Redis and MySQL,** and in Redis none longer than one
  MULTI/EXEC pipeline: each command or pipeline is a step of its own.

### Components

| component | state | operations | what makes it correct |
|---|---|---|---|
| Refresh-token sessions (`modules/auth`) | Redis: active key, used mark and index of each user's tokens, with expiry; `user_is_active` | login, refresh (verify, account, rotate, save), logout, logout_all, deactivation | a token is good for one rotation; reuse is detected and ends every session, a logged-out token is not mistaken for a stolen one; revoking all misses none |
| Login rate limit (`common/rate_limit.py`) | Redis: a counter with a TTL for each email and each address | hit, refuse, reset after a right password, expiry | attempts are bounded in every window; every window ends; `retry_after` is usable |
| Likes (`post_repository.py`, `post_like_sync.py`) | Redis `post_like:{post}:{user}`; table `posts_like` | like, unlike, count, the job of every process | a choice is never lost, counts are exact, pending keys reach the table |
| Menus (`modules/menus`) | table `menus`, a tree by `menu_parent_id`, no foreign key | create, update (rename, move), delete, get_tree | it stays a forest with unique names among siblings, and no menu is out of sight |
| Comments (`modules/comments`) | table `comments`, no foreign keys | create, reply, update, delete, mention check, list | replies one level deep, on their post, under a comment that is there; authors alone change a comment; a mention is judged by the nicknames there were |
| Posts: editing and visibility (`post_service.py`) | `post_status`, `deleted_at`, contents | update, delete, hide | a hidden or deleted post stays so |
| Reports and sanctions (`modules/reports`) | tables `reports`, `user_sanctions` | add_report, process_report | a report is decided once; sanction, decision and hiding agree |
| Users and sign-up (`modules/users`) | table `users`, UNIQUE email | create, update, deactivate | one account to an address, answers are true, deactivation is final |
| Thread and connection pools (`main.py`, `session.py`, `redis.py`, `config.py`) | thread pool, SQLAlchemy pool, Redis pool, event loop | hops of a request, the job | nobody waits for ever, no pool is exhausted that was sized for the load |
| Image upload (`post_service.py` 290-378) | S3/R2 objects, table `posts_image` | three uploads, a row, a commit, a signed URL | every listed image has its objects; answers are true; a retry stores a picture once |
| Pagination and lists (`common/pagination.py`, the three `list_*`) | none | a page of posts, of a post's comments, of pending reports | a client that reads every page meets every row, once, as far as the list itself stands still |
| Object storage clients (`infrastructure/storage`) | the bucket | upload, sign | a step of the upload that may fail, before or after it stored |
| Schema and migrations (`alembic/`, `synchronize.py`, `entrypoint.sh`) | the tables, their keys, `alembic_version` | upgrade, downgrade, synchronise, start, restart | migrations run in any order the history allows; what is served is what the models ask for |

Not modelled, because they keep no state of their own: the HTTP shell
(middleware, exception handlers, logging, health), the settings (but
`_validate_pool_capacity` is the assumption of `WorkerPool`), request and response
schemas (where an optional field or a limit decides what a handler does, the
handler models it), and the seed script, which runs alone on a developer's
machine. Of the storage clients, the choice of a provider and the boto3 calls
themselves are left out.

### How they interact

`AuthService.login` consults the rate limit before the password and resets it
after; both it and refresh read the account flag that `UserService.deactivate`
clears (`AuthSessions` carries that flag). Comments depend on a post being
public; posts stop being public by deletion or by an accepted report, whose
service calls the post repository inside its own transaction (`Comments` has the
action `Withdraw` for this; `Moderation` has both sides). Every request uses the
pools of `WorkerPool`; the likes job competes with requests there, and with the
other processes' jobs in `PostLikes`. Nothing is served before the schema is
there, and a server that ends takes transactions and uploads with it: `Site`
composes the start of the server with lists and uploads. Nothing else is shared,
which is why the other modules are checked side by side and not as one product.

The reports router is not included in `app/api/v1/router.py`, and no migration
creates `reports` or `user_sanctions`: `Moderation` models the service as it is
written. As `add_report` cannot store a row (section 5), rows of `reports` also
enter by an action `Enter`, so that deciding them can be checked at all.

## 2. Modules

Each component has a specification `X.tla`, a module `MCX.tla` with symmetry
sets or constants for TLC, and its theorems in `XProofs.tla`; `AuthProofs` holds
those of sessions and rate limit, `SiteProofs` those of schema, images and lists.
Definitions carry the names of the functions they translate; operators marked
`\* mutant` are wrong variants of the definition that follows them, used by no
specification: PROJECT.json says which property notices which.

**TokenLife** is the abstract promise of token rotation: a token is fresh, open,
spent or closed, and a spent one has at most one heir. No requests, keys or time.

**AuthSessions** models `AuthService` and `RefreshTokenStore`. `live`, `used`,
`index` and `indexTill` are the three kinds of Redis keys, valued by the tick at
which they expire. A refresh runs through `Refresh` (decode_token),
`VerifyActive` (GET), `VerifyUsed`/`VerifyUnknown` (EXISTS), `CheckAccount`,
`Rotate` and `Issue` (create_refresh_token and save); a revocation of everything
through `ListMembers` and `DeleteMembers`. `Crash` ends a request between any
two steps. Clocks are in ticks, `Second` to a second, because JWT's `exp` and
the mark's TTL are whole seconds and Redis' clock is not. A stored hash never
differs from that of a token the server signed, so FORGED does not occur.
Deciding on a token and storing it is one step: nobody else knows the new jti.
Instantiating TokenLife with `Status(t)` gives the refinement.

**LoginRateLimit** models `RateLimiter` and the part of `AuthService.login` that
uses it. A key's TTL counts down, so no absolute clock is needed; a count above
the limit is kept at limit + 1, since only the comparison with the limit is
ever used. `log` is a history: at age a, the hits allowed in the last a + 1 ticks.

**PostLikes** models one post: keys of different posts meet only in the job's
batch, and keys of different users meet there too. The job is the loop of
`scan_like_to_db`: SCAN gives keys in any order and every key that is there
throughout; each gets a GET (`JobGet`) and a SELECT (`JobLook`), then one commit,
then one DEL. A duplicate INSERT rolls the batch back (`JobDuplicate`), at the
commit or when autoflush meets it. `must` is what SCAN guarantees; keys SCAN
repeats are left out, for the job would find its own change made or, if the key
had changed in between, end where the later GET alone would have led it. SCAN and MGET of
the count are one step. History variables record whose requests overlapped what.

**MenuTree, Comments, Moderation** share a shape: `Begin` takes the snapshot,
one further action is the handler (checks on `view[r]`, writes on the current
rows), `Refuse` stands for reads, failed checks and errors, and `raced` records
that two requests have ever overlapped. In `MenuTree`, `UniqueKey` is MySQL's
unique index over (parent, name, deleted_at), which a NULL satisfies: it binds
deleted children only. An update writes the columns that differ from what its
session read. In `Comments`, a text is reduced to the nickname it
mentions, and `matched` says which nicknames LIKE finds for which; nothing is assumed
of it, for `search_mention_users` does not escape: `%` and `_` match more, and a nickname
with a backslash does not match itself. Users sign up and are renamed (`SignUp`,
`Rename`), and a mention is judged by the nicknames in the session's snapshot. `told`
is the nickname the 404 names. In `Moderation`,
a report's target is a post, a comment or a user, of which only posts can be
hidden; deleting comments or users is not part of the module.

**MenuBoard** is what `MenuTree` promises: until two requests overlap, each is one
indivisible change of the board, by rules that speak of the board alone (a move needs
a part of the board that holds the menu and all below it but not the new parent);
whatever overlaps, each is still a change of one menu, and no deleted menu returns. The
mapping takes the rows with a NULL deleted_at for the board and `raced` for
`disturbed`.

**Accounts** models sign-up with the lock that an uncommitted INSERT holds on
the unique index: others wait, fail with IntegrityError or, if the holder rolls
back, inherit the lock or are deadlocked, as InnoDB does. The lock-wait timeout
is not modelled. `FailCommitted` loses the connection after the commit.

**UserRegistry** is what `Accounts` promises: a sign-up is one indivisible
test-and-set of its email, answered after it was done; deactivation is final; a lost
connection leaves unsaid which it was, never half done. No snapshots, locks or second
looks. The mapping is `Asked` and the identity on accounts and answers.

**Models, Revisions, Migrations, Startup** are the schema. `Models` is what
`Base.metadata` holds: tables, columns with what their definitions keep besides
a type (AUTO_INCREMENT, server default, comment), keys. `Revisions` is each file of
`alembic/versions` as two sequences of DDL statements, and `Parents` their
`down_revision`s, which branch and merge. `Migrations` runs them: `Statement` is one
statement, committed at once as MySQL does, `Stamp` writes alembic_version, `Die`
ends a command anywhere in between. CHANGE and MODIFY replace a definition, so what
`alter_column` does not repeat is lost; a statement is refused when it meets a
column, key or table that is (not) there, takes an index or a column from a
foreign key, or adds an AUTO_INCREMENT column beside a key. `Startup` is entrypoint.sh and the
lifespan: migrate, synchronise or neither, then one `Lifespan` for each uvicorn
worker; `Plan` is `_collect_operations`, made once for a worker and then executed
statement by statement (`SyncStep`) while other workers do the same. It is a set of
statements with their turn: autogenerate's order between kinds of statements and
between tables is kept (`Place`), that within a turn, which goes by name, is left to
`First`. The plan is made in one step, where alembic reflects table by table: what a
schema needs only shrinks while workers synchronise, so readings of different times need
no less. `Restart` is uvicorn starting a worker again that ended.

**Rows, Pages, ImageUpload** are the board. `Rows` is a table whose rows are
inserted, committed, rolled back and withdrawn (deleted, hidden, decided). In
`Pages` a client reads page 1 to `total_pages` of one of three lists, told apart by
`kind`: `Before` is their three orders, `Shown` the slice, `TotalPages` that of
`PageResponse`. One request is one step, for its count and its rows are read in one
snapshot. `tie` is the order MySQL gives rows the query leaves unordered, any order in
any request. In `ImageUpload` a request goes through the steps of `upload_image`
in the order of `Then`; each may fail, the upload and the commit also after they
worked, the process may be killed, and the client sends its picture again after an
error, no answer, or when it does not wait.

**Site** is the sum of the two: `board` is opened (for pages or for images) once a
worker serves, `PagesStep` and `ImagesStep` need a worker that serves, and when
the last one ends or the container goes down, `InFlightEnds` rolls transactions
back and kills uploads.

**WorkerPool** models one process: a request enters (get_db), may authenticate
(get_current_user, which takes a connection), runs its handler, may have a
serialisation hop, sends, and closes its session in a thread of its own. The job
stops the loop while it runs. A handler asks, commits and calls Redis in any
order. The hops of `get_redis` and `get_storage` are folded into the others.

## 3. What TLC checks

| run | instance | states | what it shows |
|---|---|---|---|
| AuthSequential | 1 user, 3 tokens, 1 request, 2 ticks/s, TTL 2 s, horizon 6 ticks | 456,000 | rotation once and for ever, dead tokens useless, logout without a mark, marks that outlast tokens, complete revocation, refinement of TokenLife, with expiry and crashes |
| PostLikes | 2 users, 1 request, 2 jobs, 2 likes, 1 crash | 243,000 | choices and counts that no overlap disturbed are right; no negative count; every key is moved in the end |
| Menus | 3 menus, 2 names, 2 administrators, 2 s | 605,000 | no orphan, namesake or hidden branch until requests overlap; refinement of MenuBoard (with deletion final in any case) |
| LoginRateLimit | 2 emails, 1 address, 2 requests, limit 2, window 2 s | 288,000 | at most twice the limit in a window, usable `retry_after`, every window ends |
| Comments | 2 comments, 1 post, 2 users, nicknames `ann`, `anna` and `a\nn` (with a backslash), mention limit 1, 2 requests | 1,444,000 | authors decide, mentions judged by the snapshot's nicknames and refused only for the limit or the pattern, replies meet their comment until requests overlap |
| Moderation | 2 posts, 1 comment, 3 reports, 2 requests | 1,042,000 | a sanctioned post is never public; until requests overlap, decisions, sanctions and deletions agree |
| Accounts | 2 emails, 3 requests, 1 lost connection | 178,000 | true answers, losers told 409, every sign-up ends, refinement of UserRegistry (with deactivation final) |
| WorkerPool | 1 thread, 1 connection, 2 requests, the job | 3,100 | stuck only in a crowd, Redis suffices while the job rests, every request ends |
| Site | 2 workers, 8 tables and every revision, 1 kill; 3 rows, 2 seconds, pages of 1 or 2; 2 posts, 2 uploads | 303,000 | migrations fail only for a cause, head is the models, synchronised workers serve the models; pages miss and repeat nothing by themselves; listed images exist, answers are true, a retry stores once |
| AuthRaceOneTimeUse | 2 requests, 3 tokens | violation | two racing refreshes both get a session |
| MenuRaceLoop | 2 menus, 2 requests | violation | two racing moves close a loop |
| ModerationStored | 1 report of each kind of target | violation | no report can be stored |

**Why these bounds.** Every race of the code is one of two requests, or of a
request and the job, or of two jobs; three requests are needed only where one
holds a lock and two wait (`Accounts`). Three tokens make a chain of two
rotations and a reuse of either. Three menus are the least for a loop through a
menu that is not moved, a namesake under a common parent and a grandchild. Two
comments give a reply and its comment; that replies stay flat, which takes three, is
proved. Two users with a limit of one overfill the search, and every cause of a
refusal occurs. A window or lifetime of two
units has a boundary and a middle. WorkerPool's one thread and one connection
are the tightest pools that `_validate_pool_capacity` admits; the crowd that
`StuckTakesACrowd` speaks of has 2 requests there, and for other pools there is
the proof. Three rows on pages of two make a full page and a partial one, and a
row that moves over the boundary between them; two seconds make rows of one
second and of two. In PostLikes one request, again and again, meets two jobs; the
theorems cover any number of requests, users and jobs. Two uploads are a picture and its retry. `Site` allows one kill
inside a migration or a synchronisation (`OneKill`), anywhere in any revision, in
either direction and along either branch, and whatever commands by hand, starts
and restarts come after it; after a synchronisation no further migration. Two workers synchronise a new database or one at head, a
single one any other (`Started`); a board is opened on a schema migrated to head,
for pages or for images (`OpenPages`, `OpenImages`), since lists and uploads meet
in nothing but the server. Bounds (`Horizon`, `MaxSecond`, `MaxLike`, `MaxCrash`,
`MaxFailures`, `MaxRow`, `MaxUpload`, `MaxPost`) stop clocks and counters only. In AuthSessions and PostLikes
every action may then be exhausted, so deadlock is not checked there.

**Fairness.** PostLikes: requests under way and every process' job go on (weak
fairness): the scheduler starts the job every five minutes, and its loop does
not stop in its middle; no request has to arrive, and a job may crash. LoginRateLimit:
time passes, nothing more. Accounts: a request that was started goes on until
it answers; waiting for a lock ends with the holder. WorkerPool: strong fairness for what
the loop and the threads do, since the job suspends the loop again and again but
returns to it for five minutes; weak fairness for a blocked call, which gets its
connection or its timeout, for Redis, which answers or times out after 3 s, and for
closing a session; a handler is assumed to return, which the walk up into a loop of
menus (section 5) does not. No client is ever assumed to come.

## 4. What is proved

TLAPS proves the following for all values of the constants (any users, tokens,
menus, requests, pool sizes, clocks without a horizon's help). Assumptions are
the modules' own: a null value lies outside its set, durations are positive, users
and, for PostLikes, worker processes are finitely many, emails are no addresses, and
in WorkerPool what `_validate_pool_capacity` enforces.

- **AuthSessions.** `TypeCorrect`; then `RaceInv`, inductive under every
  interleaving, for `RotationIsFinal`, `DeadTokensStayUseless`,
  `RevocationStaysWithUser` and `ReuseIsDetectable`. It adds that a token not
  issued has no keys, a used one is not live, a request's token belongs to its
  user, and a token dead at the request's start is dead now. With
  `OneAtATime` (one request slot) `SequentialInv` is inductive; it keeps track of the window
  between check, rotation and issue and of the index's TTL, and yields
  `OneTimeUseHolds`, `LogoutLeavesNoMark`, `IndexIsComplete`, `RevokeAllEndsAll` and
  `Implements`, the refinement of TokenLife. Without that assumption the first
  and the last are false (run AuthRaceOneTimeUse).
- **LoginRateLimit.** `RateTypeCorrect`; `WindowCorrect`: `WindowInv` is inductive. It
  says of every counter that it counts all that was allowed since some tick of the
  window, the tick its TTL started at, and that no more than the limit was allowed
  before; a counter that is gone leaves at most the limit in the log. `log` is
  cumulative by age, so this needs no sum. From it `TwiceTheLimitAtMost`, for any
  limit, window and attempts, however they interleave; and `RetryAfterAlwaysUsable`
  (`RoundedWithin`: a TTL rounded to seconds stays within the window).
- **PostLikes.** `TypeCorrect`; then `LikesInv`, inductive with any number of requests
  and jobs, crashes and rollbacks. While a user is not tainted, only one job is under
  way (`OneJob`), its snapshot is the table (`SnapshotIsTable`), it holds to commit what
  the key asks for and the table lacks (`JobsAgree`), and after the commit key and row
  say the same, so that the DEL changes no answer; a request's snapshot is the table
  too (`ChoosingFresh`, `ReaderFresh`). From it `ChoiceStands` and `CountsAreExact`, the
  latter by counting: rows, plus pending likes without a row, less pending unlikes
  with one. `CountsAreNatural` needs no invariant: what is subtracted was counted,
  whatever mix of times was read.
- **Schema**, of `SiteSpec`: `ServedSchema`, for any number of workers that synchronise at
  once. `Needed` is what the schema lacks as a set of statements. Every statement of
  every plan goes `Toward` the models (`PlanGoesToward`), and such a statement, executed
  in whatever state the others left, adds nothing to `Needed` and takes itself out
  (`TowardCloser`, `CloserNeedsLess`). A new plan has all that is needed
  (`PlanCoversNeed`); so an old one covers it still (`PlansCoverNeed` in `SyncInv`), and
  a worker that has worked through its plan serves a schema that needs nothing. The
  migrations before it may have left any tables and keys, as long as keys are on
  tables that are there.
- **Migrations**, of `SiteSpec`: `CommandsFailOnlyForCause`, `SchemaFollowsHistory` and `HeadIsTheModels`. Apart from
  menus, which no other revision touches, the revisions are a line of 48 statements,
  and each downgrade takes its upgrade back statement by statement. `Fits(n, m)` says which
  tables, columns, attributes and keys there are after n statements of the line and m
  of menus' three; that every statement applies at its place and leads to the next
  one, up and down, is shown revision by revision (`Climbs`, `Falls`) from one lemma
  for each kind of statement (`KeyLeads`, `ColumnLeads`, `TurnLeads`, `TableLeads`).
  `MigrationInv` follows the place through commands: between revisions it is what the
  history says (`HeightBelow`, `HeightAbove`), inside one it is the statements done.
  It leaves open what the code leaves open: what a downgrade gives back to the first
  names of four columns (`FirstNames`) is not always what the first revision gave them, so
  places hold no attributes of theirs. The two scripts that cannot run are in it as
  such: a view_count taken back leaves the place after its first statement, and from
  there the first revision's downgrade gets two statements further before it is stuck
  (`StuckAtAuthors`). Nothing is said after a kill inside a revision, where the code
  promises nothing; any number of workers may be there.
- **MenuTree, Comments, Moderation.** Types, and whatever holds under races,
  unconditionally: `DeletedForEver`; `RepliesStayFlat`, `AuthorsDecideAlways`;
  `SanctionsHidePosts` (with `HiddenForEver`: what a session saw hidden is hidden
  still). The others through `~raced => SequentialInv`, whose first
  part says that the snapshot a request validated is the state it writes to:
  `ParentsExist`, `NamesAreUnique`, `TreeIsWhole` (lemmas `MoveMakesNoLoop`: a move
  that passes `_ensure_not_own_descendant` closes no loop; `ForestIsShown`:
  without loops get_tree reaches every menu), `RepliesMeetComments`,
  `ReportsDecidedOnce`, `SanctionsMatch`, `DeletedStaysDeleted`.
- **MenuBoard.** `Implements` of MenuTreeProofs, one lemma for each handler
  (`CreateAdds`, `UpdateChanges`, `DeleteRemoves`): by `SequentialInv` the snapshot's
  checks are checks of the board. What the walk of `_ensure_not_own_descendant` did
  not meet is the part the rule of moves asks for (`WalkKeepsApart`). Under races, an
  update or a deletion of a menu that is gone already is a stutter.
- **Accounts.** `SignUpInv` is inductive: who holds an index entry holds it for
  an address no row has, and who was refused was refused for one that a row has.
  From it `OneWinnerPerEmail`, `AnswersAreTrue`, `LosersHearConflict`,
  `DeactivatedForEver`, and `Implements`, step by step (`RegistryStep`): a commit is the
  registry's `Created`, for no row has the email; "taken" is said by a snapshot or a
  second look in which a row has it, and rows stay; all else is a stutter.
- **WorkerPool.** `TypeCorrect` (no connection outlives its request);
  `RedisSufficesForThreads`; `NeverStuckWithoutACrowd`, by counting: if all are
  stuck, every connection is held by a request that has no thread and every
  thread by one that has no connection.

- **Comments**, too: `MentionsJudged`, for any relation `matched`. A search that misses
  a user with the very nickname, though the pattern matches it, has filled its LIMIT
  with others (`SearchMissesOnlyWhenFull`).
- **ImageUpload**, of `SiteSpec` itself, with every restart: `UploadInv` says by
  step which objects there are (`ObjectsFollow`), when there is a row
  (`RowFollows`) and that a picture is sent again only after a failure or out of
  impatience (`SentInTurn`). From it `NoBrokenImage`, `UploadAnswersAreTrue`,
  `RetriesStoreOnce`. `SiteIsStorage` reduces a step of the site to a step of an
  upload, a kill of some, or none.
- **Pages**, also of `SiteSpec`: `NothingMissed` and `NothingTwice`, for tables and
  pages of any size. The number of rows ahead of a row says on which page it is:
  while nothing leaves, a row not yet shown keeps every page read so far ahead of
  it (`NothingPassedBy`), so that the total announces a further page
  (`RowsBehindCount`, `OnePageMore`); while nothing enters, a row already shown
  never has that many (`NothingComesBack`). `TiesDecideNothing` is where reports of one
  second are excepted.

The type invariants of the modules with proofs are theorems and are not checked
again by a run, and so are three properties whose theorems hold under every race,
`RevocationStaysWithUser`, `RepliesStayFlat`, `OneWinnerPerEmail`, and
`DeactivatedForEver` and `DeletionIsFinal`, which the refinements of UserRegistry and
MenuBoard contain. `RotationIsFinal`
and `DeadTokensStayUseless` hold for racing requests by their theorems; the run
AuthSequential checks them for one request at a time.

Only model-checked: liveness (`KeysAreMovedInTheEnd`, `EveryWindowEnds`,
`SignUpsEnd`, `EveryRequestEnds`), which is out of the prover's reach. Every other
property of the passing runs is a theorem. Of `Site` as of its proofs: a command or a
synchronisation is killed in the middle once (`OneKill`).

## 5. What races break

Properties that say "without race" or "undisturbed" are exact about what the
code guarantees. This is what it does not; the first three have runs of their own.

- *A refresh token can be used twice.* `refresh` verifies with GET and EXISTS
  (`token_store.py:93`) and rotates later; two requests can both verify before
  either rotates (AuthRaceOneTimeUse), against README 4, "Refresh Token은 1회용".
- *Two moves can close a loop of menus* (MenuRaceLoop), each legal in its own
  snapshot (`menu_service.py:80`). The loop and all below it vanish from
  get_tree, and a later walk up into it never ends.
- *Reports are never stored* (ModerationStored): `report_model.py:60` has
  NOT NULL columns, post_title, post_content and comment_content, that no kind of
  target fills all of (`report_service.py:126`).
- `logout_all`, or the answer to a reused token, can leave a session: SMEMBERS
  and the deletion are two round trips (`token_store.py:140`), and a refresh under
  way may save between or after them. With no overlap none is left
  (`RevokeAllIsComplete`).
- A logout between another request's check and its rotation leaves a used mark
  on a logged-out token (`token_store.py:22` says it leaves none), so that showing
  it again ends the user's sessions.
- The mark's TTL is cut to whole seconds (`service.py:157`): it lapses up to a
  second before the token does; `MarkCoversToken` is that bound.
- A like or unlike between the job's GET and its DEL is lost
  (`post_repository.py:291`), and so may be one whose check read a snapshot older
  than the job's commit. A count read while the job runs mixes Redis and two
  SELECTs of different times (`post_repository.py:149`); it may be wrong, never
  negative (`CountIsNatural`).
- Overlapping creations make menus of one name, since the unique key holds a NULL
  (`menu_model.py:55`); a child created while its parent is deleted is an
  orphan, which get_tree shows as a root.
- A reply can be stored under a comment, or on a post, deleted meanwhile.
- Two administrators can both decide a report (`report_service.py:62`), and a
  sanction may be imposed for one that ends rejected.
- Hiding a post while its author deletes it turns DELETED into HIDDEN
  (`report_service.py:222`); it stays out of sight (`SanctionedPostIsHidden`).
- Without a race: from six users with nicknames matching a mentioned one
  on, the mention may be refused (`comment_repository.py:216`, LIMIT 5;
  `comment_service.py:218`), and that of a nickname with a backslash is refused
  although its user is there (`comment_repository.py:213`, LIKE without an escape).
  After a key has expired between INCR and TTL, or
  with less than half a second left, a refused client is told the whole window
  (`rate_limit.py:47`).
- *Pages* (`post_repository.py:104`, `comment_repository.py:75`): a row that leaves
  the list moves one over the page boundary, which the client never sees; one that
  enters is followed by a repetition. Reports are ordered by created_at alone
  (`report_repository.py:134`), in whole seconds: those of one second may change places
  between two pages and one be missed though nothing changed. The router of reports
  takes its `PageParams` without `Depends()` (`report_router.py:29`), so FastAPI
  expects them in the body of a GET, not in the query.
- *Images:* an upload that fails leaves the objects it stored, which nothing takes
  back. A failure at the commit or while the URL is signed (`post_service.py:374`)
  may come after the row is stored: the client that tries again stores its picture
  twice.
- *Migrations* (`CommandsFailForCause` has the exceptions): downgrading the first
  revision always fails (1553: it drops an index its foreign key needs), and
  upgrading view_count again after its downgrade does (the key it drops is not put
  back). No migration creates `reports` and `user_sanctions`. A kill inside a revision
  leaves part of it, on which the same upgrade fails; inside a downgrade from head,
  alembic_version still says head and the next upgrade does nothing, silently.
  Downgrading past image_paths and coming back leaves every path empty.
- *Synchronisation* repairs such a schema (`ServedSchemaIsModels`), but autogenerate
  does not compare AUTO_INCREMENT: `posts.post_id` is left without it where a kill
  left it so. From a schema older than the likes it always fails (1075, an
  AUTO_INCREMENT column added beside a key), and the worker is restarted for ever.
  Several workers each work through a plan the others make stale; the one whose
  statement is refused starts again with a new plan.
- A successful edit of a post is answered 404 if the post is hidden or deleted
  between its commit and the second read (`post_service.py:164`). An account that is
  deactivated between refresh's check and its rotation gets one more pair
  (`service.py:152`), which the next request refuses.
- A pool timeout can be the only way on although `_validate_pool_capacity`
  holds (`config.py:207`; README, design decision 1): a request keeps its connection
  between hops, without a thread. It takes Connections + Threads requests, or
  Connections of them and the job, which freezes the loop by waiting on it
  (README 1 says why handlers are not `async def`; the job is).
- The Redis pool has one connection per thread (`redis.py:13`) and one user
  more, the job: a command can be refused while it runs.

## 6. Abstractions

Left out: contents of texts beyond what a property tells apart, passwords,
access tokens (a deactivated account is refused at the next request by
`get_current_user`), request ids, logging and formatting; the view counter; notices,
which the list of posts shows beside every page; replies, whose list has no pages.
Of a column's definition, its type, length and nullability. Why an image is refused.
Failures of MySQL or Redis end the request (`Crash`, `Fail`, `Refuse`) and roll
its session back. Not modelled: a MySQL lock-wait timeout or deadlock outside
`Accounts`, replication, eviction of Redis keys before their TTL, a Redis
failover that forgets writes.

External, modelled from how `src/` uses it: Redis' expiry and rounding of TTL,
InnoDB's index locks, FastAPI's hops, anyio's limiter and the pools.

## 7. Plan

Done, in this order: sessions with TokenLife; likes; menus; rate limit; comments;
posts, reports and sanctions; accounts; pools; their proofs; images, lists, schema
and start of the server with their composition; the proofs of images and lists; those
of rate limit, likes and synchronisation; UserRegistry; the proofs of the migrations; MenuBoard.
Next:

1. **Post creation and detail** with the commit-then-read-again of
   `post_service.py:164`, joined to Moderation, and the view counter.
2. An abstract specification of the likes (a set of users and a count) that
   PostLikes implements while nothing overlaps the job.
3. A second kill in `Site`, and migrations of a database that was synchronised.

Plain properties give way to deeper ones as these arrive.
