# TLA+ models of the Ley blog platform

Ley is a blog platform of three Go services: `auth` (accounts and tokens), `blog`
(articles, categories, tags, files, site settings) and `entry` (the HTTP gateway).
They share the libraries under `src/pkg` (cache, event bus, queues, JWT, task
pool, object storage) and keep their state in a SQL database, in Redis, in an object
store and in etcd. Every HTTP request is a goroutine; there are also a view-count
flusher, an event-bus worker and consumers, a configuration watcher and a task pool.
Nothing holds a lock or a transaction across the statements of a handler, so almost
everything hard about this code is in the orders in which the statements of different
handlers reach the database and Redis, and in the steps that fail between them.

`PROJECT.json` lists components, runs, mutants, the map from definitions to source
lines, findings, hazards and theorems.

## 1. Inventory

| Component | State | Operations | What is hard | What makes it correct |
|---|---|---|---|---|
| Article lifecycle (`blog/biz/article.go`, `blog/data/article.go`, `blog/data/tag.go`) | `articles` rows, `articles_tags` links, `article_count` of categories and tags | create, update, publish, archive, delete; delete category | handlers act on snapshots and write whole rows; counters are separate statements that may fail | counters agree with the published articles; published implies a publication time; deleted rows stay as they are |
| View counting (`blog/biz/article.go`, `blog/data/data.go`) | dedup and view keys in Redis, `view_count` | view, flush (ticker and shutdown) | SCAN, MGET, UPDATE and DEL are separate; crash, restart, expiry | no view counted twice, none lost, one per visitor and window, Redis drains |
| Slugs (`blog/biz/article.go`, `blog/data/article.go`) | slug column, slug cache with null sentinels | create, rename, delete, find by slug, list | check-then-insert through a cache, evictions that miss | an article is found under its slug by those who may see it |
| Likes and site configuration (`blog/biz/article.go`, `blog/biz/site.go` and their data) | `articles_likes`, `like_count`, one settings row and its cache | like, unlike; read, merge, save | rows that are only soft-deleted, a switch read earlier, whole-row saves | the count is the likes that stand; fields keep the value last given |
| Category tree (`blog/biz/tag.go`, `blog/data/tag.go`) | parent links, cached tree | create, move, delete, list | a walk of queries that decides a write | every category is shown; only empty ones are deleted |
| Tags (same files) | `tags`, cached list | create, find or create, delete | two unique indexes and soft deletion | see "Not modelled" |
| Files (`blog/biz/file.go`, `blog/data/file.go`, `pkg/oss`) and backgrounds (`site.go`) | objects, rows, presigned URLs, cached list | upload, presigned upload and its completion, delete, activate | object and row change separately; the client writes objects itself | rows and objects belong together |
| Token sessions (`pkg/jwt`, `auth/biz/auth.go`, gateway `middleware/auth.go`) | tokens, blacklist with TTLs | login, refresh, logout, gateway check | check-then-act on Redis, whole-second TTLs, failing Redis | a revoked token is refused |
| Accounts (`auth/biz`, `auth/data/user.go`) | `users` rows, cached users, null sentinels | register, login, refresh, profile, status, delete | read-through cache racing writers, lost evictions, check-then-insert | names are unique; pairs go to active accounts; disabled accounts stay out |
| Event bus and memory queue (`pkg/eventbus`, `pkg/mq`) | buffer, producers, one channel per topic | publish (async, sync), subscribe, unsubscribe, close | full buffers, timeouts, close racing everything | order, at most once, no event unaccounted for, close returns |
| Task pool (`pkg/task`) | priority queue, retry queue, workers | submit, cancel, retry, stop | shutdown with queued work, timeouts | every task ends once; stop returns |
| Gateway (`entry`) | remote configuration and what the process made of it, bucket table, route table | load, watch, admit, authenticate, forward | a watch with gaps, a table at its limit, classes and use cases kept in two places | the newest configuration wins; the limit holds; gateway and services agree |
| NATS adapter, logging, tracing, metrics, web frontend | none that the services depend on | - | - | not modelled |

How they interact: the gateway checks tokens against the blacklist that the auth
service writes and passes the identity on in gRPC metadata, which the services trust;
the auth service reads users through the user cache when it rotates a token; the
article handlers call the category and tag repositories, ask the site configuration
whether likes are on, and publish events on the bus after their work is done (best
effort, the result is only logged); view counting shares the article table and
nothing else.

## 2. Modules

One action stands for one statement that reaches shared state: an SQL statement or
transaction, a Redis command, an object-store call, a channel operation. What a
goroutine computes between two of them belongs to the earlier one. `req[p]` is always
the handler that process `p` runs: where it is (`pc`) and what it has read.

History variables record *causes*: `stale`, `lost`, `excuse`, `raced`, `late`, `cause`
say that a named window of the code was hit. The properties then have the form "this is
right, except after one of these causes": they hold of the code as it is, they say
exactly which windows it has, and they fail if an order of steps outside these windows
does harm.

- **ArticleLifecycle** - `ArticleUseCase` and its repositories: the snapshot a handler
  read (`seen`), the row it will write (`next`) and the counter adjustments it still
  owes (`dec`, `inc`, `delta`, `sync`). Reading and planning is one step
  (`UpdateArticle`, `PublishArticle`, ...), the write is `RepoUpdate`/`RepoDelete`, and
  each adjustment follows in the code's order. Every adjustment may fail (it is logged
  and skipped) and every handler may die (`Abort`). The constant `PreloadSeesDeleted`
  leaves open whether GORM's `Preload("Tags")` returns soft-deleted links. Categories are
  created and deleted at any time; an article may name one that does not exist (yet), and
  `missed[c]` counts the adjustments that matched no row.
- **ViewCount** - `ViewArticle`, the fallback `IncrementView`, and `flushViewCounts` run
  by the ticker goroutine and, at shutdown, by the stop function beside it. Exit, crash,
  restart, key expiry and failing commands are actions. `late` counts what the code can
  lose (views between MGET and DEL, expired keys), `redo` says that a flush may have
  been repeated.
- **ArticleSlugs** - `ensureUniqueSlug`, `FindBySlug`, `GetArticle`, the lists, and the
  evictions of `Update` and `Delete`. A slug is a title and the number of the
  candidate; `Alias` says which slugs spell an id. `excuse[s]` marks an entry filled by
  an overtaken load or not evicted by a write. `Indexed` says which rows the unique index
  on slug covers: the live ones where the `where:` of its tag is honoured (PostgreSQL),
  the deleted ones as well on MySQL, which `configs/blog.yaml` selects.
- **SiteLikes** - `SiteUseCase.UpdateConfig`/`UpdatePlaylist` with the cached
  configuration, `LikeArticle` and `UnlikeArticle` behind its switch. **LikeSet** is the
  abstract specification of likes: a user likes an article or not, and may change that as
  often as they please; SiteLikes implements it under the mapping that takes the live join
  rows for the likes and forgets those of deleted articles. `want` is what the clients
  gave for each field, `omitted` says that the last update left `enable_likes` out.
- **CategoryTree** - `CategoryUseCase` and `categoryRepo`. `checkCircularRef` is one
  step per query; the cached tree is compared with the table instead of being stored.
  Its article counters are moved up and down by the article handlers without a floor
  (`IncrementArticleCount`).
- **FileStore** - `FileUseCase`, the background part of `SiteUseCase`, the object store
  as put, stat, delete and presigned put. A put that reports an error may have stored the
  object or not. The client's own PUT is an action. Contents are a size and whether they
  are an image. `active` of a background is 1 when a switch set it and 2 when the first
  UPDATE of a later switch should have cleared it and did not.
- **UserCache** - `userRepo`. A reader is between cache miss, load and fill; a writer is
  between its UPDATE and its eviction. **Accounts** extends it with `Register`, `Login`
  and `RefreshToken`: its handlers use UserCache's steps, so a refresh may be answered
  from an entry that a writer has not evicted yet. One name stands for username and
  e-mail.
- **TokenSession** - tokens with expiry times, a blacklist whose keys expire, and the
  handlers between their blacklist query and their write. Time is counted in fractions
  of a second because SETEX takes whole seconds.
- **EventBus** - `eventBus` over `memoryConnection`. Events have identities; `fate`
  records what became of each. A send on a closed channel is an outcome
  (`"panicked"`), not a disabled step.
- **TaskPool** - `TaskQueue`, `WorkerPool` and `Worker`. The scheduler is between two
  workers of `dispatchTasks` or blocked on a hand-over; a worker is between taking a
  task, marking itself busy, waiting for the task function or its timeout, and the
  deferred `Done`. `running` counts the task functions that run, including those that
  outlived their timeout. The scheduler wakes up every 100 ms in any case, so
  `taskDoneChan` needs no state.
- **Gateway** composes **RemoteConfig** (etcd key, watch, channel, holder and the parts
  that take a snapshot of it while the process starts), **RateLimiter** (the bucket
  table) and **Routes** (the route table, what each proxy handler parses, what each use
  case asks for). A request passes limiter and blacklist in one step (`Check`; only the
  lookup in Redis touches state that others change), then JWT, role and parsing
  (`Forward`, `TurnAway`), with the configuration its process started from, and reaches the
  service with an identity. Tokens expire and are revoked between these steps. The
  consumer of the holder takes a configuration from the channel and stores it in two
  steps.
- **ArticleLifecycleProofs**, **ArticleReadProofs** (ViewCount and ArticleSlugs),
  **AccountsProofs** (with UserCache), **SiteLikesProofs**, **CategoryTreeProofs**, **TaskFileProofs** (TaskPool and
  FileStore), **GatewayProofs** (with RemoteConfig, RateLimiter and Routes) and
  **SharedProofs** (EventBus and TokenSession) hold the theorems.
- The `MC*` modules add symmetry sets and structured constants. Four of them check two
  components that share no state side by side: a variable `part` chooses which one runs,
  the other stays in one of its initial states. The reachable states are those of the two
  components, not their product, and no property relates the two.

## 3. Runs

Bounds: `MaxRequests`, `MaxViews`, `MaxEvents`, `MaxPairs`, `MaxTime`, `MaxFaults`, `MaxFailures`,
`MaxLost`, `MaxCount`, `MaxWrites`, `MaxChanges` cap counters in the guards and nothing
else. `MaxFaults` is one in most runs: one failure is what separates two steps that
belong together, and its effect on a handler is the same whatever failed before.

| Run | Instance | Shows |
|---|---|---|
| `article_sessions` | articles: 2 handlers, 1 article, 2 categories, 1 tag, 4 requests | `DriftBounded`, `PublishedHasTime`, `DeletedIsFinal`. Races of article handlers are between two handlers on one article; four requests allow create, publish and any two that race, the creation or deletion of a category among them. Some categories may exist at the start. |
| | sessions: 2 servers, 2 pairs, 2 ticks a second, 1 Redis fault | `SessionTypeOK`, `RevokedIsRefused`. Two pairs are a login and a rotation. |
| `article_reads` | views: 2 articles, 1 address, 2 requests, 2 views, 2 faults | `NoOvercount`, `NoUndercount`, `OncePerWindow`, and `Drained` under fairness. Two articles give a flush two keys to delete; two views suffice for one that a flush reads and one that arrives behind it. |
| | slugs: 2 handlers, 2 articles, 1 title with 2 candidates, 1 fault, 3 requests, the index of MySQL | `MisledExcused`: the slug cache hides or confuses an article only after a named cause. `AnswersRight`: otherwise readers get the article that has the slug, if they may see it, and the lists show no more. `ConflictExcused`: the unique index refuses only what the handler could not know, or a slug that a deleted row keeps. The second candidate spells the id of an article. An article that is alone at the start is `a1`; where none exists, either may be created first. |
| `bus_tree` | bus: 2 topics, 1 publisher, 1 consumer, 1 closer, buffer 2, queue 1, 3 events | `InOrderOnce`, `NothingVanishes`, and under fairness `CloseReturns`, `BufferDrains`. Three events fill a queue, block the worker and leave one in the buffer. |
| | tree: 2 handlers, 3 categories, walks of at most 3 steps, counters from -1 to 1, 1 fault, 3 requests | `EveryCategoryShown`, `TreeStaleExcused`, `DeletesOnlyEmpty`, and `WalkEnds` under fairness. Three categories make a chain that a walk crosses while it is changed; the limit of three lets the walk give up, as the code does after a hundred. Categories are interchangeable, so only the number of those that exist at the start varies. |
| `pool_accounts` | pool: 2 tasks of different priority, 2 callers, 2 workers, 1 retry, queue of 1 | `Bookkeeping`, `AttemptsDisjoint`, and `TasksSettle` under fairness. Two tasks let a second one be handed to a worker that has taken its first and is not yet marked busy. |
| | accounts: 2 users, 2 handlers, 2 profiles, 1 name, 1 lost eviction | `NamesUnique`, `PairsForActive`, `StaleHasExcuse`, `OnlyAdminsRevive`, and `LockedOut` under fairness. Two users compete for one name; two handlers are a reader and a writer of one. |
| `site_likes` | 2 handlers, 1 article, 2 users, 1 fault, 4 requests | `CountsLikes` (the refinement of LikeSet), `LikedThroughGate`, `FieldsKept`. |
| `file_store` | 2 handlers, 2 users, 2 files, 2 keys, 2 backgrounds, 4 contents around the limits, 1 fault, 5 requests | `ObjectsMatchRows`, `FilesAsRecorded`, `ListStaleExcused`. Two files may name one key; two backgrounds may both be active. |
| `gateway` | 2 configurations (other key, no Redis, no limit), 1 write, 1 fault, 2 addresses and room for one bucket, burst 3, rate 1, idle time 1, 3 tokens, 1 request at a time | `ClassesAgree` over every route, kind of header and configuration, `QuietIsCurrent`, `HolderGoesForward`, `SweepIsHarmless`, `TableBounded`, `RevokedStaysOut`. Burst exceeds what flows in during the idle time, so that a sweep does give tokens away. Requests touch each other only in the bucket table, which takes them one by one under its mutex. Time passes for the limiter only before the key changes, and the key changes only while no bucket is idle: a limiter that is built sees no later configuration. |
| `stop_returns` | the pool of `pool_accounts` | **violated**: `Stop` makes the scheduler exit and then waits for tasks that are still queued, which nobody will run. |
| `close_waits` | the bus of `bus_tree` | **violated**: `Close` returns while accepted events were never sent. |
| `sentinels_gone` | as `article_reads` | **violated**: one `CreateArticle` leaves the null sentinel of its own lookup under the new slug. |
| `switch_kept` | as `site_likes` | **violated**: one `UpdateConfig` without `enable_likes` turns the likes off. |
| `like_again` | as `site_likes` | **violated**: like, unlike, like leaves the user without a like. |

The type invariants of ArticleLifecycle, ViewCount, UserCache and TokenSession are theorems
of their own; those of the other modules are the first conjunct of the invariant that the
table names first.

Deadlock is not checked: once the requests, pairs or events that the bound allows are
used up, the bus is closed or the pool stopped, nothing is left to do. What must go on is
stated as liveness.

Fairness. `ViewCount`: the ticker fires, a goroutine that can run runs, and a process
that was stopped or crashed is started again (`docker-compose.yml`:
`restart: unless-stopped`). `EventBus`: every goroutine that can run runs and deadlines
pass; nobody is obliged to publish, subscribe or close. `TaskPool`: the scheduler, the
workers and the caller of `Stop` run when they can and timeouts fire; nobody is obliged
to submit, cancel or stop, and a task function may never return. `CategoryTree`: a
handler that has begun a walk goes on with it. `Accounts`: Redis drops a key whose TTL
has passed, and a handler that is about to sign a pair does so. Views, requests and
failures are never fair.

`SweepIsHarmless` bounds what a sweep gives away by `Burst - Rate * IdleTimeout`, what a
bucket may still lack after `ipIdleTimeout` (ten minutes), and by nothing when that is
negative. `NewRateLimiter` enforces no relation between the three
(`middleware/ratelimit.go:49`, `router/provider.go:65`; `ratelimit_test.go:20` uses a rate
at which ten minutes do not fill a burst of 3), so the model assumes none.

## 4. Proofs

Checked by TLAPS for all values of the constants, from the named `ASSUME`s only
(finite sets of articles and handlers, distinct model values, natural bounds).

- **ArticleLifecycle**: `TypeCorrect`, `CounterDrift`, `PublicationTime`,
  `DeletionFinal`. `DriftBounded` is not inductive: a step that settles an adjustment
  is right only if the adjustment was planned from the snapshot that the row write
  compared. The inductive invariant `IInv` adds `Plans` (what a handler owes follows
  from its snapshot and its new row) and `Targets`. The argument then follows one
  quantity: `Drift(c)`, the counter plus pending increments minus pending decrements
  minus published articles. Settling moves one unit between two of its terms
  (lemma `DriftOfRequest`); a row write changes the last term and the pending ones by
  the same amount when the snapshot was current, and is counted in `stale` otherwise
  (lemma `WriteDrift`); failing and dying is counted in `lost`. An adjustment
  of a category that does not exist moves no counter and is counted in `missed`, so a
  category starts with the drift that was made before it.
- **ViewCount**: `TypeCorrect`, `NeverOvercounts`, `NeverUndercounts`,
  `CountedOncePerWindow`. The invariant adds what a flush knows of its keys: before
  its UPDATE the counts it read are still in Redis, after it the keys it has yet to
  delete hold counts that are already stored. `FinalOnce` says that at most one final
  flush runs. `OncePerWindow` needs the requests that hold a window and have yet to
  count.
- **UserCache and Accounts**: `TypeCorrect`, `StaleExcused`, `RevivalByAdminOnly` of the
  repository. The invariant adds `SnapshotCurrent`: a loaded row that no write has
  overtaken is the row in the table; filling the cache is then harmless or excused.
  `AccountsUseRepository` shows that every behaviour of Accounts is one of UserCache, so
  what is proved of the repository holds under the use cases. `NamesStayUnique` and
  `PairsOnlyForActive` add `SessionsSound`: what a handler between two queries has seen
  of the account it is about to sign for, and whether the entry it read had an excuse.
- **SiteLikes**: `NoFieldLost`, `GateHolds` and the refinement `LikesRefine`. A handler
  that is not marked `late` holds the configuration in force (`AllSound`), the cache
  holds it unless an eviction is pending or excused (`CacheSound`), and `like_count` is
  the number of live rows (`Counts`), which carries the mapping to LikeSet: every step
  is a `Like`, a `Withdraw`, a `Remove` or a stutter. What an update saves is its copy
  merged with the request *after* the conversion; what was given is the request before it,
  and `omitted` accounts for the difference.
- **CategoryTree**: `CategoriesShown`, `TreeExcused`, `EmptyOnDelete`, for trees of any
  size. `Leads(c, a, b)` says that the chain of parents from `a` comes to `b` before it
  meets `c`, in the form of closed sets so that no induction along the chain is needed. A
  walk that no move cut across keeps `Leads(c, up, cur)` (`WalkGoesOn`) and ends with
  `Leads(c, up, Root)`: the move then closes no cycle (`MoveKeepsTree`). Creations and
  deletions beside a walk keep it (`ChainsKept`, `ChainsShrink`) because of `Anchored`:
  no live category names a parent that was never created. That is what the walk over an
  unused id would break, and why it counts as misled. `EmptyOnDelete` is about the
  counter as it is, of either sign.
- **TaskPool**: `PoolKeepsBooks`, `OneAttemptAtATime`. `Apart` says that a task is in one
  hand at a time: queue, scheduler, inbox, attempt, retry queue. A hand-over then leaves
  the held set as it was (lemmas `HandOut` to `HandBack`), and acceptance and settlement
  change it by one, as they change the WaitGroup and the statistics. `Enters` (a task
  is pushed once, before it has run) and `Attempts` (a running function is waited for or
  its task is settled) give the second theorem.
- **Gateway**: `RoutesAgree`, `HolderCatchesUp`, `HolderNeverGoesBack`,
  `SweepGivesLittleAway`, `TableStaysBounded`, `RevokedTokensStayOut`, from one inductive
  invariant of the composition. RemoteConfig contributes that the revisions in holder,
  channel and watch are in order (`Ordered`) and that what was told and not lost is on
  its way (`Followed`); RateLimiter that an address without a bucket would by now have one that
  lacks no more than the bound (`Filled`). `RevokedTokensStayOut` is inductive over the
  life of a request: `Check` establishes it from the lookup, a revocation during JWT
  check, call and answer marks the requests that carry the token, and every other step
  leaves token and mark together.
- **EventBus**: `ArrivesInOrder`, `NoEventVanishes`. `Order` keeps the whole line of a
  topic rising, not only its end: what was received lies below what is queued, that below
  the event the worker carries, that below the buffer, and all below the next number. Each
  hand-over moves the boundary (`AppendFacts`, `TailFacts`); a synchronous event overtakes
  the buffer and is outside the order. That the worker never meets a closed queue follows
  from `Shut`: whoever holds the lock of `Close` has waited for the worker.
- **TokenSession**: `SessionTypes`, `RevocationHolds`. The TTL of a key is computed before
  the SETEX, and the clock runs in between: `Held` keeps the bound that
  `tokenRemainingTTL` gives (`TTLCovers`, less than a second short because of the
  rounding) until the key is set, and `Covers` from then on. No handler holds a token
  that is not issued yet, so a new pair disturbs no key.
- **FileStore**: `RowsAndObjects`, `FilesStayAsRecorded`, `ListExcused`, for any limits
  with `MaxFile <= MaxAttach`. Object and row are written one after the other, so the
  properties say only who is still busy with a key. `Progress` adds what the busy handler
  left: at its INSERT the object it brought is there, or a row of the same key exists
  already; at the deletion of the row the object is gone, or a cause is recorded. `Alone`
  says that no second handler holds a key that is being brought and is not presigned, which
  is where a presigned key differs: any number of requests may complete it, and the
  second row of one key is what `shared` stands for. A `PutObject` that fails leaves the
  key with the cause `put`, whether the object is there or not; a switch of the active
  background leaves one row with the mark 1, whatever the rows it missed have.

- **ArticleSlugs**: `MisledOnlyExcused`, `AnswersAreRight`, `ConflictsExcused`. The
  properties speak of entries and answers; `Shape` and `Sound` add what a handler knows
  on the way to them. What the SELECT found is what the table holds until a write
  overtakes the handler (`Found`), and a handler that is not `late` is right about its
  slug wherever it stands (`Trusted`). A write of one article leaves the holders of all
  other slugs alone (`AwayFrom`), so a handler it does not touch stays right
  (`UntouchedSound`), and one that it touches claims nothing any more
  (`OvertakenSound`). A misleading entry is then one the write evicts (`ToEvictFacts`), or
  its cause is recorded. That a cached id is one that was once given out is what keeps
  `Insert` from turning an old entry into a wrong answer. `ConflictsExcused` holds for both
  values of `Indexed`.

Model-checked only: all liveness (`Drained`, `CloseReturns`, `BufferDrains`, `WalkEnds`,
`LockedOut`, `TasksSettle`); fairness is out of the prover's reach. Every invariant and
every action property of a passing run is stated by a theorem.

## 5. What the models show about the code

Where a document, a comment or a test of the repository says otherwise, its line is given.
The five disagreements that a run shows come first; the others are windows that the
properties of the passing runs name.

- `WorkerPool.Stop` never returns when tasks are queued (`stop_returns`;
  `pkg/task/worker_pool.go:159` waits "for all tasks").
- `Close` of the event bus drops what is in the buffer (`close_waits`;
  `pkg/eventbus/eventbus.go:199`, against `interface.go:43`).
- `CreateArticle` looks its slug up through the cache, which leaves a null sentinel behind
  that nothing evicts after the INSERT (`sentinels_gone`; `docs/design.md:780` lists Create
  among what invalidates `article:slug`). The new article is hidden under its slug for up to
  two minutes, and a second article of the same title is refused with a conflict instead of
  getting the next candidate.
- An `UpdateConfig` without `enable_likes` turns likes off (`switch_kept`;
  `blog/service/site.go:122`, against its line 112, `blog/biz/site.go:130` and
  `docs/design.md:917-922`).
- A withdrawn like cannot be given again: the soft-deleted row keeps the unique index
  (`like_again`; `blog/data/article.go:55`, against `docs/design.md:529`).

- Counters. `IncrementArticleCount` (`blog/data/tag.go:241-243`) has no floor and runs in a
  statement of its own: `blog/biz/article.go:559` claims GREATEST, `docs/design.md:622` and
  694-717 a common transaction and GREATEST. Nothing checks that a category exists when an
  article names it; the adjustment then changes no row without an error, and a category
  created later under that id starts at 0 and may go negative.
- Articles. `articleRepo.Update` writes every column of the snapshot, so an update that
  overlaps a publish or archive writes the old status back (`blog/data/article.go:121`;
  `blog/biz/article.go:380` says that nil keeps the value). Retagging a published
  article moves links and not tag counters (`blog/biz/article.go:530`, against line 24).
- Slugs. The index tag at `blog/data/article.go:27` is partial (`where:deleted_at IS NULL`),
  but MySQL, which `configs/blog.yaml:38` selects, has no partial indexes: a deleted article
  keeps its slug, `ensureUniqueSlug`, which sees live rows only, proposes it, and the INSERT
  is refused without any race. A slug of digits is shadowed by the article with that id; if
  the query for the id fails, the number is looked up as a slug. `Update` evicts the slug
  that a SELECT of its own found; its error is ignored and a concurrent rename makes it miss.
- Site configuration. Two updates that overlap lose fields of the first.
- Categories. Two moves, a failing query, or a parent id that no category has yet can
  close a cycle, whose members the tree does not show. `DeleteCategory` refuses a positive
  counter only (`blog/biz/tag.go:439`), and the counter counts published articles and
  drifts: drafts and archived articles do not stand in the way, although
  `blog/biz/tag.go:402`, `431`, `api/blog/v1/blog.proto:107` and `docs/design.md:423` speak
  of any associated article. It may also delete a category that became non-empty after its
  checks.
- Files. A presigned key may be completed more than once; deleting one of the files
  removes the object of the others. A `PutObject` that fails after it stored the object
  (`blog/data/file.go:44`, `blog/data/site.go:98`) leaves an object without a row.
  `DeleteBackground` evicts the list before the row is deleted. `SetActiveBackground` does
  not look at the error of its first UPDATE (`blog/data/site.go:144`), and on a database
  that runs the two transactions at READ COMMITTED (PostgreSQL by default) that UPDATE does
  not see what an overlapping one activates: two backgrounds may be active, against
  `docs/design.md:946`. The comment at `blog/biz/file.go:292` lets anyone read a file; the
  code asks for its owner.
- Accounts. A lookup that read the row before an update fills the cache after the
  eviction (`auth/data/user.go:232`, against line 385), and a refresh may then be granted
  to a disabled account until the entry expires. Two overlapping refreshes with one
  token both succeed (`auth/biz/auth.go:188`; `auth/service/service.go:59` says that the
  old token is invalid at once). Names of deleted accounts cannot be registered again.
  `UpdateStatus` and `Delete` have no route.
- Event bus. `PublishAsync` may send on a channel that `Close` has just closed, which
  panics.
- Gateway. A token that is revoked after the lookup of its request
  (`middleware/auth.go:88`) is served: nothing asks again before the call. If the first GET
  fails or the value does not decode, no watch is started at all; a write between GET and
  Watch, or while a broken watch is renewed, is not seen until the next one. Parts of the
  process may start from different revisions. A rate with burst 0 refuses everything, probes
  included; with a burst larger than what flows in during ten minutes, a sweep at the limit
  gives an idle address more than it had. `ViewArticle` wants a login at the gateway only. A
  call that is not answered in three seconds fails although the service may still carry it
  out.

## 6. Plan

Done: all the modules above with their runs, and the proofs of section 4. Next: the tag
catalogue, and `SubmitFuncSync` in TaskPool.

## 7. Not modelled, and limits

- The tag catalogue: `CreateTag`, `DeleteTag`, the cached list and `FindOrCreate`. The
  last one inserts with ON CONFLICT DO NOTHING and looks the name up again, which finds
  nothing when the conflict was on the slug or on a soft-deleted name; one sequential
  run shows it.
- `ListUsers`, `SubmitFuncSync`, `SubmitBatch`, multipart uploads and the other
  object-store calls without a caller, the NATS adapter (no service selects it).
- Logging, tracing, metrics, the EdgeOne headers and the proof-of-work middleware change
  no state the services depend on. Conversions between protobuf messages and use-case
  values are left out, except where they decide an outcome.
- Signatures and password hashes are ideal. The unsynchronised map of
  `memoryConnection` is modelled as if its operations were atomic. `CancelTask` writes a
  status that nothing documents, so no property speaks of it; the size check of `Submit`
  can be overrun by as many callers as there are. Buffered views of articles that are
  deleted meanwhile are not modelled.
- The web frontend, and with it a lost response to a refresh or two tabs that refresh at
  once, is not modelled: nothing in the server can tell these from other clients.
