---------------------------- MODULE ArticleSlugs ----------------------------
(***************************************************************************)
(* How an article gets its slug and is found by it: ensureUniqueSlug looks  *)
(* for a free candidate through FindBySlug, which keeps slug -> id in the   *)
(* cache (and "null" for a slug that nobody has), and Update and Delete     *)
(* evict what they change.  Create does not.  Every SQL statement and every *)
(* cache operation is a step of its own.                                    *)
(***************************************************************************)
EXTENDS Naturals

CONSTANTS
    Ids,         \* article ids
    Titles,      \* results of generateSlug
    Tries,       \* candidates that ensureUniqueSlug tries (100)
    Alias,       \* Alias[s]: the article whose id the slug s spells, or None
    Author,      \* the author of each article
    Users, Admin,\* Admin is one of them
    Readers,     \* who asks for articles: some users, Anon
    Anon, None,
    Indexed,     \* the states of rows that the unique index on slug covers
    Handlers,    \* handlers that run concurrently
    MaxFailures, \* bound on failing queries and lost evictions
    MaxRequests  \* bound on the requests that are made

Slugs == Titles \X (1..Tries)

ASSUME SlugAssumption ==
    /\ Tries \in Nat \ {0} /\ MaxFailures \in Nat /\ MaxRequests \in Nat
    /\ None \notin Ids \cup Slugs \cup Titles \cup Users
    /\ Ids \cap {"none", "null"} = {}
    /\ Alias \in [Slugs -> Ids \cup {None}]
    /\ Admin \in Users /\ Anon \notin Users /\ Anon \in Readers
    /\ Indexed \in {{"live"}, {"live", "deleted"}}

VARIABLES
    row,     \* table articles
    cache,   \* article:slug:{slug}
    call,    \* requests under way, one per handler
    failures, started,
    excuse   \* history: excuse[s] = 1 when the entry of s was filled by a load that
             \* a write overtook, or a write since then did not evict it

slugVars == <<row, cache, call, failures, started, excuse>>

Row == [state: {"absent", "live", "deleted"}, slug: Slugs \cup {None}, pub: 0..1]
Live == {a \in Ids : row[a].state = "live"}
Holders(s) == {a \in Live : row[a].slug = s}
\* The rows that the index refuses a second one for.  "where:deleted_at IS NULL" leaves
\* deleted rows out on PostgreSQL; MySQL, the configured driver, has no partial indexes.
Entries(s) == {a \in Ids : row[a].state \in Indexed /\ row[a].slug = s}
Holder(s) == IF Holders(s) = {} THEN None ELSE CHOOSE a \in Holders(s) : TRUE

\* t, i: the candidate being tried; slug: the slug asked for or to be written; old: the
\* slug to evict; got: what a lookup found; late: 1 when what the request looked at has
\* been written since, or its lookup was misled; over: the same, since the SELECT.
Idle == [pc |-> "idle", op |-> "none", a |-> None, t |-> None, i |-> 1, slug |-> None,
         old |-> None, pub |-> 0, got |-> None, who |-> Anon, late |-> 0, over |-> 0]
Lookups == {"cache", "byid", "db", "fill"}

SlugTypeOK ==
    /\ row \in [Ids -> Row]
    /\ cache \in [Slugs -> Ids \cup {"none", "null"}]
    /\ call \in [Handlers -> [pc: Lookups \cup {"idle", "reply", "insert", "old", "write",
                                  "select", "delete", "evictOld", "evict"},
                              op: {"none", "get", "create", "update", "delete"},
                              a: Ids \cup {None}, t: Titles \cup {None}, i: 1..Tries,
                              slug: Slugs \cup {None}, old: Slugs \cup {None}, pub: 0..1,
                              got: Ids \cup {None}, who: Readers, late: 0..1, over: 0..1]]
    /\ failures \in 0..MaxFailures /\ started \in 0..MaxRequests
    /\ excuse \in [Slugs -> 0..1]

\* Some articles exist already, with slugs of their own.
SlugInit ==
    /\ row \in [Ids -> [state: {"absent"}, slug: {None}, pub: {0}]
                       \cup [state: {"live"}, slug: Slugs, pub: {1}]]
    /\ \A a, b \in Live : row[a].slug = row[b].slug => a = b
    /\ cache = [s \in Slugs |-> "none"]
    /\ call = [p \in Handlers |-> Idle]
    /\ failures = 0 /\ started = 0
    /\ excuse = [s \in Slugs |-> 0]

Start(p) == call[p].pc = "idle" /\ started < MaxRequests /\ started' = started + 1
At(p, pc) == call[p].pc = pc /\ UNCHANGED started
Goto(p, q) == call' = [call EXCEPT ![p] = q]
Failure == failures < MaxFailures /\ failures' = failures + 1
Only(p, q) == Goto(p, q) /\ UNCHANGED <<row, cache, failures, excuse>>

\* p goes on as q after a write of article a that concerns the slugs S: requests that
\* have looked at one of these slugs, or at a by its id, are overtaken.
Touch(p, q, a, S) ==
    call' = [x \in Handlers |->
              IF x = p THEN q
              ELSE IF call[x].slug # None /\ (call[x].slug \in S \/ Alias[call[x].slug] = a)
              THEN [call[x] EXCEPT !.late = IF call[x].op \in {"get", "create"} THEN 1 ELSE @,
                                   !.over = IF call[x].pc = "fill" THEN 1 ELSE @]
              ELSE call[x]]

\* p's next eviction, or one after it, will remove the entry of s.
Evicts(q, s) == \/ q.pc \in {"evictOld", "evict"} /\ q.slug = s
                \/ q.pc = "evictOld" /\ q.old = s
Excused(s) == excuse[s] = 1 \/ \E p \in Handlers : Evicts(call[p], s)
-----------------------------------------------------------------------------
(* Who may see what.                                                       *)

Visible(a, who) == row[a].pub = 1 \/ who = Author[a] \/ who = Admin

\* ListArticles: status "" means published; draft and archived are one here.
ListAllowed(status, by, who) ==
    \/ status = "published"
    \/ who # Anon /\ (by = who \/ who = Admin)
List(status, by) ==
    {a \in Live : /\ row[a].pub = IF status = "published" THEN 1 ELSE 0
                  /\ by \in {None, Author[a]}}
ListArticles(status, by, who) ==
    IF ListAllowed(status, by, who) THEN List(status, by) ELSE {}
\* SearchArticles, for a keyword that every article contains.
Search == {a \in Live : row[a].pub = 1}
-----------------------------------------------------------------------------
(* FindBySlug and what follows it                                          *)

\* ensureUniqueSlug and the visibility check, once FindBySlug has said x (None: an
\* error, which ensureUniqueSlug reads as "free").
NextCandidateOrLast(q) ==
    IF q.i = Tries THEN [q EXCEPT !.pc = "insert"]
    ELSE [q EXCEPT !.pc = "cache", !.i = @ + 1, !.slug = <<q.t, q.i + 1>>, !.late = 0]
NextCandidate(q) ==
    IF q.i = Tries THEN Idle
    ELSE [q EXCEPT !.pc = "cache", !.i = @ + 1, !.slug = <<q.t, q.i + 1>>, !.late = 0]
Conclude(q, x, seen) ==
    LET r == [q EXCEPT !.over = 0, !.got = None] IN
    CASE q.op = "get" -> [r EXCEPT !.pc = "reply", !.got = IF seen THEN x ELSE None, !.pub = 0]
      [] q.op # "get" /\ x # None -> NextCandidate(r)
      [] q.op = "create" /\ x = None -> [r EXCEPT !.pc = "insert", !.t = None, !.i = 1]
      [] q.op = "update" /\ x = None -> [r EXCEPT !.pc = "old", !.t = None, !.i = 1]
SeesAll(q, x) == x # None
Sees(q, x) == x # None /\ Visible(x, q.who)

\* cache.Get
ReadCache(p) ==
    LET q == [call[p] EXCEPT
                !.late = IF call[p].op # "update" /\ Excused(call[p].slug) THEN 1 ELSE @]
        v == cache[q.slug] IN
    /\ At(p, "cache")
    /\ Only(p, CASE v = "null" -> Conclude(q, None, FALSE)
                 [] v = "none" -> [q EXCEPT !.pc = "db"]
                 [] OTHER      -> [q EXCEPT !.pc = "byid", !.got = v])

\* FindByID of the cached id: a row that is gone sends the lookup to the table.
FindByID(p) ==
    LET q == call[p] IN
    /\ At(p, "byid")
    /\ Only(p, IF q.got \in Live THEN Conclude(q, q.got, Sees(q, q.got))
               ELSE [q EXCEPT !.pc = "db", !.got = None])
\* So does a query that fails.
FindByIDFails(p) ==
    /\ At(p, "byid") /\ Failure
    /\ Goto(p, [call[p] EXCEPT !.pc = "db", !.got = None])
    /\ UNCHANGED <<row, cache, excuse>>

QuerySlug(p) ==
    LET q == call[p]  h == Holder(q.slug) IN
    /\ At(p, "db")
    /\ Only(p, [q EXCEPT !.pc = "fill", !.got = h, !.over = 0,
                         !.pub = IF q.op = "get" /\ Sees(q, h) THEN 1
                                 ELSE IF q.op = "get" THEN 0 ELSE @])

\* The SELECT fails: not found for GetArticle, free for ensureUniqueSlug.
QueryFails(p) ==
    /\ At(p, "db") /\ Failure
    /\ Goto(p, Conclude([call[p] EXCEPT !.late = IF call[p].op = "update" THEN 0 ELSE 1],
                        None, FALSE))
    /\ UNCHANGED <<row, cache, excuse>>

\* The id, or Delete and Set of the null sentinel.
Fill(p) ==
    LET q == call[p] IN
    /\ At(p, "fill")
    /\ cache' = [cache EXCEPT ![q.slug] = IF q.got = None THEN "null" ELSE q.got]
    /\ excuse' = [excuse EXCEPT ![q.slug] = q.over]
    /\ Goto(p, Conclude(q, q.got, q.pub = 1))
    /\ UNCHANGED <<row, failures>>

\* GetArticle: a number is tried as an id first, and the answer is then final.
GetArticle(p, s, who) ==
    LET a == Alias[s]
        q == [Idle EXCEPT !.pc = "cache", !.op = "get", !.slug = s, !.who = who] IN
    /\ Start(p)
    /\ Only(p, IF a \in Live THEN Conclude(q, a, Visible(a, who)) ELSE q)
\* A query that fails reads as an id that nobody has: the number is then taken as a slug.
GetArticleFails(p, s, who) ==
    /\ Start(p) /\ Alias[s] # None /\ Failure
    /\ Goto(p, [Idle EXCEPT !.pc = "cache", !.op = "get", !.slug = s, !.who = who, !.late = 1])
    /\ UNCHANGED <<row, cache, excuse>>

Reply(p) == At(p, "reply") /\ Only(p, Idle)
-----------------------------------------------------------------------------
(* CreateArticle                                                           *)

CreateArticle(p, t) ==
    /\ Start(p)
    /\ Only(p, [Idle EXCEPT !.pc = "cache", !.op = "create", !.t = t, !.slug = <<t, 1>>])

\* articleRepo.Create: the unique index refuses, or the sequence hands out a new id.
\* Nothing is evicted.
Insert(p, a) ==
    LET s == call[p].slug IN
    /\ At(p, "insert") /\ row[a].state = "absent" /\ Entries(s) = {}
    /\ row' = [row EXCEPT ![a] = [state |-> "live", slug |-> s, pub |-> 0]]
    /\ excuse' = [excuse EXCEPT ![s] = IF cache[s] = "null" THEN 1 ELSE @]
    /\ Touch(p, Idle, a, {s})
    /\ UNCHANGED <<cache, failures>>
Conflict(p) == At(p, "insert") /\ Entries(call[p].slug) # {} /\ Only(p, Idle)
-----------------------------------------------------------------------------
(* UpdateArticle with a title, and without: then, and in PublishArticle and *)
(* ArchiveArticle, the slug of the snapshot is written back.                *)

UpdateArticle(p, a, t) ==
    /\ Start(p) /\ a \in Live
    /\ Only(p, [Idle EXCEPT !.pc = "cache", !.op = "update", !.a = a, !.t = t,
                            !.slug = <<t, 1>>, !.pub = row[a].pub])
SaveArticle(p, a, pub) ==
    /\ Start(p) /\ a \in Live
    /\ Only(p, [Idle EXCEPT !.pc = "old", !.op = "update", !.a = a,
                            !.slug = row[a].slug, !.pub = pub])

\* articleRepo.Update: the SELECT of the old slug, whose error is ignored, the UPDATE,
\* which may find no row or a slug that is taken, and the evictions.
SelectOld(p) ==
    LET q == call[p] IN
    /\ At(p, "old")
    /\ Only(p, [q EXCEPT !.pc = "write", !.old = IF q.a \in Live THEN row[q.a].slug ELSE None])
SelectOldFails(p) ==
    /\ At(p, "old") /\ Failure
    /\ Goto(p, [call[p] EXCEPT !.pc = "write"])
    /\ UNCHANGED <<row, cache, excuse>>

\* Where a write of q leads: the old slug is evicted first when it differs.
ToEvictNew(q) == [Idle EXCEPT !.pc = "evict", !.slug = q.slug]
ToEvict(q) == IF q.old \in {None, q.slug} THEN [Idle EXCEPT !.pc = "evict", !.slug = q.slug]
              ELSE [Idle EXCEPT !.pc = "evictOld", !.slug = q.slug, !.old = q.old]
Write(p) ==
    LET q == call[p]  was == row[q.a].slug IN
    /\ At(p, "write")
    /\ IF q.a \in Live /\ Entries(q.slug) \subseteq {q.a}
       THEN /\ row' = [row EXCEPT ![q.a].slug = q.slug, ![q.a].pub = q.pub]
            /\ excuse' = [excuse EXCEPT ![was] = IF was \in {q.slug, q.old} THEN @ ELSE 1]
            /\ Touch(p, ToEvict(q), q.a, {was, q.slug})
       ELSE Goto(p, Idle) /\ UNCHANGED <<row, excuse>>
    /\ UNCHANGED <<cache, failures>>
-----------------------------------------------------------------------------
(* DeleteArticle                                                           *)

DeleteArticle(p, a) ==
    /\ Start(p) /\ a \in Live
    /\ Only(p, [Idle EXCEPT !.pc = "select", !.op = "delete", !.a = a])
SelectSlug(p) ==
    LET q == call[p] IN
    /\ At(p, "select")
    /\ Only(p, IF q.a \in Live THEN [q EXCEPT !.pc = "delete", !.slug = row[q.a].slug] ELSE Idle)
SoftDelete(p) ==
    LET q == call[p] IN
    /\ At(p, "delete")
    /\ row' = [row EXCEPT ![q.a].state = "deleted"]
    /\ Touch(p, ToEvict(q), q.a, {row[q.a].slug})
    /\ UNCHANGED <<cache, failures, excuse>>

\* A statement fails, or the process ends before it.
Fails(p) == call[p].pc \in {"insert", "write", "delete"} /\ Only(p, Idle) /\ UNCHANGED started
-----------------------------------------------------------------------------
(* The cache                                                               *)

Gone(s) == cache' = [cache EXCEPT ![s] = "none"] /\ excuse' = [excuse EXCEPT ![s] = 0]
AfterEvict(q) == IF q.pc = "evictOld" THEN [q EXCEPT !.pc = "evict", !.old = None] ELSE Idle
EvictedSlug(q) == IF q.pc = "evictOld" THEN q.old ELSE q.slug
Evict(p) ==
    /\ call[p].pc \in {"evictOld", "evict"}
    /\ Gone(EvictedSlug(call[p])) /\ Goto(p, AfterEvict(call[p]))
    /\ UNCHANGED <<row, failures, started>>
\* The result of Delete is not looked at.
EvictLost(p) ==
    /\ call[p].pc \in {"evictOld", "evict"} /\ Failure
    /\ excuse' = [excuse EXCEPT ![EvictedSlug(call[p])] = 1]
    /\ Goto(p, AfterEvict(call[p]))
    /\ UNCHANGED <<row, cache, started>>

ExpireSlug(s) ==
    /\ cache[s] # "none" /\ Gone(s)
    /\ UNCHANGED <<row, call, failures, started>>

SlugNext ==
    \/ \E s \in Slugs : ExpireSlug(s)
    \/ \E p \in Handlers :
          \/ ReadCache(p) \/ FindByID(p) \/ FindByIDFails(p) \/ QuerySlug(p) \/ QueryFails(p) \/ Fill(p)
          \/ Reply(p) \/ Conflict(p) \/ SelectOld(p) \/ SelectOldFails(p) \/ Write(p)
          \/ SelectSlug(p) \/ SoftDelete(p) \/ Fails(p) \/ Evict(p) \/ EvictLost(p)
          \/ \E s \in Slugs, who \in Readers : GetArticle(p, s, who) \/ GetArticleFails(p, s, who)
          \/ \E t \in Titles : CreateArticle(p, t)
          \/ \E a \in Ids :
                \/ Insert(p, a) \/ DeleteArticle(p, a)
                \/ \E t \in Titles : UpdateArticle(p, a, t)
                \/ \E pub \in 0..1 : SaveArticle(p, a, pub)

SlugSpec == SlugInit /\ [][SlugNext]_slugVars
-----------------------------------------------------------------------------
(* Properties.                                                             *)

\* The entry of s makes FindBySlug deny an article, or hand out one that is now
\* called something else.  (The id of a deleted article does no harm.)
Misleads(s) == \/ cache[s] = "null" /\ Holders(s) # {}
               \/ cache[s] \in Live /\ row[cache[s]].slug # s

\* FindBySlug is misled by its cache only after a named cause: an eviction that is
\* still to come or was lost, a load overtaken by a write, an article created over a
\* null sentinel (docs/design.md:780 says that Create evicts it; the code does not), or an
\* old slug that articleRepo.Update did not know because another update had changed it or
\* its SELECT failed.
MisledExcused == SlugTypeOK /\ \A s \in Slugs : Misleads(s) => Excused(s)

\* "article:slug:{slug}" is invalidated by "Create/Update/Delete" (docs/design.md:780):
\* when no request is under way and nothing has failed, no null sentinel denies the
\* slug of an article that is there.
SentinelsGone ==
    (failures = 0 /\ \A p \in Handlers : call[p].pc = "idle")
        => \A s \in Slugs : cache[s] = "null" => Holders(s) = {}

\* ListArticles and SearchArticles show nobody an article that GetArticle would hide.
ListsOnlyVisible ==
    \A who \in Users \cup {Anon}, status \in {"published", "draft"}, by \in Users \cup {None} :
        \A a \in ListArticles(status, by, who) \cup Search : Visible(a, who)

\* GetArticle answers with the article that has the slug, if the reader may see it, and
\* with 404 otherwise, provided no such cause applied and nothing it read was written
\* meanwhile; a slug that spells the id of an article means that article.  Lists and
\* searches show no more than that.
Expected(s, who) ==
    LET h == IF Alias[s] \in Live THEN Alias[s] ELSE Holder(s) IN
    IF h # None /\ Visible(h, who) THEN h ELSE None
AnswersRight ==
    /\ ListsOnlyVisible
    /\ \A p \in Handlers : call[p].pc = "reply" /\ call[p].late = 0
                          => call[p].got = Expected(call[p].slug, call[p].who)

\* The unique index refuses a CreateArticle only when ensureUniqueSlug was misled, by
\* another write in between, a failing query or an entry it could not trust, or when it
\* had no way to know: the slug is free, but the index keeps it for a deleted article.
\* It never proposes a slug that it could have found with an article.
KeptByDeleted(s) == Holders(s) = {} /\ \E a \in Entries(s) : row[a].state = "deleted"
ConflictExcused ==
    [][\A p \in Handlers : Conflict(p) => call[p].late = 1 \/ KeptByDeleted(call[p].slug)]_slugVars
=============================================================================
