-------------------------- MODULE ArticleLifecycle --------------------------
(***************************************************************************)
(* The article handlers of the blog service (ArticleUseCase) running       *)
(* concurrently against the articles, categories and tags tables.          *)
(*                                                                         *)
(* A handler is a request goroutine.  It reads the article once            *)
(* (authorizeArticle), plans the new row and the counter adjustments from  *)
(* that snapshot, writes the whole row, and then adjusts the category and  *)
(* tag counters in further, separate SQL statements.  Nothing holds a lock *)
(* or a transaction across these statements, so each is a step of its own. *)
(* Slug, title, content, excerpt and cover travel with the row and are     *)
(* abstracted away.                                                        *)
(***************************************************************************)
EXTENDS Integers, FiniteSets

CONSTANTS
    Articles,           \* article ids
    Categories,         \* category ids
    Tags,               \* tag ids
    Procs,              \* request goroutines
    NoCat,              \* article.CategoryID = nil
    Keep,               \* an omitted field of an update request (nil)
    PreloadSeesDeleted, \* does Preload("Tags") read soft-deleted join rows?
    MaxRequests         \* bound on the number of requests of a behaviour

ASSUME ConstantsAssumption ==
    /\ IsFiniteSet(Articles) /\ IsFiniteSet(Procs)
    /\ NoCat \notin Categories
    /\ Keep \notin Categories \cup {NoCat} /\ \A ts \in SUBSET Tags : Keep # ts
    /\ PreloadSeesDeleted \in BOOLEAN
    /\ MaxRequests \in Nat

VARIABLES
    row,       \* articles table
    tags,      \* live rows of articles_tags, per article
    exTags,    \* soft-deleted rows of articles_tags, per article
    catLive,   \* categories that are not soft-deleted
    catMade,   \* category ids that have been given out
    catCount,  \* categories.article_count
    tagCount,  \* tags.article_count
    req,       \* what each request goroutine is doing
    started,   \* requests so far; also the clock that stamps published_at
    stale,     \* history: row writes based on an outdated snapshot
    lost,      \* history: category adjustments that never reached the table
    missed     \* history: adjustments of each category that matched no row

counters == <<catCount, tagCount>>
links == <<tags, exTags>>
cats == <<catLive, catMade>>
history == <<stale, lost, missed>>
vars == <<row, links, cats, counters, req, started, history>>

Status == {"draft", "published", "archived"}
OptCat == Categories \cup {NoCat}

\* ArticlePO: gorm.Model's deleted_at gives "state"; published_at = nil is 0.
Row == [state: {"absent", "live", "deleted"}, status: Status, cat: OptCat, pub: Nat]

NoRow == [state |-> "absent", status |-> "draft", cat |-> NoCat, pub |-> 0]

\* What a handler still has to do: "seen" is the article it read, "next" the row
\* it will write, dec/inc/delta the counter adjustments it has planned.
Idle == [pc |-> "idle", op |-> "none", a |-> Keep, seen |-> NoRow, next |-> NoRow,
         tags |-> {}, dec |-> NoCat, inc |-> NoCat, delta |-> 0, sync |-> Keep]

Request == [pc: {"idle", "write", "check", "counts", "assoc", "delcat"},
            op: {"none", "create", "update", "delete", "publish", "archive", "delcat"},
            a: Articles \cup Categories \cup {Keep},
            seen: Row, next: Row, tags: SUBSET Tags,
            dec: OptCat, inc: OptCat, delta: {-1, 0, 1},
            sync: (SUBSET Tags) \cup {Keep}]

TypeOK ==
    /\ row \in [Articles -> Row]
    /\ tags \in [Articles -> SUBSET Tags]
    /\ exTags \in [Articles -> SUBSET Tags]
    /\ catMade \subseteq Categories /\ catLive \subseteq catMade
    /\ catCount \in [Categories -> Int]
    /\ tagCount \in [Tags -> Int]
    /\ req \in [Procs -> Request]
    /\ started \in 0..MaxRequests
    /\ stale \in Nat
    /\ lost \in Nat
    /\ missed \in [Categories -> Nat]

\* Some categories exist already.
Init ==
    /\ row = [a \in Articles |-> NoRow]
    /\ tags = [a \in Articles |-> {}]
    /\ exTags = [a \in Articles |-> {}]
    /\ catMade \in SUBSET Categories /\ catLive = catMade
    /\ catCount = [c \in Categories |-> 0]
    /\ tagCount = [t \in Tags |-> 0]
    /\ req = [p \in Procs |-> Idle]
    /\ started = 0
    /\ stale = 0
    /\ lost = 0
    /\ missed = [c \in Categories |-> 0]
-----------------------------------------------------------------------------
(* Reading the article and planning the request.                           *)

\* The tags FindByID attaches to the article.  The join model has no
\* DeletedAt of its own, so GORM's Preload may also return soft-deleted links.
PreloadTags(a) == IF PreloadSeesDeleted THEN tags[a] \cup exTags[a] ELSE tags[a]

\* An article that the category and tag counters should include.
Counted(r, c) == r.state = "live" /\ r.status = "published" /\ r.cat = c

\* The category whose counter the article is in, if any.
CountedCat(r) == IF r.state = "live" /\ r.status = "published" THEN r.cat ELSE NoCat

\* GORM's soft-delete scope: every statement adds WHERE deleted_at IS NULL.
LiveUnscoped(a) == row[a].state # "absent"
Live(a) == row[a].state = "live"

\* authorizeArticle: a missing article is a 404 and ends the request at once, as
\* does a caller who is neither the author nor an admin.
Authorize(p, a) ==
    /\ req[p].pc = "idle"
    /\ started < MaxRequests
    /\ Live(a)
    /\ started' = started + 1

Plan(p, op, a, pc, next, dec, inc, delta, sync) ==
    /\ req' = [req EXCEPT ![p] =
                 [pc |-> pc, op |-> op, a |-> a, seen |-> row[a], next |-> next,
                  tags |-> PreloadTags(a), dec |-> dec, inc |-> inc,
                  delta |-> delta, sync |-> sync]]
    /\ UNCHANGED <<row, links, cats, counters, history>>

\* Step 4c of UpdateArticle: nil keeps the category, 0 (NoCat) removes it.
AssignCategory(r, c) == IF c = Keep THEN r ELSE [r EXCEPT !.cat = c]

\* UpdateArticle, steps 1-4: the category change of a published article plans -1
\* for the old and +1 for the new category; the rest of the row is the snapshot.
UpdateArticle(p, a, c, ts) ==
    LET r == row[a]
        moved == c # Keep /\ r.status = "published"
    IN  /\ Authorize(p, a)
        /\ Plan(p, "update", a, "write",
                AssignCategory(r, c),
                IF moved THEN r.cat ELSE NoCat,
                IF moved THEN c ELSE NoCat,
                0, ts)

\* Step 3 of PublishArticle: status and published_at of the new row.
MarkPublishedOnly(r, now) == [r EXCEPT !.status = "published"]
MarkPublished(r, now) == [r EXCEPT !.status = "published", !.pub = now]

\* PublishArticle, steps 1-3: published articles are refused (409); published_at
\* is set to the current time, whatever it was before.
PublishArticle(p, a) ==
    /\ Authorize(p, a)
    /\ row[a].status # "published"
    /\ Plan(p, "publish", a, "write",
            MarkPublished(row[a], started + 1), NoCat,
            row[a].cat, 1, Keep)

\* The counter a published article leaves when it is archived or deleted.
LeaveAlways(r) == r.cat
Leave(r) == IF r.status = "published" THEN r.cat ELSE NoCat

\* ArchiveArticle, steps 1-4: archiving an archived article is a no-op; the
\* counters are only touched when the snapshot was published.
ArchiveArticle(p, a) ==
    LET r == row[a] IN
    /\ Authorize(p, a)
    /\ r.status # "archived"
    /\ Plan(p, "archive", a, "write", [r EXCEPT !.status = "archived"],
            Leave(r), NoCat,
            IF r.status = "published" THEN -1 ELSE 0, Keep)

\* DeleteArticle, step 1: the snapshot decides about the counters later on.
DeleteArticle(p, a) ==
    LET r == row[a] IN
    /\ Authorize(p, a)
    /\ Plan(p, "delete", a, "check", [r EXCEPT !.state = "deleted"],
            Leave(r), NoCat,
            IF r.status = "published" THEN -1 ELSE 0, Keep)

\* articleRepo.Delete first selects the row (for its slug): gone means 404.
DeleteSelect(p) ==
    /\ req[p].pc = "check"
    /\ req' = [req EXCEPT ![p] = IF Live(req[p].a)
                                 THEN [@ EXCEPT !.pc = "write"]
                                 ELSE Idle]
    /\ UNCHANGED <<row, links, cats, counters, started, history>>
-----------------------------------------------------------------------------
(* Writing the row.                                                        *)

\* The snapshot no longer describes what the counters hold for this article.
Outdated(p) == CountedCat(row[req[p].a]) # CountedCat(req[p].seen)

\* articleRepo.Update writes every column of the snapshot; WHERE deleted_at IS
\* NULL is implied, and no affected row ends the request with a 404.
RepoUpdate(p) ==
    LET q == req[p] IN
    /\ q.pc = "write" /\ q.op \in {"update", "publish", "archive"}
    /\ IF Live(q.a)
       THEN /\ row' = [row EXCEPT ![q.a] = q.next]
            /\ req' = [req EXCEPT ![p].pc = "counts"]
            /\ stale' = IF Outdated(p) THEN stale + 1 ELSE stale
       ELSE /\ req' = [req EXCEPT ![p] = Idle]
            /\ UNCHANGED <<row, stale>>
    /\ UNCHANGED <<links, cats, counters, started, lost, missed>>

\* articleRepo.Delete does not look at the rows its UPDATE affected: a second
\* delete that passed the SELECT goes on to adjust the counters again.
RepoDelete(p) ==
    LET q == req[p] IN
    /\ q.pc = "write" /\ q.op = "delete"
    /\ row' = [row EXCEPT ![q.a].state = "deleted"]
    /\ req' = [req EXCEPT ![p].pc = "counts"]
    /\ stale' = IF Outdated(p) THEN stale + 1 ELSE stale
    /\ UNCHANGED <<links, cats, counters, started, lost, missed>>
-----------------------------------------------------------------------------
(* The adjustments that follow, in the order of the code: the old category,*)
(* the new one, the tag counters, the tag links.                           *)

\* categoryRepo.IncrementArticleCount: an id that no category has yet, or that of a
\* soft-deleted one, matches no row, which is no error.  Nothing keeps the counter
\* from becoming negative.
IncrementArticleCount(c, d) ==
    IF c \in catLive
    THEN catCount' = [catCount EXCEPT ![c] = @ + d] /\ UNCHANGED missed
    ELSE missed' = [missed EXCEPT ![c] = @ + 1] /\ UNCHANGED catCount

CountOld(p) ==
    /\ req[p].pc = "counts" /\ req[p].dec # NoCat
    /\ IncrementArticleCount(req[p].dec, -1)
    /\ req' = [req EXCEPT ![p].dec = NoCat]
    /\ UNCHANGED <<row, links, cats, tagCount, started, stale, lost>>

CountNew(p) ==
    /\ req[p].pc = "counts" /\ req[p].dec = NoCat /\ req[p].inc # NoCat
    /\ IncrementArticleCount(req[p].inc, 1)
    /\ req' = [req EXCEPT ![p].inc = NoCat]
    /\ UNCHANGED <<row, links, cats, tagCount, started, stale, lost>>

\* A failed category adjustment is logged and skipped.
CountFails(p) ==
    /\ req[p].pc = "counts"
    /\ \/ req[p].dec # NoCat /\ req' = [req EXCEPT ![p].dec = NoCat]
       \/ /\ req[p].dec = NoCat /\ req[p].inc # NoCat
          /\ req' = [req EXCEPT ![p].inc = NoCat]
    /\ lost' = lost + 1
    /\ UNCHANGED <<row, links, cats, counters, started, stale, missed>>

\* So is a failed adjustment of the tag counters.
CountTagsFails(p) ==
    LET q == req[p] IN
    /\ q.pc = "counts" /\ q.dec = NoCat /\ q.inc = NoCat /\ q.delta # 0
    /\ req' = [req EXCEPT ![p].delta = 0]
    /\ UNCHANGED <<row, links, cats, counters, started, history>>

\* articleRepo.UpdateTagsArticleCount, one UPDATE for all tags of the snapshot.
CountTags(p) ==
    LET q == req[p] IN
    /\ q.pc = "counts" /\ q.dec = NoCat /\ q.inc = NoCat /\ q.delta # 0
    /\ tagCount' = [t \in Tags |-> IF t \in q.tags THEN tagCount[t] + q.delta
                                                   ELSE tagCount[t]]
    /\ req' = [req EXCEPT ![p].delta = 0]
    /\ UNCHANGED <<row, links, cats, catCount, started, history>>

\* articleRepo.SyncTags, a transaction: soft-delete the links, insert the new.
SyncTags(p) ==
    LET q == req[p] IN
    /\ q.pc = "counts" /\ q.dec = NoCat /\ q.inc = NoCat /\ q.sync # Keep
    /\ exTags' = [exTags EXCEPT ![q.a] = @ \cup tags[q.a]]
    /\ tags' = [tags EXCEPT ![q.a] = q.sync]
    /\ req' = [req EXCEPT ![p].sync = Keep]
    /\ UNCHANGED <<row, cats, counters, started, history>>

\* The handler publishes its event (best effort) and returns.
Finish(p) ==
    /\ req[p].pc = "counts" /\ req[p].dec = NoCat /\ req[p].inc = NoCat
    /\ req[p].delta = 0 /\ req[p].sync = Keep
    /\ req' = [req EXCEPT ![p] = Idle]
    /\ UNCHANGED <<row, links, cats, counters, started, history>>

\* The category adjustments a handler owes once its row is written.
Owed(q) == IF q.pc # "counts" THEN 0
           ELSE (IF q.dec # NoCat THEN 1 ELSE 0) + (IF q.inc # NoCat THEN 1 ELSE 0)

\* The process dies, or a statement whose error ends the request fails.
Abort(p) ==
    /\ req[p].pc # "idle"
    /\ req' = [req EXCEPT ![p] = Idle]
    /\ lost' = lost + Owed(req[p])
    /\ UNCHANGED <<row, links, cats, counters, started, stale, missed>>
-----------------------------------------------------------------------------
(* CreateArticle, CreateCategory and DeleteCategory.                       *)

\* The INSERT of a draft.  category_id is stored as given: nobody looks it up.
CreateArticle(p, a, c, ts) ==
    /\ req[p].pc = "idle" /\ started < MaxRequests
    /\ row[a].state = "absent"
    /\ row' = [row EXCEPT ![a] = [NoRow EXCEPT !.state = "live", !.cat = c]]
    /\ started' = started + 1
    /\ req' = [req EXCEPT ![p] = [Idle EXCEPT !.pc = "assoc", !.op = "create",
                                              !.a = a, !.tags = ts]]
    /\ UNCHANGED <<links, cats, counters, history>>

\* AssociateTags, a second statement whose failure does not fail the request.
AssociateTags(p) ==
    LET q == req[p] IN
    /\ q.pc = "assoc"
    /\ tags' = [tags EXCEPT ![q.a] = @ \cup q.tags]
    /\ req' = [req EXCEPT ![p] = Idle]
    /\ UNCHANGED <<row, exTags, cats, counters, started, history>>

\* The INSERT of CategoryUseCase.CreateCategory: a new id, and a counter of 0 whatever
\* articles name the id already.
CreateCategory(p, c) ==
    /\ req[p].pc = "idle" /\ started < MaxRequests
    /\ c \notin catMade
    /\ catMade' = catMade \cup {c} /\ catLive' = catLive \cup {c}
    /\ started' = started + 1
    /\ UNCHANGED <<row, links, counters, req, history>>

\* CategoryUseCase.DeleteCategory refuses a category with article_count > 0.
\* (The check that it has no children belongs to the category tree.)
DeleteCategory(p, c) ==
    /\ req[p].pc = "idle" /\ started < MaxRequests
    /\ c \in catLive /\ ~(catCount[c] > 0)
    /\ started' = started + 1
    /\ req' = [req EXCEPT ![p] = [Idle EXCEPT !.pc = "delcat", !.op = "delcat", !.a = c]]
    /\ UNCHANGED <<row, links, cats, counters, history>>

\* categoryRepo.Delete
CategoryRepoDelete(p) ==
    /\ req[p].pc = "delcat"
    /\ catLive' = catLive \ {req[p].a}
    /\ req' = [req EXCEPT ![p] = Idle]
    /\ UNCHANGED <<row, links, catMade, counters, started, history>>

Step(p) ==
    \/ DeleteSelect(p) \/ RepoUpdate(p) \/ RepoDelete(p)
    \/ CountOld(p) \/ CountNew(p) \/ CountFails(p)
    \/ CountTags(p) \/ CountTagsFails(p) \/ SyncTags(p)
    \/ Finish(p) \/ Abort(p) \/ AssociateTags(p) \/ CategoryRepoDelete(p)

Next ==
    \E p \in Procs :
        \/ Step(p)
        \/ \E a \in Articles :
              \/ \E c \in OptCat, ts \in SUBSET Tags : CreateArticle(p, a, c, ts)
              \/ \E c \in OptCat \cup {Keep}, ts \in (SUBSET Tags) \cup {Keep} :
                    UpdateArticle(p, a, c, ts)
              \/ PublishArticle(p, a)
              \/ ArchiveArticle(p, a)
              \/ DeleteArticle(p, a)
        \/ \E c \in Categories : CreateCategory(p, c) \/ DeleteCategory(p, c)

Spec == Init /\ [][Next]_vars
-----------------------------------------------------------------------------
(* Properties.                                                             *)

PublishedIn(c) == {a \in Articles : Counted(row[a], c)}
PendingInc(c) == {p \in Procs : req[p].pc = "counts" /\ req[p].inc = c}
PendingDec(c) == {p \in Procs : req[p].pc = "counts" /\ req[p].dec = c}

\* How far a category counter, with the adjustments still under way, is off the
\* number of published articles of the category.
Drift(c) == catCount[c] + Cardinality(PendingInc(c)) - Cardinality(PendingDec(c))
              - Cardinality(PublishedIn(c))

\* The counter of a category is off by at most one for each row write that acted on
\* an outdated snapshot, each adjustment that failed or was cut off, and each that
\* IncrementArticleCount made while the category did not exist (an article may name
\* it before it is created): nothing else makes article_count wrong, and it is exact
\* when no request raced, none failed and the category was there first.
DriftBound(c) == stale + lost + missed[c]
DriftBounded == \A c \in Categories : Drift(c) \in -DriftBound(c) .. DriftBound(c)

\* A published article has a publication time, however updates, publishes and
\* archives that read different versions of the row overwrite each other.
PublishedHasTime ==
    \A a \in Articles : row[a].state = "live" /\ row[a].status = "published"
                          => row[a].pub # 0

\* A handler that read the article before it was deleted cannot bring it back or
\* change the deleted row.
DeletedIsFinal ==
    [][\A a \in Articles : row[a].state = "deleted" => row'[a] = row[a]]_vars
=============================================================================
