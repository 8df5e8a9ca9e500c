----------------------------- MODULE SiteLikes -----------------------------
(***************************************************************************)
(* The site configuration, one row that is read through the cache key       *)
(* site:config and rewritten as a whole by UpdateConfig and UpdatePlaylist, *)
(* and the likes of articles, which its enable_likes field switches on and  *)
(* off.  Every SQL statement or transaction and every cache operation is a  *)
(* step; the publication state of articles is changed by other handlers.    *)
(***************************************************************************)
EXTENDS Naturals, FiniteSets

CONSTANTS
    Articles, Users,
    Procs,       \* concurrent handlers
    Null,        \* no row, no entry, no article
    MaxFaults,   \* bound on lost evictions
    MaxRequests  \* bound on requests

\* title stands for the twelve text fields: 0 is "".
Config == [title: 0..1, likes: {"nil", "on", "off"}, list: 0..1]
Empty == [title |-> 0, likes |-> "nil", list |-> 0]

ASSUME SiteLikesAssumption ==
    /\ MaxFaults \in Nat /\ MaxRequests \in Nat
    /\ IsFiniteSet(Users)
    /\ Null \notin Articles \cup Users \cup Config

VARIABLES
    status,    \* status[a]: published, draft (or archived), deleted
    like,      \* like[a][u]: the row of articles_likes
    count,     \* articles.like_count
    cfg,       \* site_settings
    cached,    \* site:config
    req, faults, started,
    want,      \* history: the last value given for every field
    omitted,   \* history: 1 when the last UpdateConfig saved had no enable_likes
    lost,      \* history: 1 once a configuration was saved over one that had changed
               \* since it was read, or over one read from an entry that is excused
    excuse     \* history: 1 when cached was filled by a load that a save overtook, or
               \* an eviction since then was lost

vars == <<status, like, count, cfg, cached, req, faults, started, want, omitted, lost, excuse>>
site == <<cfg, cached, faults, want, omitted, lost, excuse>>
blog == <<status, like, count>>

\* base: the configuration read, then the one to be saved; late: 1 when what was read
\* has been written since, or came from an excused entry; over: the same for a fill.
Idle == [pc |-> "idle", op |-> "none", a |-> Null, u |-> Null, new |-> Empty,
         base |-> Empty, late |-> 0, over |-> 0]

Request ==
    [pc: {"idle", "get", "select", "fill", "find", "insert", "remove", "save", "evict"},
     op: {"none", "read", "like", "update", "list"},
     a: Articles \cup {Null}, u: Users \cup {Null},
     new: Config, base: Config, late: 0..1, over: 0..1]

TypeOK ==
    /\ status \in [Articles -> {"published", "draft", "deleted"}]
    /\ like \in [Articles -> [Users -> {"none", "live", "dead"}]]
    /\ count \in [Articles -> 0..Cardinality(Users)]
    /\ cfg \in Config \cup {Null} /\ cached \in Config \cup {Null} /\ want \in Config
    /\ req \in [Procs -> Request]
    /\ faults \in 0..MaxFaults /\ started \in 0..MaxRequests
    /\ omitted \in 0..1 /\ lost \in 0..1 /\ excuse \in 0..1

Init ==
    /\ status \in [Articles -> {"published", "draft"}]
    /\ like = [a \in Articles |-> [u \in Users |-> "none"]]
    /\ count = [a \in Articles |-> 0]
    /\ cfg = Null /\ cached = Null /\ want = Empty
    /\ req = [p \in Procs |-> Idle]
    /\ faults = 0 /\ started = 0 /\ omitted = 0 /\ lost = 0 /\ excuse = 0

Start(p) == req[p].pc = "idle" /\ started < MaxRequests /\ started' = started + 1
At(p, pc) == req[p].pc = pc /\ UNCHANGED started
Goto(p, q) == req' = [req EXCEPT ![p] = q]
Only(p, q) == Goto(p, q) /\ UNCHANGED <<site, blog>>
Excused == excuse = 1 \/ \E p \in Procs : req[p].pc = "evict"
-----------------------------------------------------------------------------
(* The requests, with what the client sent: likes "nil" is a request without *)
(* enable_likes; "" and an absent title are the same.                        *)

GetConfig(p) == Start(p) /\ Only(p, [Idle EXCEPT !.pc = "get", !.op = "read"])
UpdateConfig(p, title, likes) ==
    /\ Start(p)
    /\ Only(p, [Idle EXCEPT !.pc = "get", !.op = "update",
                            !.new = [title |-> title, likes |-> likes, list |-> 0]])
UpdatePlaylist(p, l) ==
    /\ Start(p)
    /\ Only(p, [Idle EXCEPT !.pc = "get", !.op = "list", !.new.list = l])
LikeArticle(p, a, u) ==
    Start(p) /\ Only(p, [Idle EXCEPT !.pc = "get", !.op = "like", !.a = a, !.u = u])
UnlikeArticle(p, a, u) ==
    Start(p) /\ status[a] # "deleted" /\ Only(p, [Idle EXCEPT !.pc = "remove", !.a = a, !.u = u])
-----------------------------------------------------------------------------
(* siteRepo.GetConfig, and what the callers do with the configuration c.    *)

MergeConfig(old, new) ==
    [title |-> IF new.title = 0 THEN old.title ELSE new.title,
     likes |-> IF new.likes = "nil" THEN old.likes ELSE new.likes,
     list  |-> IF new.list = 0 THEN old.list ELSE new.list]
\* The field of the message is a plain bool, false when it is absent, and boolPtr takes
\* the address of either.
FromSiteConfig(new) == [new EXCEPT !.likes = IF @ = "nil" THEN "off" ELSE @]
IsLikesEnabled(c) == c.likes # "off"
Onward(q, pc, base) == [q EXCEPT !.pc = pc, !.base = base, !.over = 0]
WithConfig(q, c) ==
    CASE q.op = "read"   -> Idle
      [] q.op = "like"   -> IF IsLikesEnabled(c) THEN Onward(q, "find", Empty) ELSE Idle
      [] q.op = "update" -> Onward(q, "save", MergeConfig(c, FromSiteConfig(q.new)))
      [] q.op = "list"   -> Onward(q, "save", [c EXCEPT !.list = q.new.list])

CacheGet(p) ==
    LET q == req[p] IN
    /\ At(p, "get")
    /\ Only(p, IF cached = Null THEN [q EXCEPT !.pc = "select"]
               ELSE WithConfig([q EXCEPT !.late = IF Excused THEN 1 ELSE 0], cached))

\* No row yet: the empty configuration, which is not cached.
Select(p) ==
    LET q == req[p] IN
    /\ At(p, "select")
    /\ Only(p, IF cfg = Null THEN WithConfig(q, Empty)
               ELSE [q EXCEPT !.pc = "fill", !.base = cfg])

Fill(p) ==
    LET q == req[p] IN
    /\ At(p, "fill")
    /\ cached' = q.base /\ excuse' = q.over
    /\ Goto(p, WithConfig(q, q.base))
    /\ UNCHANGED <<cfg, faults, want, omitted, lost, blog>>

\* siteRepo.SaveConfig: the upsert of the whole row, then the eviction.
Given(q) ==
    IF q.op = "list" THEN [want EXCEPT !.list = q.new.list]
    ELSE MergeConfig(want, q.new)
Omits(q) == IF q.op = "list" THEN omitted ELSE IF q.new.likes = "nil" THEN 1 ELSE 0
Overtaken(q) ==
    IF q.pc \in {"fill", "save", "find", "insert"}
    THEN [q EXCEPT !.late = 1, !.over = IF q.pc = "fill" THEN 1 ELSE 0] ELSE q
Save(p) ==
    LET q == req[p] IN
    /\ At(p, "save")
    /\ cfg' = q.base
    /\ want' = Given(q) /\ omitted' = Omits(q)
    /\ lost' = IF q.late = 1 THEN 1 ELSE lost
    /\ req' = [x \in Procs |-> IF x = p THEN [Idle EXCEPT !.pc = "evict"] ELSE Overtaken(req[x])]
    /\ UNCHANGED <<cached, faults, excuse, blog>>

EvictNot(p) == At(p, "evict") /\ Only(p, Idle)
Evict(p) ==
    /\ At(p, "evict")
    /\ cached' = Null /\ excuse' = 0
    /\ Goto(p, Idle)
    /\ UNCHANGED <<cfg, faults, want, omitted, lost, blog>>
\* The result of Delete is not looked at.
EvictLost(p) ==
    /\ At(p, "evict") /\ faults < MaxFaults /\ faults' = faults + 1
    /\ excuse' = 1
    /\ Goto(p, Idle)
    /\ UNCHANGED <<cfg, cached, want, omitted, lost, blog>>
Expire ==
    /\ cached # Null /\ cached' = Null /\ excuse' = 0
    /\ UNCHANGED <<cfg, req, faults, started, want, omitted, lost, blog>>

\* A query or a write fails and with it the request: LikeArticle is then refused.
Fails(p) == req[p].pc \in {"select", "find", "insert", "remove", "save"} /\ Only(p, Idle) /\ UNCHANGED started
-----------------------------------------------------------------------------
(* Likes.  The rows are soft-deleted, and the unique index covers deleted   *)
(* rows as well: a second INSERT of the same pair does nothing.             *)

FindAny(p) ==
    LET q == req[p] IN
    /\ At(p, "find")
    /\ Only(p, IF status[q.a] # "deleted" THEN [q EXCEPT !.pc = "insert"] ELSE Idle)
FindPublished(p) ==
    LET q == req[p] IN
    /\ At(p, "find")
    /\ Only(p, IF status[q.a] = "published" THEN [q EXCEPT !.pc = "insert"] ELSE Idle)

\* The UPDATE of like_count finds no row when the article has been deleted.
Counted(a, n) == IF status[a] = "deleted" THEN count[a] ELSE n
InsertedUnseen(r) == TRUE
Inserted(r) == r = "none"
InsertLike(p) ==
    LET q == req[p] IN
    /\ At(p, "insert") /\ Goto(p, Idle)
    /\ IF Inserted(like[q.a][q.u])
       THEN /\ like' = [like EXCEPT ![q.a][q.u] = "live"]
            /\ count' = [count EXCEPT ![q.a] = Counted(q.a, @ + 1)]
       ELSE UNCHANGED <<like, count>>
    /\ UNCHANGED <<status, site>>

Deletes(r) == r = "live"
DeleteLike(p) ==
    LET q == req[p] IN
    /\ At(p, "remove") /\ Goto(p, Idle)
    /\ IF Deletes(like[q.a][q.u])
       THEN /\ like' = [like EXCEPT ![q.a][q.u] = "dead"]
            /\ count' = [count EXCEPT ![q.a] = Counted(q.a, IF @ > 0 THEN @ - 1 ELSE 0)]
       ELSE UNCHANGED <<like, count>>
    /\ UNCHANGED <<status, site>>

\* Other handlers publish, archive and delete articles.
Unsettled(q, a) == IF q.pc = "insert" /\ q.a = a THEN [q EXCEPT !.late = 1] ELSE q
SetStatus(a, s) ==
    /\ status[a] \notin {"deleted", s}
    /\ status' = [status EXCEPT ![a] = s]
    /\ req' = [x \in Procs |-> Unsettled(req[x], a)]
    /\ started < MaxRequests /\ started' = started + 1
    /\ UNCHANGED <<like, count, site>>

Next ==
    \/ Expire
    \/ \E a \in Articles, s \in {"published", "draft", "deleted"} : SetStatus(a, s)
    \/ \E p \in Procs :
          \/ GetConfig(p) \/ CacheGet(p) \/ Select(p) \/ Fill(p) \/ Save(p)
          \/ Evict(p) \/ EvictLost(p) \/ Fails(p)
          \/ FindPublished(p) \/ InsertLike(p) \/ DeleteLike(p)
          \/ \E l \in 0..1 : UpdatePlaylist(p, l)
          \/ \E t \in 0..1, e \in {"nil", "on", "off"} : UpdateConfig(p, t, e)
          \/ \E a \in Articles, u \in Users : LikeArticle(p, a, u) \/ UnlikeArticle(p, a, u)

Spec == Init /\ [][Next]_vars
-----------------------------------------------------------------------------
(* Properties.                                                             *)

Deleted == {a \in Articles : status[a] = "deleted"}
Liking == [a \in Articles |-> {u \in Users : a \notin Deleted /\ like[a][u] = "live"}]
Shown == [a \in Articles |-> IF a \in Deleted THEN 0 ELSE count[a]]
Likes == INSTANCE LikeSet WITH likes <- Liking, count <- Shown, gone <- Deleted

\* LikeArticle and UnlikeArticle, whatever is changed while they run, move the rows of
\* articles_likes and like_count together, as LikeSet says: a user who likes an article
\* counts once in its like_count, and one who does not, or has taken it back, not at all.
CountsLikes == Likes!Spec

\* "UNIQUE(article_id, user_id) WHERE deleted_at IS NULL" (docs/design.md:529): a like that
\* was taken back does not stand in the way of a new one, so that the INSERT of LikeArticle
\* leaves the user among those who like the article.  The index of ArticleLikePO covers
\* the deleted row as well, and the INSERT ... ON CONFLICT DO NOTHING does nothing.
LikeAgain ==
    [][\A p \in Procs : InsertLike(p) => like'[req[p].a][req[p].u] = "live"]_vars

\* The configuration in force: there is none as long as there is no row.
InForce == IF cfg = Null THEN Empty ELSE cfg

\* The saved configuration has the last value that was given for every field, unless a
\* save went over a change it had not seen: UpdateConfig and UpdatePlaylist rewrite the
\* whole row from a copy they read before, possibly in the cache.  An UpdateConfig that
\* does not give enable_likes turns it off, until one gives it again.
FieldsKept ==
    /\ TypeOK
    /\ lost = 0 => /\ InForce.title = want.title /\ InForce.list = want.list
                   /\ InForce.likes = IF omitted = 1 THEN "off" ELSE want.likes

\* UpdateConfig overwrites the fields that were given and keeps the others
\* (biz/site.go:130; service/site.go:112 takes a pointer to tell an absent enable_likes):
\* enable_likes is what was last given for it, unless a save went over an unseen change.
SwitchKept == lost = 0 => InForce.likes = want.likes

\* A like is recorded only for a published article and while enable_likes is not off,
\* unless one of the two changed after LikeArticle had looked or it was told by a
\* cache entry that had an excuse to be stale.
LikedThroughGate ==
    [][\A p \in Procs : LET q == req[p] IN
         InsertLike(p) /\ like' # like
            => q.late = 1 \/ (status[q.a] = "published" /\ (cfg = Null \/ cfg.likes # "off"))]_vars
=============================================================================
