---------------------------- MODULE CategoryTree ----------------------------
(***************************************************************************)
(* The tree of categories: rows that name their parent, the handlers that  *)
(* create, move and delete them, each a sequence of SQL statements with no  *)
(* transaction around it, and ListTree, which serves the whole tree from    *)
(* the cache key category:tree.  A refusal by the unique index on slug      *)
(* changes nothing and is one of the ways a write may fail.                 *)
(***************************************************************************)
EXTENDS Integers, FiniteSets

CONSTANTS
    Cats,       \* category ids
    Root,       \* the NULL of parent_id
    Procs,      \* concurrent handlers
    MaxDepth,   \* steps of checkCircularRef before it gives up (100)
    MaxCount,   \* bound on article_count, either way
    MaxFaults,  \* bound on failing queries and lost evictions
    MaxRequests \* bound on the requests that are made

ASSUME TreeAssumption ==
    /\ Root \notin Cats
    /\ MaxDepth \in Nat \ {0} /\ MaxCount \in Nat /\ MaxFaults \in Nat
    /\ MaxRequests \in Nat

VARIABLES
    row,     \* table categories
    req,     \* handlers under way
    tree,    \* category:tree, compared with the table
    faults,  \* failures so far
    started, \* requests so far
    raced,   \* history: 1 once a parent was written after a walk that another move
             \* cut across, or that ended in a failing query or at an unused id
    excuse   \* history: 1 when category:tree was filled by a load that a write
             \* overtook, or an eviction since then was lost

treeVars == <<row, req, tree, faults, started, raced, excuse>>

Row == [state: {"absent", "live", "deleted"}, parent: Cats \cup {Root}, count: -MaxCount..MaxCount]
Live == {c \in Cats : row[c].state = "live"}
Children(c) == {x \in Live : row[x].parent = c}

\* up: the new parent; cur, depth: where a walk has come to; late: 1 when another
\* handler changed, since the request looked, what it looked at.
At(pc, c, up, cur, depth, late) ==
    [pc |-> pc, c |-> c, up |-> up, cur |-> cur, depth |-> depth, late |-> late]
Idle == At("idle", Root, Root, Root, 0, 0)
Request == [pc: {"idle", "parent", "insert", "walk", "write", "children", "count",
                 "delete", "evict", "fill"},
            c: Cats \cup {Root}, up: Cats \cup {Root}, cur: Cats \cup {Root},
            depth: 0..MaxDepth, late: 0..1]
To(q, pc) == [q EXCEPT !.pc = pc]
Late(q) == [q EXCEPT !.late = 1]
Evicting == At("evict", Root, Root, Root, 0, 0)

TreeTypeOK ==
    /\ row \in [Cats -> Row]
    /\ req \in [Procs -> Request]
    /\ tree \in {"none", "fresh", "stale"}
    /\ faults \in 0..MaxFaults /\ started \in 0..MaxRequests
    /\ raced \in 0..1 /\ excuse \in 0..1

\* Some categories have been created already.
TreeInit ==
    /\ row \in [Cats -> [state: {"absent", "live"}, parent: {Root}, count: {0}]]
    /\ req = [p \in Procs |-> Idle]
    /\ tree = "none" /\ faults = 0 /\ started = 0 /\ raced = 0 /\ excuse = 0

Start(p) == req[p].pc = "idle" /\ started < MaxRequests /\ started' = started + 1
Goto(p, r) == req' = [req EXCEPT ![p] = r]
Look(p, r) == Goto(p, r) /\ UNCHANGED <<row, tree, faults, raced, excuse>>
Continue(p, pc) == req[p].pc = pc /\ UNCHANGED started
Fault == faults < MaxFaults /\ faults' = faults + 1

\* A write of p that puts something under up ("move": that is a category with its
\* subtree).  Loads of the tree, walks and deletions of up are overtaken.
Overtaken(q, up, move) ==
    \/ q.pc = "fill"
    \/ move /\ q.pc \in {"walk", "write"}
    \/ q.pc \in {"count", "delete"} /\ q.c = up
Overtake(p, up, move) ==
    req' = [x \in Procs |-> IF x = p THEN Evicting
                            ELSE IF Overtaken(req[x], up, move) THEN Late(req[x])
                            ELSE req[x]]
Outdated == IF tree = "none" THEN "none" ELSE "stale"
-----------------------------------------------------------------------------
(* CreateCategory                                                          *)

CreateCategory(p, up) ==
    /\ Start(p)
    /\ Look(p, At(IF up = Root THEN "insert" ELSE "parent", Root, up, Root, 0, 0))

FindParent(p) ==
    /\ Continue(p, "parent")
    /\ Look(p, IF req[p].up \in Live THEN To(req[p], "insert") ELSE Idle)

\* categoryRepo.Create; the sequence hands out an id that was never used.
Create(p, c) ==
    LET up == req[p].up IN
    /\ Continue(p, "insert") /\ row[c].state = "absent"
    /\ row' = [row EXCEPT ![c] = [state |-> "live", parent |-> up, count |-> 0]]
    /\ tree' = Outdated
    /\ Overtake(p, up, FALSE)
    /\ UNCHANGED <<faults, raced, excuse>>
-----------------------------------------------------------------------------
(* UpdateCategory                                                          *)

\* FindByID, the refusal of the category itself as parent, and the start of
\* checkCircularRef, which is skipped for a root.  Nobody looks whether up exists.
UpdateCategory(p, c, up) ==
    /\ Start(p) /\ c \in Live /\ up # c
    /\ Look(p, At(IF up = Root THEN "write" ELSE "walk", c, up, up, 0, 0))

\* One round of checkCircularRef: a category that is not found ends the chain.
MeetsSelfAtStart(q) == q.cur = q.c /\ q.depth = 0
MeetsSelf(q) == q.cur = q.c
GivesUp(q) == q.depth = MaxDepth
Above(c) == IF c \in Live THEN row[c].parent ELSE Root
Safe(q) == To(IF row[q.cur].state = "absent" THEN Late(q) ELSE q, "write")
WalkedUncounted(q) ==
    IF MeetsSelf(q) THEN Idle
    ELSE IF Above(q.cur) = Root THEN Safe(q)
    ELSE [q EXCEPT !.cur = Above(q.cur)]
Walked(q) ==
    IF MeetsSelf(q) \/ GivesUp(q) THEN Idle
    ELSE IF Above(q.cur) = Root THEN Safe(q)
    ELSE At("walk", q.c, q.up, Above(q.cur), q.depth + 1, q.late)
CheckCircularRef(p) == Continue(p, "walk") /\ Look(p, Walked(req[p]))

\* Any error of the query reads as the end of the chain.
WalkFails(p) ==
    /\ Continue(p, "walk") /\ ~MeetsSelf(req[p]) /\ ~GivesUp(req[p])
    /\ Fault
    /\ Goto(p, To(Late(req[p]), "write"))
    /\ UNCHANGED <<row, tree, raced, excuse>>

\* categoryRepo.Update: no row found is a 404.
Update(p) ==
    LET q == req[p] IN
    /\ Continue(p, "write")
    /\ IF q.c \in Live
       THEN /\ row' = [row EXCEPT ![q.c].parent = q.up]
            /\ tree' = Outdated
            /\ raced' = IF q.up # Root /\ q.late = 1 THEN 1 ELSE raced
            /\ Overtake(p, q.up, TRUE)
       ELSE Goto(p, Idle) /\ UNCHANGED <<row, tree, raced>>
    /\ UNCHANGED <<faults, excuse>>
-----------------------------------------------------------------------------
(* DeleteCategory                                                          *)

DeleteCategory(p, c) ==
    /\ Start(p) /\ c \in Live
    /\ Look(p, At("children", c, Root, Root, 0, 0))

\* ListChildren, then FindByID for article_count.
CheckChildrenNot(p) ==
    /\ Continue(p, "children")
    /\ Look(p, To(req[p], "count"))
CheckChildren(p) ==
    /\ Continue(p, "children")
    /\ Look(p, IF Children(req[p].c) # {} THEN Idle ELSE To(req[p], "count"))

\* Only a positive counter stops the deletion: drafts and archived articles are not in
\* it, and a counter that has drifted may be negative.
HasArticles(c) == row[c].count > 0
CheckArticles(p) ==
    LET q == req[p] IN
    /\ Continue(p, "count")
    /\ Look(p, IF q.c \in Live /\ ~HasArticles(q.c) THEN To(q, "delete") ELSE Idle)

\* categoryRepo.Delete
Delete(p) ==
    LET q == req[p] IN
    /\ Continue(p, "delete")
    /\ IF q.c \in Live
       THEN /\ row' = [row EXCEPT ![q.c].state = "deleted"]
            /\ tree' = Outdated
            /\ Overtake(p, Root, FALSE)
       ELSE Goto(p, Idle) /\ UNCHANGED <<row, tree>>
    /\ UNCHANGED <<faults, raced, excuse>>

\* A write fails: a slug that is taken, a broken connection, the end of the process.
Refused(p) ==
    /\ req[p].pc \in {"insert", "write", "delete"}
    /\ Look(p, Idle) /\ UNCHANGED started
-----------------------------------------------------------------------------
(* IncrementArticleCount, called by the handlers of articles, and the cache *)

\* No clamp: an article that left twice, or one that was never counted in, takes the
\* counter below zero.
IncrementArticleCount(p, c, delta) ==
    LET n == row[c].count + delta IN
    /\ Start(p) /\ c \in Live /\ n \in -MaxCount..MaxCount
    /\ row' = [row EXCEPT ![c].count = n]
    /\ tree' = Outdated
    /\ Overtake(p, IF delta > 0 THEN c ELSE Root, FALSE)
    /\ UNCHANGED <<faults, raced, excuse>>

\* Where ListTree hangs a category; one whose parent is not in the table is a root.
HangsUnderOnlyLive(c) == IF row[c].parent \in Live \cup {Root} THEN row[c].parent ELSE c
HangsUnder(c) == IF row[c].parent \in Live THEN row[c].parent ELSE Root

\* ListTree on a miss: the SELECT, then the write of category:tree.
ListTree(p) ==
    /\ Start(p) /\ tree = "none"
    /\ Look(p, To(Idle, "fill"))

Fill(p) ==
    /\ Continue(p, "fill")
    /\ tree' = IF req[p].late = 1 THEN "stale" ELSE "fresh"
    /\ excuse' = req[p].late
    /\ Goto(p, Idle)
    /\ UNCHANGED <<row, faults, raced>>

EvictNot(p) ==
    /\ Continue(p, "evict")
    /\ Goto(p, Idle)
    /\ UNCHANGED <<row, tree, faults, raced, excuse>>
Evict(p) ==
    /\ Continue(p, "evict")
    /\ tree' = "none" /\ excuse' = 0
    /\ Goto(p, Idle)
    /\ UNCHANGED <<row, faults, raced>>

\* The result of Delete is not looked at.
EvictLost(p) ==
    /\ Continue(p, "evict")
    /\ Fault
    /\ excuse' = 1
    /\ Goto(p, Idle)
    /\ UNCHANGED <<row, tree, raced>>

Expire ==
    /\ tree # "none"
    /\ tree' = "none" /\ excuse' = 0
    /\ UNCHANGED <<row, req, faults, started, raced>>

TreeNext ==
    \/ Expire
    \/ \E p \in Procs :
          \/ FindParent(p) \/ CheckCircularRef(p) \/ WalkFails(p) \/ Update(p)
          \/ CheckChildren(p) \/ CheckArticles(p) \/ Delete(p) \/ Refused(p)
          \/ ListTree(p) \/ Fill(p) \/ Evict(p) \/ EvictLost(p)
          \/ \E up \in Cats \cup {Root} : CreateCategory(p, up)
          \/ \E c \in Cats :
                \/ Create(p, c) \/ DeleteCategory(p, c)
                \/ \E up \in Cats \cup {Root} : UpdateCategory(p, c, up)
                \/ \E delta \in {-1, 1} : IncrementArticleCount(p, c, delta)

\* A handler that has begun a walk goes on with it.
TreeFairness == \A p \in Procs : WF_treeVars(CheckCircularRef(p))

TreeSpec == TreeInit /\ [][TreeNext]_treeVars /\ TreeFairness
-----------------------------------------------------------------------------
(* Properties.                                                             *)

\* No chain of parents leads from c to a root of the tree that ListTree builds.
Hidden(c) == \E S \in SUBSET Live : c \in S /\ \A x \in S : HangsUnder(x) \in S

\* ListTree shows every category that exists: checkCircularRef, a deletion that
\* leaves children behind and the roots made of orphans add up to a tree, as long as
\* no move was decided on a walk that another move cut across, or that took a failing
\* query or an id that no category has had yet for the end of the chain.
EveryCategoryShown == TreeTypeOK /\ (raced = 0 => \A c \in Live : ~Hidden(c))

\* DeleteCategory removes a category that has children, or whose article_count is
\* positive, only if the child or the increment came after its checks: creations, moves
\* and counted publications that were complete before are never overruled.  It promises
\* nothing about articles that article_count leaves out (drafts, archived ones, and those
\* a drifted counter has lost).
DeletesOnlyEmpty ==
    [][\A p \in Procs : Delete(p) /\ req[p].c \in Live
          => req[p].late = 1 \/ (Children(req[p].c) = {} /\ ~HasArticles(req[p].c))]_treeVars

\* category:tree differs from the table only while a writer has yet to evict it, or
\* after a load that a write overtook or a lost eviction.
TreeStaleExcused ==
    tree = "stale" => excuse = 1 \/ \E p \in Procs : req[p].pc = "evict"

\* checkCircularRef ends, also when two moves have closed a cycle that it runs into
\* and whatever is moved while it walks.
WalkEnds == \A p \in Procs : req[p].pc = "walk" ~> req[p].pc # "walk"
=============================================================================
