------------------------- MODULE CategoryTreeProofs -------------------------
(***************************************************************************)
(* Proofs about CategoryTree, for any number of categories and concurrent  *)
(* handlers and for any depth at which checkCircularRef gives up.           *)
(*                                                                         *)
(* A category is hidden from ListTree exactly when the chain of parents     *)
(* above it never reaches a root.  The argument is about what a walk has    *)
(* established when its move is written: Leads(c, a, b) says that the chain *)
(* from a comes to b before it meets c.  A walk that no move has cut across *)
(* keeps Leads(c, up, cur), which ends as Leads(c, up, Root): hanging c     *)
(* below up closes no cycle.  Creations and deletions during the walk do    *)
(* not disturb it, because no live category names a parent that was never   *)
(* created.                                                                *)
(***************************************************************************)
EXTENDS CategoryTree, TLAPS

\* S holds with every member but c the category that the member hangs under.
Closed(S, c) == \A x \in S \ {c} : HangsUnder(x) \in S

\* The chain of parents from a meets b before it meets c, or ends before either.
\* With b = Root: it ends, and c is not on it.
Leads(c, a, b) == \A S \in SUBSET Live : a \in S /\ Closed(S, c) => b \in S

Used(c) == c = Root \/ row[c].state # "absent"

\* Every live category hangs under something that exists or existed.
Anchored == \A x \in Live : Used(row[x].parent)
NoKnots == \A x \in Live : Leads(Root, x, Root)

\* What a request under way may rely on.
Aims(q) ==
    /\ q.pc \in {"walk", "write", "children", "count", "delete"} => q.c \in Cats /\ Used(q.c)
    /\ q.pc = "insert" => Used(q.up)
    /\ q.pc = "walk" => q.up \in Cats /\ q.cur \in Cats
Walks(q) ==
    raced = 0 /\ q.late = 0 =>
        /\ q.pc = "walk" => (q.cur = q.up \/ Used(q.up)) /\ Leads(q.c, q.up, q.cur)
        /\ q.pc = "write" => Used(q.up) /\ Leads(q.c, q.up, Root)
Empties(q) ==
    q.late = 0 =>
        /\ q.pc \in {"count", "delete"} => Children(q.c) = {}
        /\ q.pc = "delete" => row[q.c].count <= 0
Sound(q) == Aims(q) /\ Walks(q) /\ Empties(q)

Tree == raced = 0 => Anchored /\ NoKnots

IInv == TreeTypeOK /\ TreeStaleExcused /\ Tree /\ \A p \in Procs : Sound(req[p])
-----------------------------------------------------------------------------
(* Requests as records.                                                    *)

LEMMA ToIs ==
    ASSUME NEW q \in Request, NEW pc \in {"insert", "write", "count", "delete", "fill"}
    PROVE  /\ To(q, pc) \in Request /\ To(q, pc).pc = pc /\ To(q, pc).c = q.c
           /\ To(q, pc).up = q.up /\ To(q, pc).cur = q.cur /\ To(q, pc).late = q.late
BY DEF To, Request

LEMMA LateIs ==
    ASSUME NEW q \in Request
    PROVE  /\ Late(q) \in Request /\ Late(q).pc = q.pc /\ Late(q).c = q.c
           /\ Late(q).up = q.up /\ Late(q).cur = q.cur /\ Late(q).late = 1
BY DEF Late, Request

LEMMA RequestsAt ==
    ASSUME TreeAssumption
    PROVE  /\ Idle \in Request /\ Idle.pc = "idle" /\ Idle.late = 0
           /\ Evicting \in Request /\ Evicting.pc = "evict" /\ Evicting.late = 0
BY DEF TreeAssumption, Idle, Evicting, At, Request

\* What does not walk, write, insert or delete relies on nothing.
LEMMA IdleSound ==
    ASSUME NEW q \in Request, q.pc \in {"idle", "evict", "fill", "parent"}
    PROVE  Sound(q) /\ Sound(q)'
BY DEF Sound, Aims, Walks, Empties
-----------------------------------------------------------------------------
(* Chains of parents.                                                      *)

LEMMA RootIsNotLive ==
    Root \notin Live /\ Live \subseteq Cats
BY TreeAssumption DEF TreeAssumption, Live

\* One round of checkCircularRef.
LEMMA WalkGoesOn ==
    ASSUME NEW c, NEW a, NEW b, b # c, Leads(c, a, b)
    PROVE  Leads(c, a, Above(b))
<1> SUFFICES ASSUME NEW S \in SUBSET Live, a \in S, Closed(S, c)
             PROVE  Above(b) \in S
    BY DEF Leads
<1>1. b \in S
    BY DEF Leads
<1>2. HangsUnder(b) \in S
    BY <1>1 DEF Closed
<1>3. b \in Live /\ HangsUnder(b) # Root
    BY <1>1, <1>2, RootIsNotLive
<1> QED
    BY <1>2, <1>3 DEF HangsUnder, Above

\* A step that moves nothing, and creates at most n, cuts across no chain.
LEMMA ChainsKept ==
    ASSUME NEW c, NEW a, NEW b, NEW n, Leads(c, a, b), a # n, c # n,
           \A x \in Live' \ {n} : x \in Live /\ row'[x].parent = row[x].parent,
           \A x \in Live : row[x].parent # n
    PROVE  Leads(c, a, b)'
<1> SUFFICES ASSUME NEW S \in SUBSET Live', a \in S, Closed(S, c)'
             PROVE  b \in S
    BY DEF Leads
<1> DEFINE T == S \ {n}
<1>1. T \in SUBSET Live /\ a \in T
    OBVIOUS
<1>2. ASSUME NEW x \in T \ {c}
      PROVE  HangsUnder(x) \in T
    <2>1. HangsUnder(x)' \in S
        BY DEF Closed
    <2>2. HangsUnder(x)' # Root
        BY <2>1, TreeAssumption DEF TreeAssumption, Live
    <2>3. row'[x].parent \in S /\ row'[x].parent = row[x].parent /\ x \in Live
        BY <2>1, <2>2 DEF HangsUnder
    <2>4. row[x].parent \in T
        BY <2>3
    <2> QED
        BY <2>4, <1>1 DEF HangsUnder
<1>3. Closed(T, c)
    BY <1>2 DEF Closed
<1> QED
    BY <1>1, <1>3 DEF Leads

\* A move of c below up, whose chain ends without meeting c, closes no cycle.
LEMMA MoveKeepsTree ==
    ASSUME NEW c \in Live, NEW up, NoKnots, Leads(c, up, Root),
           Live' = Live, row'[c].parent = up,
           \A x \in Live \ {c} : row'[x].parent = row[x].parent
    PROVE  NoKnots'
<1> SUFFICES ASSUME NEW d \in Live', NEW S \in SUBSET Live', d \in S, Closed(S, Root)'
             PROVE  FALSE
    BY DEF NoKnots, Leads
<1>1. ASSUME NEW x \in S
      PROVE  row'[x].parent \in S /\ row'[x].parent \in Live /\ x \in Live
    <2>1. HangsUnder(x)' \in S
        BY RootIsNotLive DEF Closed
    <2>2. HangsUnder(x)' # Root
        BY <2>1, RootIsNotLive
    <2> QED
        BY <2>1, <2>2 DEF HangsUnder
<1>2. \A x \in S \ {c} : HangsUnder(x) \in S
    BY <1>1 DEF HangsUnder
<1>3. CASE c \in S
    <2>1. up \in S
        BY <1>1, <1>3
    <2>2. Closed(S, c)
        BY <1>2 DEF Closed
    <2> QED
        BY <2>1, <2>2, RootIsNotLive DEF Leads
<1>4. CASE c \notin S
    <2>1. Closed(S, Root)
        BY <1>2, <1>4 DEF Closed
    <2> QED
        BY <2>1, RootIsNotLive DEF NoKnots, Leads
<1> QED
    BY <1>3, <1>4

\* A category that leads to a root is not hidden.
LEMMA KnotsHide ==
    ASSUME NoKnots
    PROVE  \A c \in Live : ~Hidden(c)
<1> SUFFICES ASSUME NEW c \in Live, NEW S \in SUBSET Live, c \in S,
                    \A x \in S : HangsUnder(x) \in S
             PROVE  FALSE
    BY DEF Hidden
<1>1. Closed(S, Root)
    BY DEF Closed
<1> QED
    BY <1>1, RootIsNotLive DEF NoKnots, Leads
-----------------------------------------------------------------------------
(* Steps of one handler that write no row.                                 *)

LEMMA SoundAfter ==
    ASSUME \A x \in Procs : \E v : v = req'[x] /\ Sound(v)'
    PROVE  \A x \in Procs : Sound(req[x])'
BY DEF Sound, Aims, Walks, Empties, Leads, Used, Children

LEMMA SoundStays ==
    ASSUME NEW q, Sound(q), row' = row, raced' = raced
    PROVE  Sound(q)'
BY DEF Sound, Aims, Walks, Empties, Leads, Closed, HangsUnder, Used, Children, Live

LEMMA TreeStays ==
    ASSUME Tree, row' = row, raced' = raced
    PROVE  Tree'
BY DEF Tree, Anchored, NoKnots, Leads, Closed, HangsUnder, Used, Live

LEMMA OneMoves ==
    ASSUME IInv, NEW p \in Procs, NEW r \in Request, Sound(r), Goto(p, r),
           row' = row, raced' = raced
    PROVE  /\ req' \in [Procs -> Request] /\ Tree' /\ \A x \in Procs : Sound(req[x])'
           /\ \A x \in Procs \ {p} : req'[x] = req[x]
<1>1. req' = [req EXCEPT ![p] = r] /\ req \in [Procs -> Request]
    BY DEF Goto, IInv, TreeTypeOK
<1>2. ASSUME NEW x \in Procs PROVE \E v : v = req'[x] /\ Sound(v)'
    <2>1. CASE x = p
        BY <1>1, <2>1, SoundStays
    <2>2. CASE x # p
        <3>1. req'[x] = req[x] /\ Sound(req[x])
            BY <1>1, <2>2 DEF IInv
        <3>2. PICK v : v = req[x]
            OBVIOUS
        <3>3. Sound(v)
            BY <3>1, <3>2
        <3> QED
            BY <3>1, <3>2, <3>3, SoundStays
    <2> QED
        BY <2>1, <2>2
<1>3. \A x \in Procs : Sound(req[x])'
    BY <1>2, SoundAfter
<1>4. Tree'
    BY TreeStays DEF IInv
<1> QED
    BY <1>1, <1>3, <1>4

\* A handler that looks at the table, or leaves it.
LEMMA LookKeeps ==
    ASSUME IInv, NEW p \in Procs, NEW r \in Request, Sound(r), Look(p, r),
           req[p].pc # "evict", started' \in 0..MaxRequests
    PROVE  IInv'
<1>1. Goto(p, r) /\ UNCHANGED <<row, tree, faults, raced, excuse>>
    BY DEF Look
<1>2. /\ req' \in [Procs -> Request] /\ Tree' /\ \A x \in Procs : Sound(req[x])'
      /\ \A x \in Procs \ {p} : req'[x] = req[x]
    BY <1>1, OneMoves
<1>3. TreeTypeOK'
    BY <1>1, <1>2 DEF IInv, TreeTypeOK
<1>4. TreeStaleExcused'
    BY <1>1, <1>2 DEF IInv, TreeStaleExcused
<1> QED
    BY <1>2, <1>3, <1>4 DEF IInv

LEMMA Counted ==
    ASSUME IInv, NEW p \in Procs
    PROVE  /\ Start(p) => started' \in 0..MaxRequests /\ req[p].pc = "idle"
           /\ UNCHANGED started => started' \in 0..MaxRequests
           /\ req[p] \in Request /\ Sound(req[p])
BY TreeAssumption DEF TreeAssumption, IInv, TreeTypeOK, Start

LEMMA StartsKeep ==
    ASSUME IInv, NEW p \in Procs,
           \/ ListTree(p)
           \/ \E up \in Cats \cup {Root} : CreateCategory(p, up)
           \/ \E c \in Cats : DeleteCategory(p, c)
           \/ \E c \in Cats, up \in Cats \cup {Root} : UpdateCategory(p, c, up)
    PROVE  IInv'
<1>1. started' \in 0..MaxRequests /\ req[p].pc # "evict"
    BY Counted DEF CreateCategory, UpdateCategory, DeleteCategory, ListTree
<1>2. ASSUME NEW up \in Cats \cup {Root}, CreateCategory(p, up)
      PROVE  IInv'
    <2> DEFINE r == At(IF up = Root THEN "insert" ELSE "parent", Root, up, Root, 0, 0)
    <2>1. r \in Request /\ Sound(r) /\ Look(p, r)
        BY <1>2, TreeAssumption
        DEF TreeAssumption, CreateCategory, At, Request, Sound, Aims, Walks, Empties, Used
    <2> HIDE DEF r
    <2> QED
        BY <1>1, <2>1, LookKeeps
<1>3. ASSUME NEW c \in Cats, NEW up \in Cats \cup {Root}, UpdateCategory(p, c, up)
      PROVE  IInv'
    <2> DEFINE r == At(IF up = Root THEN "write" ELSE "walk", c, up, up, 0, 0)
    <2>1. r \in Request /\ Look(p, r)
        BY <1>3, TreeAssumption DEF TreeAssumption, UpdateCategory, At, Request
    <2>2. Used(c) /\ Leads(c, up, up) /\ (up = Root => Used(up))
        BY <1>3 DEF UpdateCategory, Live, Used, Leads
    <2>3. Sound(r)
        BY <2>2 DEF At, Sound, Aims, Walks, Empties
    <2> HIDE DEF r
    <2> QED
        BY <1>1, <2>1, <2>3, LookKeeps
<1>4. ASSUME NEW c \in Cats, DeleteCategory(p, c)
      PROVE  IInv'
    <2> DEFINE r == At("children", c, Root, Root, 0, 0)
    <2>1. r \in Request /\ Sound(r) /\ Look(p, r)
        BY <1>4, TreeAssumption
        DEF TreeAssumption, DeleteCategory, Live, At, Request, Sound, Aims, Walks, Empties, Used
    <2> HIDE DEF r
    <2> QED
        BY <1>1, <2>1, LookKeeps
<1>5. CASE ListTree(p)
    <2> DEFINE r == To(Idle, "fill")
    <2>1. r \in Request /\ r.pc = "fill" /\ Look(p, r)
        BY <1>5, RequestsAt, ToIs, TreeAssumption DEF ListTree
    <2> HIDE DEF r
    <2>2. Sound(r)
        BY <2>1, IdleSound
    <2> QED
        BY <1>1, <2>1, <2>2, LookKeeps
<1> QED
    BY <1>2, <1>3, <1>4, <1>5

\* checkCircularRef: what a round has seen extends what the walk knows.
LEMMA WalkedSound ==
    ASSUME TreeTypeOK, NEW q \in Request, Sound(q), q.pc = "walk"
    PROVE  Walked(q) \in Request /\ Sound(Walked(q))
<1>1. q.c \in Cats /\ Used(q.c) /\ q.up \in Cats /\ q.cur \in Cats
    BY DEF Sound, Aims
<1>2. CASE MeetsSelf(q) \/ GivesUp(q)
    BY <1>2, RequestsAt, IdleSound, TreeAssumption DEF Walked
<1>3. CASE ~MeetsSelf(q) /\ ~GivesUp(q) /\ Above(q.cur) = Root
    <2>1. Walked(q) = Safe(q)
        BY <1>3 DEF Walked
    <2>2. CASE row[q.cur].state = "absent"
        <3> DEFINE r == To(Late(q), "write")
        <3>1. r \in Request /\ r.pc = "write" /\ r.c = q.c /\ r.late = 1
            BY LateIs, ToIs
        <3>2. Safe(q) = r
            BY <2>2 DEF Safe
        <3> HIDE DEF r
        <3>3. Sound(r)
            BY <1>1, <3>1 DEF Sound, Aims, Walks, Empties
        <3> QED
            BY <2>1, <3>1, <3>2, <3>3
    <2>3. CASE row[q.cur].state # "absent"
        <3> DEFINE r == To(q, "write")
        <3>1. r \in Request /\ r.pc = "write" /\ r.c = q.c /\ r.late = q.late /\ r.up = q.up
            BY ToIs
        <3>2. Safe(q) = r
            BY <2>3 DEF Safe
        <3> HIDE DEF r
        <3>3. ASSUME raced = 0, q.late = 0
              PROVE  Used(q.up) /\ Leads(q.c, q.up, Root)
            <4>1. (q.cur = q.up \/ Used(q.up)) /\ Leads(q.c, q.up, q.cur)
                BY <3>3 DEF Sound, Walks
            <4>2. Leads(q.c, q.up, Root)
                BY <1>3, <4>1, WalkGoesOn DEF MeetsSelf
            <4> QED
                BY <2>3, <4>1, <4>2 DEF Used
        <3>4. Sound(r)
            BY <1>1, <3>1, <3>3 DEF Sound, Aims, Walks, Empties
        <3> QED
            BY <2>1, <3>1, <3>2, <3>4
    <2> QED
        BY <2>2, <2>3
<1>4. CASE ~MeetsSelf(q) /\ ~GivesUp(q) /\ Above(q.cur) # Root
    <2> DEFINE r == At("walk", q.c, q.up, Above(q.cur), q.depth + 1, q.late)
    <2>1. Walked(q) = r
        BY <1>4 DEF Walked
    <2>2. q.cur \in Live /\ Above(q.cur) \in Cats
        BY <1>1, <1>4 DEF Above, TreeTypeOK, Row
    <2>3. q.depth \in 0..MaxDepth /\ q.depth + 1 \in 0..MaxDepth /\ q.late \in 0..1
        BY <1>4, TreeAssumption DEF TreeAssumption, Request, GivesUp
    <2>4. r \in Request
        BY <1>1, <2>2, <2>3 DEF At, Request
    <2>5. ASSUME raced = 0, q.late = 0
          PROVE  Used(q.up) /\ Leads(q.c, q.up, Above(q.cur))
        <3>1. (q.cur = q.up \/ Used(q.up)) /\ Leads(q.c, q.up, q.cur)
            BY <2>5 DEF Sound, Walks
        <3> QED
            BY <1>4, <2>2, <3>1, WalkGoesOn DEF MeetsSelf, Used, Live
    <2>6. Sound(r)
        BY <1>1, <2>2, <2>5 DEF At, Sound, Aims, Walks, Empties
    <2> QED
        BY <2>1, <2>4, <2>6
<1> QED
    BY <1>2, <1>3, <1>4

LEMMA LooksKeep ==
    ASSUME IInv, NEW p \in Procs,
           \/ FindParent(p) \/ CheckCircularRef(p) \/ CheckChildren(p) \/ CheckArticles(p)
           \/ Refused(p)
    PROVE  IInv'
<1> DEFINE q == req[p]
<1>1. started' \in 0..MaxRequests /\ q.pc # "evict" /\ q \in Request /\ Sound(q) /\ TreeTypeOK
    BY Counted
    DEF FindParent, CheckCircularRef, CheckChildren, CheckArticles, Refused, Continue, IInv
<1>2. Idle \in Request /\ Sound(Idle)
    BY RequestsAt, IdleSound, TreeAssumption
<1>3. CASE FindParent(p)
    <2>1. CASE q.up \in Live
        <3> DEFINE r == To(q, "insert")
        <3>1. r \in Request /\ r.pc = "insert" /\ r.up = q.up
            BY <1>1, ToIs
        <3>2. Look(p, r)
            BY <1>3, <2>1 DEF FindParent
        <3> HIDE DEF r
        <3>3. Sound(r)
            BY <2>1, <3>1 DEF Sound, Aims, Walks, Empties, Used, Live
        <3> QED
            BY <1>1, <3>1, <3>2, <3>3, LookKeeps
    <2>2. CASE q.up \notin Live
        BY <1>1, <1>2, <1>3, <2>2, LookKeeps DEF FindParent
    <2> QED
        BY <2>1, <2>2
<1>4. CASE CheckCircularRef(p)
    <2> DEFINE r == Walked(q)
    <2>1. r \in Request /\ Sound(r)
        BY <1>1, <1>4, WalkedSound DEF CheckCircularRef, Continue
    <2>2. Look(p, r)
        BY <1>4 DEF CheckCircularRef
    <2> HIDE DEF r
    <2> QED
        BY <1>1, <2>1, <2>2, LookKeeps
<1>5. CASE CheckChildren(p)
    <2>1. CASE Children(q.c) = {}
        <3> DEFINE r == To(q, "count")
        <3>1. r \in Request /\ r.pc = "count" /\ r.c = q.c
            BY <1>1, ToIs
        <3>2. Look(p, r) /\ q.pc = "children"
            BY <1>5, <2>1 DEF CheckChildren, Continue
        <3> HIDE DEF r
        <3>3. Sound(r)
            BY <1>1, <2>1, <3>1, <3>2 DEF Sound, Aims, Walks, Empties
        <3> QED
            BY <1>1, <3>1, <3>2, <3>3, LookKeeps
    <2>2. CASE Children(q.c) # {}
        BY <1>1, <1>2, <1>5, <2>2, LookKeeps DEF CheckChildren
    <2> QED
        BY <2>1, <2>2
<1>6. CASE CheckArticles(p)
    <2>0. q.c \in Live => row[q.c].count \in Int
        BY DEF Live, IInv, TreeTypeOK, Row
    <2>1. CASE q.c \in Live /\ ~HasArticles(q.c)
        <3> DEFINE r == To(q, "delete")
        <3>1. r \in Request /\ r.pc = "delete" /\ r.c = q.c /\ r.late = q.late
            BY <1>1, ToIs
        <3>2. Look(p, r) /\ q.pc = "count"
            BY <1>6, <2>1 DEF CheckArticles, Continue
        <3> HIDE DEF r
        <3>3. Sound(r)
            BY <1>1, <2>0, <2>1, <3>1, <3>2 DEF HasArticles, Sound, Aims, Walks, Empties
        <3> QED
            BY <1>1, <3>1, <3>2, <3>3, LookKeeps
    <2>2. CASE ~(q.c \in Live /\ ~HasArticles(q.c))
        BY <1>1, <1>2, <1>6, <2>2, LookKeeps DEF CheckArticles
    <2> QED
        BY <2>1, <2>2
<1>7. CASE Refused(p)
    BY <1>1, <1>2, <1>7, LookKeeps DEF Refused
<1> QED
    BY <1>3, <1>4, <1>5, <1>6, <1>7
-----------------------------------------------------------------------------
(* Steps on the cache, and the walk that ends in a failing query.          *)

LEMMA WalkFailsKeeps ==
    ASSUME IInv, NEW p \in Procs, WalkFails(p)
    PROVE  IInv'
<1> DEFINE q == req[p]
           r == To(Late(q), "write")
<1>1. started' \in 0..MaxRequests /\ q.pc = "walk" /\ q \in Request /\ Sound(q)
    BY Counted DEF WalkFails, Continue
<1>2. r \in Request /\ r.pc = "write" /\ r.c = q.c /\ r.late = 1
    BY <1>1, LateIs, ToIs
<1>3. Goto(p, r) /\ UNCHANGED <<row, tree, raced, excuse>> /\ faults' \in 0..MaxFaults
    BY TreeAssumption DEF TreeAssumption, WalkFails, Fault, IInv, TreeTypeOK
<1> HIDE DEF r
<1>4. Sound(r)
    BY <1>1, <1>2 DEF Sound, Aims, Walks, Empties
<1>5. /\ req' \in [Procs -> Request] /\ Tree' /\ \A x \in Procs : Sound(req[x])'
      /\ \A x \in Procs \ {p} : req'[x] = req[x]
    BY <1>2, <1>3, <1>4, OneMoves
<1>6. TreeTypeOK'
    BY <1>1, <1>3, <1>5 DEF IInv, TreeTypeOK
<1>7. TreeStaleExcused'
    BY <1>1, <1>3, <1>5 DEF IInv, TreeStaleExcused
<1> QED
    BY <1>5, <1>6, <1>7 DEF IInv

LEMMA CacheKeeps ==
    ASSUME IInv, NEW p \in Procs, Fill(p) \/ Evict(p) \/ EvictLost(p)
    PROVE  IInv'
<1>1. /\ Goto(p, Idle) /\ UNCHANGED <<row, raced, started>>
      /\ faults' \in 0..MaxFaults /\ excuse' \in 0..1
      /\ tree' \in {"none", "fresh", "stale"}
    BY TreeAssumption
    DEF TreeAssumption, Fill, Evict, EvictLost, Continue, Fault, IInv, TreeTypeOK, Request
<1>2. Idle \in Request /\ Sound(Idle)
    BY RequestsAt, IdleSound, TreeAssumption
<1>3. /\ req' \in [Procs -> Request] /\ Tree' /\ \A x \in Procs : Sound(req[x])'
      /\ \A x \in Procs \ {p} : req'[x] = req[x]
    BY <1>1, <1>2, OneMoves
<1>4. TreeTypeOK'
    BY <1>1, <1>3 DEF IInv, TreeTypeOK
<1>5. TreeStaleExcused'
    BY <1>3 DEF IInv, TreeTypeOK, Request, TreeStaleExcused, Fill, Evict, EvictLost, Continue
<1> QED
    BY <1>3, <1>4, <1>5 DEF IInv

LEMMA ExpireKeeps ==
    ASSUME IInv, Expire
    PROVE  IInv'
<1>1. UNCHANGED <<row, req, faults, started, raced>> /\ tree' = "none" /\ excuse' = 0
    BY DEF Expire
<1>2. ASSUME NEW x \in Procs PROVE \E v : v = req'[x] /\ Sound(v)'
    <2>1. PICK v : v = req[x]
        OBVIOUS
    <2>2. Sound(v)
        BY <2>1 DEF IInv
    <2> QED
        BY <1>1, <2>1, <2>2, SoundStays
<1>3. \A x \in Procs : Sound(req[x])'
    BY <1>2, SoundAfter
<1>4. Tree'
    BY <1>1, TreeStays DEF IInv
<1>5. TreeTypeOK' /\ TreeStaleExcused'
    BY <1>1 DEF IInv, TreeTypeOK, TreeStaleExcused
<1> QED
    BY <1>3, <1>4, <1>5 DEF IInv
-----------------------------------------------------------------------------
(* Writes.                                                                 *)

\* A step after which fewer categories hang where they did cuts across no chain.
LEMMA ChainsShrink ==
    ASSUME NEW c, NEW a, NEW b, Leads(c, a, b),
           \A x \in Live' : x \in Live /\ row'[x].parent = row[x].parent
    PROVE  Leads(c, a, b)'
<1> SUFFICES ASSUME NEW S \in SUBSET Live', a \in S, Closed(S, c)'
             PROVE  b \in S
    BY DEF Leads
<1>1. ASSUME NEW x \in S \ {c}
      PROVE  HangsUnder(x) \in S
    <2>1. HangsUnder(x)' \in S
        BY DEF Closed
    <2>2. HangsUnder(x)' # Root
        BY <2>1, TreeAssumption DEF TreeAssumption, Live
    <2> QED
        BY <2>1, <2>2 DEF HangsUnder
<1>2. Closed(S, c) /\ S \in SUBSET Live
    BY <1>1 DEF Closed
<1> QED
    BY <1>2 DEF Leads

\* What every write has in common: it ends in an eviction and marks whom it overtakes.
LEMMA WriteKeeps ==
    ASSUME IInv, NEW p \in Procs, NEW up, NEW move, Overtake(p, up, move),
           \A c \in Cats : row[c].state # "absent" => row'[c].state # "absent",
           \A q \in Request : Sound(q) /\ ~Overtaken(q, up, move) => Walks(q)' /\ Empties(q)',
           row' \in [Cats -> Row], Tree', raced' \in 0..1, tree' = Outdated,
           started' \in 0..MaxRequests, UNCHANGED <<faults, excuse>>
    PROVE  IInv'
<1>1. /\ req' = [x \in Procs |-> IF x = p THEN Evicting
                                 ELSE IF Overtaken(req[x], up, move) THEN Late(req[x])
                                 ELSE req[x]]
    BY DEF Overtake
<1>2. req \in [Procs -> Request] /\ Evicting \in Request /\ Evicting.pc = "evict"
    BY RequestsAt, TreeAssumption DEF IInv, TreeTypeOK
<1>3. ASSUME NEW q \in Request, Aims(q)
      PROVE  Aims(q)'
    BY <1>3 DEF Aims, Used, Request
<1>4. ASSUME NEW x \in Procs PROVE \E v : v = req'[x] /\ v \in Request /\ Sound(v)'
    <2>1. PICK q \in Request : q = req[x] /\ Sound(q)
        BY <1>2 DEF IInv
    <2>2. CASE x = p
        BY <1>1, <1>2, <2>2, IdleSound
    <2>3. CASE x # p /\ ~Overtaken(q, up, move)
        <3>1. Sound(q)'
            BY <1>3, <2>1, <2>3 DEF Sound
        <3> QED
            BY <1>1, <2>1, <2>3, <3>1
    <2>4. CASE x # p /\ Overtaken(q, up, move)
        <3>1. PICK v \in Request : v = Late(q)
            BY LateIs
        <3>2. v.pc = q.pc /\ v.c = q.c /\ v.up = q.up /\ v.cur = q.cur /\ v.late = 1
            BY <3>1, LateIs
        <3>3. Aims(v)'
            BY <1>3, <2>1, <3>2 DEF Sound, Aims
        <3>4. Sound(v)'
            BY <3>2, <3>3 DEF Sound, Walks, Empties
        <3> QED
            BY <1>1, <2>1, <2>4, <3>1, <3>4
    <2> QED
        BY <2>2, <2>3, <2>4
<1>5. \A x \in Procs : Sound(req[x])'
    BY <1>4, SoundAfter
<1>6. req' \in [Procs -> Request]
    BY <1>1, <1>4
<1>7. TreeTypeOK'
    BY <1>6 DEF IInv, TreeTypeOK, Outdated
<1>8. TreeStaleExcused'
    BY <1>1, <1>2 DEF TreeStaleExcused
<1> QED
    BY <1>5, <1>7, <1>8 DEF IInv

LEMMA CreateKeeps ==
    ASSUME IInv, NEW p \in Procs, NEW n \in Cats, Create(p, n)
    PROVE  IInv'
<1>1. PICK up \in Cats \cup {Root} : up = req[p].up /\ Used(up)
    <2>1. req[p] \in Request /\ Aims(req[p]) /\ req[p].pc = "insert"
        BY DEF IInv, TreeTypeOK, Sound, Create, Continue
    <2> QED
        BY <2>1 DEF Request, Aims
<1>2. /\ row' = [row EXCEPT ![n] = [state |-> "live", parent |-> up, count |-> 0]]
      /\ row[n].state = "absent" /\ Overtake(p, up, FALSE) /\ tree' = Outdated
      /\ UNCHANGED <<faults, raced, excuse, started>> /\ row \in [Cats -> Row]
    BY <1>1 DEF Create, Continue, IInv, TreeTypeOK
<1>3. /\ row'[n].state = "live" /\ row'[n].parent = up
      /\ \A x \in Cats \ {n} : row'[x] = row[x]
    BY <1>2
<1>4. row' \in [Cats -> Row]
    BY <1>2, TreeAssumption DEF TreeAssumption, Row
<1>5. /\ n \notin Live /\ n # Root /\ up # n /\ Live' = Live \cup {n}
      /\ \A x \in Live' \ {n} : x \in Live /\ row'[x].parent = row[x].parent
    BY <1>1, <1>2, <1>3, TreeAssumption DEF TreeAssumption, Live, Used
<1>6. \A c \in Cats : row[c].state # "absent" => row'[c].state # "absent"
    BY <1>2, <1>3
<1>7. ASSUME raced = 0 PROVE Anchored /\ NoKnots /\ \A x \in Live : row[x].parent # n
    <2>1. Anchored /\ NoKnots
        BY <1>7 DEF IInv, Tree
    <2> QED
        BY <1>2, <1>5, <2>1 DEF Anchored, Used
<1>8. ASSUME NEW q \in Request, Sound(q), ~Overtaken(q, up, FALSE)
      PROVE  Walks(q)' /\ Empties(q)'
    <2>1. q.c \in Cats \cup {Root} /\ q.up \in Cats \cup {Root}
        BY DEF Request
    <2>2. ASSUME q.late = 0, raced = 0, q.pc \in {"walk", "write"}
          PROVE  q.c \in Cats /\ q.c # n
        BY <1>2, <1>5, <1>8, <2>2 DEF Sound, Aims, Used
    <2>3. ASSUME q.late = 0, raced = 0, q.pc = "walk"
          PROVE  (q.cur = q.up \/ Used(q.up)') /\ Leads(q.c, q.up, q.cur)'
        <3>1. (q.cur = q.up \/ Used(q.up)) /\ Leads(q.c, q.up, q.cur)
            BY <1>8, <2>3 DEF Sound, Walks
        <3>2. CASE q.cur = q.up
            BY <3>2 DEF Leads
        <3>3. CASE Used(q.up)
            <4>1. q.up # n /\ Used(q.up)'
                BY <1>2, <1>5, <1>6, <2>1, <3>3 DEF Used
            <4> QED
                BY <1>5, <1>7, <2>2, <2>3, <3>1, <4>1, ChainsKept
        <3> QED
            BY <3>1, <3>2, <3>3
    <2>4. ASSUME q.late = 0, raced = 0, q.pc = "write"
          PROVE  Used(q.up)' /\ Leads(q.c, q.up, Root)'
        <3>1. Used(q.up) /\ Leads(q.c, q.up, Root)
            BY <1>8, <2>4 DEF Sound, Walks
        <3>2. q.up # n /\ Used(q.up)'
            BY <1>2, <1>5, <1>6, <2>1, <3>1 DEF Used
        <3> QED
            BY <1>5, <1>7, <2>2, <2>4, <3>1, <3>2, ChainsKept
    <2>5. Walks(q)'
        BY <1>2, <2>3, <2>4 DEF Walks
    <2>6. ASSUME q.late = 0, q.pc \in {"count", "delete"}
          PROVE  Children(q.c)' = {} /\ row'[q.c] = row[q.c]
        <3>1. q.c \in Cats /\ q.c # n /\ q.c # up /\ Children(q.c) = {}
            BY <1>2, <1>5, <1>8, <2>6 DEF Sound, Aims, Empties, Used, Overtaken
        <3> QED
            BY <1>3, <1>5, <3>1 DEF Children
    <2>7. Empties(q)'
        BY <1>8, <2>6 DEF Sound, Empties
    <2> QED
        BY <2>5, <2>7
<1>9. ASSUME raced = 0 PROVE Anchored' /\ NoKnots'
    <2>1. Anchored'
        <3>1. \A x \in Live : row[x].parent \in Cats \cup {Root}
            BY <1>2 DEF Live, Row
        <3>2. \A y \in Cats \cup {Root} : Used(y) => Used(y)'
            BY <1>6 DEF Used
        <3> QED
            BY <1>1, <1>3, <1>5, <1>7, <1>9, <3>1, <3>2 DEF Anchored, Used
    <2>2. ASSUME NEW x \in Live PROVE Leads(Root, x, Root)'
        <3>1. Leads(Root, x, Root) /\ x # n
            BY <1>5, <1>7, <1>9 DEF NoKnots
        <3> QED
            BY <1>5, <1>7, <1>9, <3>1, ChainsKept
    <2>3. Leads(Root, n, Root)'
        <3> SUFFICES ASSUME NEW S \in SUBSET Live', n \in S, Closed(S, Root)'
                     PROVE  Root \in S
            BY DEF Leads
        <3>1. HangsUnder(n)' \in S
            BY <1>5 DEF Closed
        <3>2. CASE HangsUnder(n)' = Root
            BY <3>1, <3>2
        <3>3. CASE HangsUnder(n)' # Root
            <4>1. up \in S /\ up \in Live
                BY <1>3, <1>5, <3>1, <3>3 DEF HangsUnder
            <4>2. Leads(Root, up, Root)'
                BY <2>2, <4>1
            <4> QED
                BY <4>1, <4>2 DEF Leads
        <3> QED
            BY <3>2, <3>3
    <2> QED
        BY <1>5, <2>1, <2>2, <2>3 DEF NoKnots
<1>10. Tree' /\ raced' \in 0..1 /\ started' \in 0..MaxRequests
    BY <1>2, <1>9 DEF Tree, IInv, TreeTypeOK
<1> QED
    BY <1>2, <1>4, <1>6, <1>8, <1>10, WriteKeeps

\* The two outcomes of Update and Delete: no row is found, or the row is written.
LEMMA NotFoundKeeps ==
    ASSUME IInv, NEW p \in Procs, Goto(p, Idle), req[p].pc # "evict",
           UNCHANGED <<row, tree, raced, faults, excuse, started>>
    PROVE  IInv'
<1>1. Idle \in Request /\ Sound(Idle)
    BY RequestsAt, IdleSound, TreeAssumption
<1>2. started' \in 0..MaxRequests /\ Look(p, Idle)
    BY Counted DEF Look
<1> QED
    BY <1>1, <1>2, LookKeeps

LEMMA UpdateKeeps ==
    ASSUME IInv, NEW p \in Procs, Update(p)
    PROVE  IInv'
<1>1. PICK q \in Request : q = req[p] /\ Sound(q) /\ q.pc = "write"
    BY DEF IInv, TreeTypeOK, Update, Continue
<1>2. CASE q.c \notin Live
    BY <1>1, <1>2, NotFoundKeeps DEF Update, Continue
<1>3. CASE q.c \in Live
    <2>1. PICK c \in Cats, up \in Cats \cup {Root} : c = q.c /\ up = q.up
        BY <1>3, RootIsNotLive DEF Request
    <2>2. /\ row' = [row EXCEPT ![c].parent = up] /\ tree' = Outdated
          /\ raced' = IF up # Root /\ q.late = 1 THEN 1 ELSE raced
          /\ Overtake(p, up, TRUE)
          /\ UNCHANGED <<faults, excuse, started>> /\ row \in [Cats -> Row]
        BY <1>1, <1>3, <2>1 DEF Update, Continue, IInv, TreeTypeOK
    <2>3. /\ row' \in [Cats -> Row]
          /\ row'[c].parent = up /\ row'[c].state = row[c].state /\ row'[c].count = row[c].count
          /\ \A x \in Cats \ {c} : row'[x] = row[x]
        BY <2>2 DEF Row
    <2>4. Live' = Live /\ Live \subseteq Cats
        BY <2>3 DEF Live
    <2>5. ASSUME NEW r \in Request, Sound(r), ~Overtaken(r, up, TRUE)
          PROVE  Walks(r)' /\ Empties(r)'
        <3>1. Walks(r)'
            BY <2>5 DEF Walks, Overtaken
        <3>2. ASSUME r.late = 0, r.pc \in {"count", "delete"}
              PROVE  Children(r.c)' = {} /\ row'[r.c].count = row[r.c].count
            <4>1. r.c \in Cats /\ r.c # up /\ Children(r.c) = {}
                BY <2>5, <3>2 DEF Sound, Aims, Empties, Overtaken
            <4> QED
                BY <2>3, <2>4, <4>1 DEF Children
        <3>3. Empties(r)'
            BY <2>5, <3>2 DEF Sound, Empties
        <3> QED
            BY <3>1, <3>3
    <2>6. ASSUME raced' = 0 PROVE Anchored' /\ NoKnots'
        <3>1. raced = 0 /\ (up = Root \/ q.late # 1)
            BY <2>2, <2>6
        <3>2. Used(up) /\ Leads(c, up, Root)
            <4>1. CASE up = Root
                BY <4>1 DEF Used, Leads
            <4>2. CASE up # Root
                <5>1. q.late = 0
                    BY <3>1, <4>2 DEF Request
                <5> QED
                    BY <1>1, <2>1, <3>1, <5>1 DEF Sound, Walks
            <4> QED
                BY <4>1, <4>2
        <3>3. Anchored /\ NoKnots
            BY <3>1 DEF IInv, Tree
        <3>4. NoKnots'
            BY <1>3, <2>1, <2>3, <2>4, <3>2, <3>3, MoveKeepsTree
        <3>5. \A y \in Cats \cup {Root} : Used(y) => Used(y)'
            BY <2>3 DEF Used
        <3>6. \A x \in Live : row[x].parent \in Cats \cup {Root}
            BY <2>2 DEF Live, Row
        <3>7. Anchored'
            BY <2>3, <2>4, <3>2, <3>3, <3>5, <3>6 DEF Anchored
        <3> QED
            BY <3>4, <3>7
    <2>7. Tree' /\ raced' \in 0..1 /\ started' \in 0..MaxRequests
        BY <2>2, <2>6 DEF Tree, IInv, TreeTypeOK
    <2>8. \A x \in Cats : row[x].state # "absent" => row'[x].state # "absent"
        BY <2>3
    <2> QED
        BY <2>2, <2>3, <2>5, <2>7, <2>8, WriteKeeps
<1> QED
    BY <1>2, <1>3

\* A write that moves and creates nothing: what hangs somewhere hung there before.
LEMMA NothingMoves ==
    ASSUME IInv, row' \in [Cats -> Row], raced' = raced,
           \A x \in Cats : /\ row[x].state # "absent" => row'[x].state # "absent"
                           /\ row'[x].parent = row[x].parent,
           Live' \subseteq Live
    PROVE  Tree' /\ \A q \in Request : Walks(q) => Walks(q)'
<1>1. \A x \in Live' : x \in Live /\ row'[x].parent = row[x].parent
    BY DEF Live
<1>2. \A y \in Cats \cup {Root} : Used(y) => Used(y)'
    BY DEF Used
<1>3. \A x \in Live : row[x].parent \in Cats \cup {Root}
    BY DEF IInv, TreeTypeOK, Live, Row
<1>4. ASSUME raced = 0 PROVE Anchored' /\ NoKnots'
    <2>1. Anchored /\ NoKnots
        BY <1>4 DEF IInv, Tree
    <2>2. Anchored'
        BY <1>1, <1>2, <1>3, <2>1 DEF Anchored
    <2>3. ASSUME NEW x \in Live' PROVE Leads(Root, x, Root)'
        <3>1. Leads(Root, x, Root)
            BY <1>1, <2>1 DEF NoKnots
        <3> QED
            BY <1>1, <3>1, ChainsShrink
    <2> QED
        BY <2>2, <2>3 DEF NoKnots
<1>5. ASSUME NEW q \in Request, Walks(q) PROVE Walks(q)'
    <2>1. q.up \in Cats \cup {Root}
        BY DEF Request
    <2>2. ASSUME NEW b, Leads(q.c, q.up, b) PROVE Leads(q.c, q.up, b)'
        BY <1>1, <2>2, ChainsShrink
    <2> QED
        BY <1>2, <1>5, <2>1, <2>2 DEF Walks
<1> QED
    BY <1>4, <1>5 DEF Tree

LEMMA DeleteKeeps ==
    ASSUME IInv, NEW p \in Procs, Delete(p)
    PROVE  IInv'
<1>1. PICK q \in Request : q = req[p] /\ q.pc = "delete"
    BY DEF IInv, TreeTypeOK, Delete, Continue
<1>2. CASE q.c \notin Live
    BY <1>1, <1>2, NotFoundKeeps DEF Delete, Continue
<1>3. CASE q.c \in Live
    <2>1. PICK c \in Cats : c = q.c
        BY <1>3, RootIsNotLive
    <2>2. /\ row' = [row EXCEPT ![c].state = "deleted"] /\ tree' = Outdated
          /\ Overtake(p, Root, FALSE)
          /\ UNCHANGED <<faults, raced, excuse, started>> /\ row \in [Cats -> Row]
        BY <1>1, <1>3, <2>1 DEF Delete, Continue, IInv, TreeTypeOK
    <2>3. /\ row' \in [Cats -> Row]
          /\ row'[c].parent = row[c].parent /\ row'[c].state = "deleted"
          /\ row'[c].count = row[c].count
          /\ \A x \in Cats \ {c} : row'[x] = row[x]
        BY <2>2 DEF Row
    <2>4. Live' \subseteq Live
        BY <2>3 DEF Live
    <2>5. Tree' /\ \A r \in Request : Walks(r) => Walks(r)'
        BY <2>2, <2>3, <2>4, NothingMoves
    <2>6. ASSUME NEW r \in Request, Sound(r) PROVE Empties(r)'
        <3>1. ASSUME r.late = 0, r.pc \in {"count", "delete"}
              PROVE  Children(r.c)' = {} /\ row'[r.c].count = row[r.c].count
            <4>1. r.c \in Cats /\ Children(r.c) = {}
                BY <2>6, <3>1 DEF Sound, Aims, Empties
            <4> QED
                BY <2>3, <2>4, <4>1 DEF Children, Live
        <3> QED
            BY <2>6, <3>1 DEF Sound, Empties
    <2>7. raced' \in 0..1 /\ started' \in 0..MaxRequests
        BY <2>2 DEF IInv, TreeTypeOK
    <2>8. \A x \in Cats : row[x].state # "absent" => row'[x].state # "absent"
        BY <2>3
    <2> QED
        BY <2>2, <2>3, <2>5, <2>6, <2>7, <2>8, WriteKeeps DEF Sound
<1> QED
    BY <1>2, <1>3

LEMMA CountKeeps ==
    ASSUME IInv, NEW p \in Procs, NEW c \in Cats, NEW delta \in {-1, 1},
           IncrementArticleCount(p, c, delta)
    PROVE  IInv'
<1> DEFINE n == row[c].count + delta
           up == IF delta > 0 THEN c ELSE Root
<1>1. /\ row' = [row EXCEPT ![c].count = n] /\ tree' = Outdated /\ n \in -MaxCount..MaxCount
      /\ Overtake(p, up, FALSE)
      /\ UNCHANGED <<faults, raced, excuse>> /\ row \in [Cats -> Row]
    BY DEF IncrementArticleCount, IInv, TreeTypeOK
<1>2. /\ row' \in [Cats -> Row]
      /\ row'[c].parent = row[c].parent /\ row'[c].state = row[c].state /\ row'[c].count = n
      /\ \A x \in Cats \ {c} : row'[x] = row[x]
    BY <1>1 DEF Row
<1>3. Live' = Live
    BY <1>2 DEF Live
<1>4. Tree' /\ \A r \in Request : Walks(r) => Walks(r)'
    BY <1>1, <1>2, <1>3, NothingMoves
<1>5. row[c].count <= 0 => up = c \/ n <= 0
    BY <1>1, TreeAssumption DEF TreeAssumption, Row
<1>6. PICK u : u = up
    OBVIOUS
<1> HIDE DEF up, n
<1>7. ASSUME NEW r \in Request, Sound(r), ~Overtaken(r, u, FALSE) PROVE Empties(r)'
    <2>1. ASSUME r.late = 0, r.pc \in {"count", "delete"}
          PROVE  /\ Children(r.c)' = {}
                 /\ row[r.c].count <= 0 => row'[r.c].count <= 0
        <3>1. r.c \in Cats /\ Children(r.c) = {} /\ r.c # up
            BY <1>6, <1>7, <2>1 DEF Sound, Aims, Empties, Overtaken
        <3>2. Children(r.c)' = {}
            BY <1>2, <1>3, <3>1 DEF Children, Live
        <3> QED
            BY <1>2, <1>5, <3>1, <3>2
    <2> QED
        BY <1>7, <2>1 DEF Sound, Empties
<1>8. raced' \in 0..1 /\ started' \in 0..MaxRequests
    BY <1>1, Counted DEF IncrementArticleCount, IInv, TreeTypeOK
<1>9. \A x \in Cats : row[x].state # "absent" => row'[x].state # "absent"
    BY <1>2
<1>10. Overtake(p, u, FALSE)
    BY <1>1, <1>6
<1> QED
    BY <1>1, <1>2, <1>4, <1>7, <1>8, <1>9, <1>10, WriteKeeps DEF Sound
-----------------------------------------------------------------------------
(* The theorems.                                                           *)

LEMMA InductiveInit == TreeInit => IInv
<1> SUFFICES ASSUME TreeInit PROVE IInv
    OBVIOUS
<1>1. /\ row \in [Cats -> [state: {"absent", "live"}, parent: {Root}, count: {0}]]
      /\ req = [p \in Procs |-> Idle] /\ tree = "none"
      /\ faults = 0 /\ started = 0 /\ raced = 0 /\ excuse = 0
    BY DEF TreeInit
<1>2. Idle \in Request /\ Sound(Idle)
    BY RequestsAt, IdleSound, TreeAssumption
<1>3. \A x \in Cats : row[x].parent = Root /\ row[x] \in Row
    BY <1>1, TreeAssumption DEF TreeAssumption, Row
<1>4. TreeTypeOK
    BY <1>1, <1>2, <1>3, TreeAssumption DEF TreeAssumption, TreeTypeOK
<1>5. \A x \in Live : HangsUnder(x) = Root
    BY <1>3, RootIsNotLive DEF HangsUnder
<1>6. Tree
    BY <1>3, <1>5, RootIsNotLive DEF Tree, Anchored, Used, NoKnots, Leads, Closed
<1>7. TreeStaleExcused
    BY <1>1 DEF TreeStaleExcused
<1> QED
    BY <1>1, <1>2, <1>4, <1>6, <1>7 DEF IInv

LEMMA InductiveStep == IInv /\ [TreeNext]_treeVars => IInv'
<1> SUFFICES ASSUME IInv, [TreeNext]_treeVars PROVE IInv'
    OBVIOUS
<1>1. CASE Expire
    BY <1>1, ExpireKeeps
<1>2. ASSUME NEW p \in Procs, NEW c \in Cats, Create(p, c)
      PROVE  IInv'
    BY <1>2, CreateKeeps
<1>3. ASSUME NEW p \in Procs, NEW c \in Cats, NEW delta \in {-1, 1},
             IncrementArticleCount(p, c, delta)
      PROVE  IInv'
    BY <1>3, CountKeeps
<1>4. ASSUME NEW p \in Procs, Update(p) \/ Delete(p)
      PROVE  IInv'
    BY <1>4, UpdateKeeps, DeleteKeeps
<1>5. ASSUME NEW p \in Procs,
             \/ FindParent(p) \/ CheckCircularRef(p) \/ CheckChildren(p) \/ CheckArticles(p)
             \/ Refused(p)
      PROVE  IInv'
    BY <1>5, LooksKeep
<1>6. ASSUME NEW p \in Procs, WalkFails(p) \/ Fill(p) \/ Evict(p) \/ EvictLost(p)
      PROVE  IInv'
    BY <1>6, WalkFailsKeeps, CacheKeeps
<1>7. ASSUME NEW p \in Procs,
             \/ ListTree(p)
             \/ \E up \in Cats \cup {Root} : CreateCategory(p, up)
             \/ \E c \in Cats : DeleteCategory(p, c)
             \/ \E c \in Cats, up \in Cats \cup {Root} : UpdateCategory(p, c, up)
      PROVE  IInv'
    BY <1>7, StartsKeep
<1>8. CASE UNCHANGED treeVars
    <2>1. UNCHANGED <<row, req, tree, faults, started, raced, excuse>>
        BY <1>8 DEF treeVars
    <2>2. ASSUME NEW x \in Procs PROVE \E v : v = req'[x] /\ Sound(v)'
        <3>1. PICK v : v = req[x]
            OBVIOUS
        <3>2. Sound(v)
            BY <3>1 DEF IInv
        <3> QED
            BY <2>1, <3>1, <3>2, SoundStays
    <2>3. \A x \in Procs : Sound(req[x])'
        BY <2>2, SoundAfter
    <2>4. Tree' /\ TreeTypeOK' /\ TreeStaleExcused'
        BY <2>1, TreeStays DEF IInv, TreeTypeOK, TreeStaleExcused
    <2> QED
        BY <2>3, <2>4 DEF IInv
<1>9. CASE TreeNext
    BY <1>1, <1>2, <1>3, <1>4, <1>5, <1>6, <1>7, <1>9 DEF TreeNext
<1> QED
    BY <1>8, <1>9

\* The inductive invariant: types, what the requests know, and a tree without knots as
\* long as no move was decided on a walk that was cut across.
THEOREM Inductive == TreeSpec => []IInv
    BY InductiveInit, InductiveStep, PTL DEF TreeSpec

\* ListTree shows every category, whatever is created, moved and deleted meanwhile,
\* unless a move was written after a walk that another cut across, or that took a
\* failing query or an unused id for the end of the chain.
THEOREM CategoriesShown == TreeSpec => []EveryCategoryShown
<1>1. IInv => EveryCategoryShown
    BY KnotsHide DEF IInv, Tree, EveryCategoryShown
<1> QED
    BY <1>1, Inductive, PTL

\* category:tree is stale only while an eviction is pending, after one was lost, or
\* after a load that a write overtook.
THEOREM TreeExcused == TreeSpec => []TreeStaleExcused
<1>1. IInv => TreeStaleExcused
    BY DEF IInv
<1> QED
    BY <1>1, Inductive, PTL

\* DeleteCategory overrules only creations, moves and increments of article_count that
\* came after its checks, wherever the counter has drifted.
THEOREM EmptyOnDelete == TreeSpec => DeletesOnlyEmpty
<1>1. IInv /\ [TreeNext]_treeVars
      => [\A p \in Procs : Delete(p) /\ req[p].c \in Live
            => req[p].late = 1 \/ (Children(req[p].c) = {} /\ ~HasArticles(req[p].c))]_treeVars
    <2> SUFFICES ASSUME IInv, NEW p \in Procs, Delete(p), req[p].c \in Live, req[p].late # 1
                 PROVE  Children(req[p].c) = {} /\ ~HasArticles(req[p].c)
        OBVIOUS
    <2>1. req[p].late = 0 /\ Empties(req[p]) /\ req[p].pc = "delete"
        BY DEF IInv, TreeTypeOK, Request, Sound, Delete, Continue
    <2>2. row[req[p].c].count \in Int
        BY DEF Live, IInv, TreeTypeOK, Row
    <2> QED
        BY <2>1, <2>2 DEF Empties, HasArticles
<1> QED
    BY <1>1, Inductive, PTL DEF TreeSpec, DeletesOnlyEmpty
=============================================================================
