----------------------- MODULE ArticleLifecycleProofs -----------------------
(***************************************************************************)
(* Proofs about the article handlers, for every set of articles,           *)
(* categories, tags and concurrent requests.                               *)
(***************************************************************************)
EXTENDS ArticleLifecycle, FiniteSetTheorems, TLAPS

\* What one request or one row adds to a count.
Bit(b) == IF b THEN 1 ELSE 0

\* Two subsets of a finite set that differ at most in x.
LEMMA CardChange ==
    ASSUME NEW S, IsFiniteSet(S), NEW T \in SUBSET S, NEW U \in SUBSET S, NEW x \in S,
           \A y \in S \ {x} : y \in T <=> y \in U
    PROVE  /\ Cardinality(T) \in Nat /\ Cardinality(U) \in Nat
           /\ Cardinality(U) = Cardinality(T) + Bit(x \in U) - Bit(x \in T)
<1>1. IsFiniteSet(T) /\ IsFiniteSet(U)
  BY FS_Subset
<1>2. Cardinality(T) \in Nat /\ Cardinality(U) \in Nat
  BY <1>1, FS_CardinalityType
<1>3. CASE (x \in T) <=> (x \in U)
  <2>1. T = U
    BY <1>3
  <2>2. QED
    BY <1>2, <2>1 DEF Bit
<1>4. CASE x \in U /\ x \notin T
  <2>1. U = T \cup {x}
    BY <1>4
  <2>2. Cardinality(U) = Cardinality(T) + 1
    BY <1>1, <1>4, <2>1, FS_AddElement
  <2>3. QED
    BY <1>2, <1>4, <2>2 DEF Bit
<1>5. CASE x \in T /\ x \notin U
  <2>1. T = U \cup {x}
    BY <1>5
  <2>2. Cardinality(T) = Cardinality(U) + 1
    BY <1>1, <1>5, <2>1, FS_AddElement
  <2>3. QED
    BY <1>2, <1>5, <2>2 DEF Bit
<1> QED
  BY <1>3, <1>4, <1>5
-----------------------------------------------------------------------------

\* UNCHANGED groups its variables in these tuples.
USE DEF links, cats, counters, history

\* A request that has read its article but not yet written it.
Planned(q) == q.pc \in {"check", "write"}

\* What the plan of a request promises: it is about a live article, its counter
\* adjustments are exactly the difference between the row it read and the row it
\* will write, and a row it will write as published has a publication time.
PlanOK(q) ==
    /\ q.a \in Articles
    /\ q.op \in {"update", "publish", "archive", "delete"}
    /\ q.pc = "check" => q.op = "delete"
    /\ q.seen.state = "live"
    /\ q.next.state = IF q.op = "delete" THEN "deleted" ELSE "live"
    /\ \A c \in Categories : Bit(Counted(q.next, c)) - Bit(Counted(q.seen, c))
                               = Bit(q.inc = c) - Bit(q.dec = c)
    /\ q.next.status = "published" => q.next.pub # 0

Plans == \A p \in Procs : Planned(req[p]) => PlanOK(req[p])

\* Tag links are only written by requests that hold an article.
Targets == \A p \in Procs : req[p].pc \in {"counts", "assoc"} => req[p].a \in Articles

IInv == TypeOK /\ Plans /\ Targets /\ PublishedHasTime /\ DriftBounded
-----------------------------------------------------------------------------
(* Type correctness.                                                       *)

\* The record of an idle handler and the row of a missing article are typed.
LEMMA IdleType == Idle \in Request /\ NoRow \in Row
BY ConstantsAssumption DEF Idle, Request, NoRow, Row, Status, OptCat

\* A planned request is well typed if its parts are.
LEMMA PlanType ==
    ASSUME TypeOK, NEW p \in Procs, NEW a \in Articles, NEW op, NEW pc, NEW next \in Row,
           NEW dec \in OptCat, NEW inc \in OptCat, NEW delta \in {-1, 0, 1},
           NEW sync \in (SUBSET Tags) \cup {Keep},
           op \in {"update", "delete", "publish", "archive"}, pc \in {"write", "check"},
           started' \in 0..MaxRequests,
           Plan(p, op, a, pc, next, dec, inc, delta, sync)
    PROVE  TypeOK'
<1>1. row[a] \in Row /\ PreloadTags(a) \in SUBSET Tags
  BY DEF TypeOK, PreloadTags
<1>2. req' \in [Procs -> Request]
  BY <1>1 DEF Plan, TypeOK, Request
<1>3. QED
  BY <1>2 DEF Plan, TypeOK

\* Every step of Next keeps the variables in their types.
LEMMA TypeStep == TypeOK /\ [Next]_vars => TypeOK'
<1> SUFFICES ASSUME TypeOK, [Next]_vars PROVE TypeOK'
  OBVIOUS
<1> USE ConstantsAssumption, IdleType
<1>1. ASSUME NEW p \in Procs, Step(p) PROVE TypeOK'
  <2>0. req[p] \in Request
    BY DEF TypeOK
  <2>a. /\ [req[p] EXCEPT !.pc = "counts"] \in Request
        /\ [req[p] EXCEPT !.pc = "write"] \in Request
    BY <2>0 DEF Request
  <2>b. /\ [req[p] EXCEPT !.dec = NoCat] \in Request
        /\ [req[p] EXCEPT !.inc = NoCat] \in Request
    BY <2>0 DEF Request, OptCat
  <2>c. /\ [req[p] EXCEPT !.delta = 0] \in Request
        /\ [req[p] EXCEPT !.sync = Keep] \in Request
    BY <2>0 DEF Request
  <2>d. /\ req[p].next \in Row /\ req[p].delta \in Int
        /\ req[p].sync \in (SUBSET Tags) \cup {Keep}
    BY <2>0 DEF Request
  <2>1. CASE DeleteSelect(p)
    BY <2>a, <2>1 DEF DeleteSelect, TypeOK
  <2>2. CASE RepoUpdate(p)
    <3>1. req' \in [Procs -> Request]
      BY <2>a, <2>2 DEF RepoUpdate, TypeOK
    <3>3. row' \in [Articles -> Row] /\ stale' \in Nat
      BY <2>d, <2>2 DEF RepoUpdate, TypeOK
    <3>4. QED
      BY <3>1, <3>3, <2>2 DEF RepoUpdate, TypeOK
  <2>3. CASE RepoDelete(p)
    <3>1. req' \in [Procs -> Request]
      BY <2>a, <2>3 DEF RepoDelete, TypeOK
    <3>2. row' \in [Articles -> Row]
      BY <2>3 DEF RepoDelete, TypeOK, Row
    <3>3. QED
      BY <3>1, <3>2, <2>3 DEF RepoDelete, TypeOK
  <2>4. CASE CountOld(p)
    BY <2>b, <2>4 DEF CountOld, TypeOK, IncrementArticleCount
  <2>5. CASE CountNew(p)
    BY <2>b, <2>5 DEF CountNew, TypeOK, IncrementArticleCount
  <2>6. CASE CountFails(p)
    BY <2>b, <2>6 DEF CountFails, TypeOK
  <2>7. CASE CountTags(p)
    BY <2>c, <2>d, <2>7 DEF CountTags, TypeOK
  <2>13. CASE CountTagsFails(p)
    BY <2>c, <2>13 DEF CountTagsFails, TypeOK
  <2>8. CASE SyncTags(p)
    BY <2>c, <2>d, <2>8 DEF SyncTags, TypeOK
  <2>9. CASE Finish(p)
    BY <2>9 DEF Finish, TypeOK
  <2>10. CASE Abort(p)
    BY <2>10 DEF Abort, TypeOK, Owed
  <2>11. CASE AssociateTags(p)
    BY <2>0, <2>11 DEF AssociateTags, TypeOK, Request, OptCat
  <2>12. CASE CategoryRepoDelete(p)
    BY <2>12 DEF CategoryRepoDelete, TypeOK
  <2> QED
    BY <1>1, <2>1, <2>2, <2>3, <2>4, <2>5, <2>6, <2>7, <2>8, <2>9, <2>10, <2>11, <2>12, <2>13 DEF Step
<1>2. ASSUME NEW p \in Procs, NEW a \in Articles, NEW c \in OptCat, NEW ts \in SUBSET Tags,
             CreateArticle(p, a, c, ts)
      PROVE  TypeOK'
  <2>1. [NoRow EXCEPT !.state = "live", !.cat = c] \in Row
    BY DEF NoRow, Row, Status
  <2>2. [Idle EXCEPT !.pc = "assoc", !.op = "create", !.a = a, !.tags = ts] \in Request
    BY DEF Idle, Request, OptCat
  <2>3. QED
    BY <1>2, <2>1, <2>2 DEF CreateArticle, TypeOK
<1>3. ASSUME NEW p \in Procs, NEW a \in Articles, NEW c \in OptCat \cup {Keep},
             NEW ts \in (SUBSET Tags) \cup {Keep}, UpdateArticle(p, a, c, ts)
      PROVE  TypeOK'
  <2>1. row[a] \in Row /\ started' \in 0..MaxRequests
    BY <1>3 DEF TypeOK, UpdateArticle, Authorize
  <2>2. QED
    BY <1>3, <2>1, PlanType DEF UpdateArticle, AssignCategory, Row, OptCat
<1>4. ASSUME NEW p \in Procs, NEW a \in Articles, PublishArticle(p, a) PROVE TypeOK'
  <2>1. row[a] \in Row /\ started' \in 0..MaxRequests /\ started + 1 \in Nat
    BY <1>4 DEF TypeOK, PublishArticle, Authorize
  <2>2. QED
    BY <1>4, <2>1, PlanType DEF PublishArticle, MarkPublished, Row, OptCat, Status
<1>5. ASSUME NEW p \in Procs, NEW a \in Articles, ArchiveArticle(p, a) PROVE TypeOK'
  <2>1. row[a] \in Row /\ started' \in 0..MaxRequests
    BY <1>5 DEF TypeOK, ArchiveArticle, Authorize
  <2>2. QED
    BY <1>5, <2>1, PlanType DEF ArchiveArticle, Leave, Row, OptCat, Status
<1>6. ASSUME NEW p \in Procs, NEW a \in Articles, DeleteArticle(p, a) PROVE TypeOK'
  <2>1. row[a] \in Row /\ started' \in 0..MaxRequests
    BY <1>6 DEF TypeOK, DeleteArticle, Authorize
  <2>2. QED
    BY <1>6, <2>1, PlanType DEF DeleteArticle, Leave, Row, OptCat
<1>7. ASSUME NEW p \in Procs, NEW c \in Categories, DeleteCategory(p, c) PROVE TypeOK'
  <2>1. [Idle EXCEPT !.pc = "delcat", !.op = "delcat", !.a = c] \in Request
    BY DEF Idle, Request, OptCat
  <2>2. QED
    BY <1>7, <2>1 DEF DeleteCategory, TypeOK
<1>8. ASSUME NEW p \in Procs, NEW c \in Categories, CreateCategory(p, c) PROVE TypeOK'
  BY <1>8 DEF CreateCategory, TypeOK
<1>9. CASE UNCHANGED vars
  BY <1>9 DEF vars, TypeOK
<1> QED
  BY <1>1, <1>2, <1>3, <1>4, <1>5, <1>6, <1>7, <1>8, <1>9 DEF Next

\* The variables always have their types.
THEOREM TypeCorrect == Spec => []TypeOK
<1>1. Init => TypeOK
  BY ConstantsAssumption, IdleType DEF Init, TypeOK
<1> QED
  BY <1>1, TypeStep, PTL DEF Spec
-----------------------------------------------------------------------------
(* How one request, or one row, moves the terms of Drift.                  *)

Owes(q, c) == q.pc = "counts" /\ q.inc = c
Takes(q, c) == q.pc = "counts" /\ q.dec = c

\* A step of request p moves the pending sets by what it does to req[p].
LEMMA PendingChange ==
    ASSUME NEW p \in Procs, NEW c, \A q \in Procs \ {p} : req'[q] = req[q]
    PROVE  /\ Cardinality(PendingInc(c)) \in Nat /\ Cardinality(PendingDec(c)) \in Nat
           /\ Cardinality(PendingInc(c)') = Cardinality(PendingInc(c))
                 + Bit(Owes(req'[p], c)) - Bit(Owes(req[p], c))
           /\ Cardinality(PendingDec(c)') = Cardinality(PendingDec(c))
                 + Bit(Takes(req'[p], c)) - Bit(Takes(req[p], c))
<1> DEFINE I == PendingInc(c)
           J == PendingInc(c)'
           D == PendingDec(c)
           E == PendingDec(c)'
<1>1. I \in SUBSET Procs /\ J \in SUBSET Procs /\ D \in SUBSET Procs /\ E \in SUBSET Procs
  BY DEF PendingInc, PendingDec
<1>2. (p \in I <=> Owes(req[p], c)) /\ (p \in J <=> Owes(req'[p], c))
  BY DEF PendingInc, Owes
<1>3. (p \in D <=> Takes(req[p], c)) /\ (p \in E <=> Takes(req'[p], c))
  BY DEF PendingDec, Takes
<1>4. \A q \in Procs \ {p} : (q \in I <=> q \in J) /\ (q \in D <=> q \in E)
  BY DEF PendingInc, PendingDec
<1> HIDE DEF I, J, D, E
<1>5. /\ Cardinality(I) \in Nat
      /\ Cardinality(J) = Cardinality(I) + Bit(p \in J) - Bit(p \in I)
  BY <1>1, <1>4, CardChange, ConstantsAssumption
<1>6. /\ Cardinality(D) \in Nat
      /\ Cardinality(E) = Cardinality(D) + Bit(p \in E) - Bit(p \in D)
  BY <1>1, <1>4, CardChange, ConstantsAssumption
<1>7. Bit(p \in I) = Bit(Owes(req[p], c)) /\ Bit(p \in J) = Bit(Owes(req'[p], c))
  BY <1>2 DEF Bit
<1>8. Bit(p \in D) = Bit(Takes(req[p], c)) /\ Bit(p \in E) = Bit(Takes(req'[p], c))
  BY <1>3 DEF Bit
<1> QED
  BY <1>5, <1>6, <1>7, <1>8 DEF I, J, D, E

\* A step that writes the row of article a moves PublishedIn by that row.
LEMMA PublishedChange ==
    ASSUME NEW a \in Articles, NEW c, \A b \in Articles \ {a} : row'[b] = row[b]
    PROVE  /\ Cardinality(PublishedIn(c)) \in Nat
           /\ Cardinality(PublishedIn(c)') = Cardinality(PublishedIn(c))
                 + Bit(Counted(row'[a], c)) - Bit(Counted(row[a], c))
<1> DEFINE T == PublishedIn(c)
           U == PublishedIn(c)'
<1>1. T \in SUBSET Articles /\ U \in SUBSET Articles
  BY DEF PublishedIn
<1>2. (a \in T <=> Counted(row[a], c)) /\ (a \in U <=> Counted(row'[a], c))
  BY DEF PublishedIn, Counted
<1>3. \A b \in Articles \ {a} : b \in T <=> b \in U
  BY DEF PublishedIn, Counted
<1> HIDE DEF T, U
<1>4. /\ Cardinality(T) \in Nat
      /\ Cardinality(U) = Cardinality(T) + Bit(a \in U) - Bit(a \in T)
  BY <1>1, <1>3, CardChange, ConstantsAssumption
<1>5. Bit(a \in T) = Bit(Counted(row[a], c)) /\ Bit(a \in U) = Bit(Counted(row'[a], c))
  BY <1>2 DEF Bit
<1> QED
  BY <1>4, <1>5 DEF T, U

\* The two together, for a step of request p that leaves the articles alone.
LEMMA DriftOfRequest ==
    ASSUME TypeOK, NEW p \in Procs, NEW c \in Categories,
           \A q \in Procs \ {p} : req'[q] = req[q], row' = row
    PROVE  /\ Drift(c) \in Int
           /\ catCount'[c] \in Int =>
                Drift(c)' = Drift(c) + catCount'[c] - catCount[c]
                  + Bit(Owes(req'[p], c)) - Bit(Owes(req[p], c))
                  - Bit(Takes(req'[p], c)) + Bit(Takes(req[p], c))
<1>1. PublishedIn(c)' = PublishedIn(c)
  BY DEF PublishedIn, Counted
<1>2. Cardinality(PublishedIn(c)) \in Nat
  <2>1. PublishedIn(c) \in SUBSET Articles
    BY DEF PublishedIn
  <2>2. QED
    BY <2>1, ConstantsAssumption, FS_Subset, FS_CardinalityType
<1>3. catCount[c] \in Int
  BY DEF TypeOK
<1>4. \A b : Bit(b) \in Int
  BY DEF Bit
<1> QED
  BY <1>1, <1>2, <1>3, <1>4, PendingChange DEF Drift

\* ... and for a step of request p that writes the row of article a.
LEMMA DriftOfWrite ==
    ASSUME TypeOK, NEW p \in Procs, NEW a \in Articles, NEW c \in Categories,
           \A q \in Procs \ {p} : req'[q] = req[q],
           \A b \in Articles \ {a} : row'[b] = row[b], catCount' = catCount
    PROVE  /\ Drift(c) \in Int
           /\ Drift(c)' = Drift(c)
                + Bit(Owes(req'[p], c)) - Bit(Owes(req[p], c))
                - Bit(Takes(req'[p], c)) + Bit(Takes(req[p], c))
                - Bit(Counted(row'[a], c)) + Bit(Counted(row[a], c))
<1>1. catCount[c] \in Int
  BY DEF TypeOK
<1>2. \A b : Bit(b) \in Int
  BY DEF Bit
<1> QED
  BY <1>1, <1>2, PendingChange, PublishedChange DEF Drift

\* A step that neither writes rows or counters nor changes what p owes.
LEMMA NoDrift ==
    ASSUME TypeOK, DriftBounded, NEW p \in Procs,
           \A q \in Procs \ {p} : req'[q] = req[q],
           \A c \in Categories : (Owes(req'[p], c) <=> Owes(req[p], c))
                                /\ (Takes(req'[p], c) <=> Takes(req[p], c)),
           row' = row, catCount' = catCount, missed' = missed,
           stale' = stale, lost' = lost
    PROVE  DriftBounded'
<1> SUFFICES ASSUME NEW c \in Categories
             PROVE  Drift(c)' \in -DriftBound(c) .. DriftBound(c)
  BY DEF DriftBounded, DriftBound
<1>1. catCount'[c] = catCount[c] /\ catCount[c] \in Int
  BY DEF TypeOK
<1>2. Bit(Owes(req'[p], c)) = Bit(Owes(req[p], c)) /\ Bit(Takes(req'[p], c)) = Bit(Takes(req[p], c))
  BY <1>1 DEF Bit, Owes, Takes
<1>3. \A b : Bit(b) \in Int
  BY DEF Bit
<1>4. Drift(c)' = Drift(c)
  BY <1>1, <1>2, <1>3, DriftOfRequest
<1> QED
  BY <1>1, <1>4 DEF DriftBounded

\* Writing a row whose plan is right moves the drift by at most one, and not at
\* all when the snapshot was current.
LEMMA WriteDrift ==
    ASSUME TypeOK, DriftBounded, NEW p \in Procs, PlanOK(req[p]), req[p].pc = "write",
           req' = [req EXCEPT ![p].pc = "counts"],
           \A b \in Articles \ {req[p].a} : row'[b] = row[b],
           \A c \in Categories : Counted(row'[req[p].a], c) <=> Counted(req[p].next, c),
           catCount' = catCount, missed' = missed, lost' = lost,
           stale' = IF Outdated(p) THEN stale + 1 ELSE stale
    PROVE  DriftBounded'
<1> DEFINE q == req[p]
           a == req[p].a
<1> SUFFICES ASSUME NEW c \in Categories
             PROVE  Drift(c)' \in -(stale' + lost + missed[c]) .. (stale' + lost + missed[c])
  BY DEF DriftBounded, DriftBound
<1>0. /\ a \in Articles /\ c # NoCat
      /\ stale \in Nat /\ lost \in Nat /\ missed[c] \in Nat
  BY ConstantsAssumption DEF TypeOK, PlanOK
<1>1. q \in Request /\ req'[p] = [q EXCEPT !.pc = "counts"]
  BY DEF TypeOK
<1>2. /\ req'[p].pc = "counts" /\ req'[p].inc = q.inc /\ req'[p].dec = q.dec
  BY <1>1 DEF Request
<1>3. /\ Bit(Owes(req'[p], c)) = Bit(q.inc = c) /\ Bit(Owes(req[p], c)) = 0
      /\ Bit(Takes(req'[p], c)) = Bit(q.dec = c) /\ Bit(Takes(req[p], c)) = 0
  BY <1>2 DEF Bit, Owes, Takes
<1>4. Bit(Counted(row'[a], c)) = Bit(Counted(q.next, c))
  BY <1>0 DEF Bit
<1>5. Bit(Counted(q.next, c)) - Bit(Counted(q.seen, c)) = Bit(q.inc = c) - Bit(q.dec = c)
  BY <1>0 DEF PlanOK
<1>6. \A b : Bit(b) \in {0, 1}
  BY DEF Bit
<1>7. /\ Drift(c) \in Int
      /\ Drift(c)' = Drift(c) + Bit(Counted(row[a], c)) - Bit(Counted(q.seen, c))
  <2>1. \A x \in Procs \ {p} : req'[x] = req[x]
    BY DEF TypeOK
  <2>2. /\ Drift(c) \in Int
        /\ Drift(c)' = Drift(c) + Bit(q.inc = c) - 0 - Bit(q.dec = c) + 0
                        - Bit(Counted(q.next, c)) + Bit(Counted(row[a], c))
    BY <1>0, <1>3, <1>4, <2>1, DriftOfWrite
  <2> HIDE DEF q, a
  <2>3. QED
    BY <2>2, <1>5, <1>6
<1>8. ~Outdated(p) => Bit(Counted(row[a], c)) = Bit(Counted(q.seen, c))
  <2>1. \A r : Counted(r, c) <=> CountedCat(r) = c
    BY <1>0 DEF Counted, CountedCat
  <2>2. QED
    BY <2>1 DEF Outdated, Bit
<1>9. Drift(c) \in -(stale + lost + missed[c]) .. (stale + lost + missed[c])
  BY DEF DriftBounded, DriftBound
<1> HIDE DEF q, a
<1>10. CASE Outdated(p)
  BY <1>0, <1>6, <1>7, <1>9, <1>10
<1>11. CASE ~Outdated(p)
  BY <1>0, <1>6, <1>7, <1>8, <1>9, <1>11
<1> QED
  BY <1>10, <1>11
-----------------------------------------------------------------------------
(* The inductive step, action by action.                                   *)

\* A step that replaces the record of one request by q keeps Plans and Targets
\* when q itself satisfies them.
LEMMA OneRequest ==
    ASSUME TypeOK, Plans, Targets, NEW p \in Procs, NEW q, req' = [req EXCEPT ![p] = q],
           Planned(q) => PlanOK(q), q.pc \in {"counts", "assoc"} => q.a \in Articles
    PROVE  Plans' /\ Targets'
<1>1. \A x \in Procs : req'[x] = IF x = p THEN q ELSE req[x]
  BY DEF TypeOK
<1>2. Plans'
  BY <1>1 DEF Plans
<1>3. Targets'
  BY <1>1 DEF Targets
<1> QED
  BY <1>2, <1>3

\* The four handlers that read an article and plan a change.
LEMMA PlanStep ==
    ASSUME IInv, NEW p \in Procs, NEW a \in Articles, NEW op, NEW pc, NEW next,
           NEW dec, NEW inc, NEW delta, NEW sync,
           pc \in {"write", "check"}, req[p].pc = "idle",
           Plan(p, op, a, pc, next, dec, inc, delta, sync),
           PlanOK([pc |-> pc, op |-> op, a |-> a, seen |-> row[a], next |-> next,
                   tags |-> PreloadTags(a), dec |-> dec, inc |-> inc,
                   delta |-> delta, sync |-> sync])
    PROVE  Plans' /\ Targets' /\ PublishedHasTime' /\ DriftBounded'
<1> DEFINE q == [pc |-> pc, op |-> op, a |-> a, seen |-> row[a], next |-> next,
                 tags |-> PreloadTags(a), dec |-> dec, inc |-> inc,
                 delta |-> delta, sync |-> sync]
<1>1. req' = [req EXCEPT ![p] = q] /\ q.pc = pc
  BY DEF Plan
<1>2. /\ row' = row /\ catCount' = catCount /\ missed' = missed
      /\ stale' = stale /\ lost' = lost
  BY DEF Plan
<1>3. req'[p] = q /\ \A x \in Procs \ {p} : req'[x] = req[x]
  BY <1>1 DEF IInv, TypeOK
<1>4. PlanOK(q)
  OBVIOUS
<1> HIDE DEF q
<1>5. Plans' /\ Targets'
  BY <1>1, <1>4, OneRequest DEF IInv
<1>6. PublishedHasTime'
  BY <1>2 DEF IInv, PublishedHasTime
<1>7. \A c \in Categories : ~Owes(req'[p], c) /\ ~Takes(req'[p], c)
                             /\ ~Owes(req[p], c) /\ ~Takes(req[p], c)
  BY <1>1, <1>3 DEF Owes, Takes
<1>8. DriftBounded'
  BY <1>2, <1>3, <1>7, NoDrift DEF IInv
<1> QED
  BY <1>5, <1>6, <1>8

\* UpdateArticle, PublishArticle, ArchiveArticle and DeleteArticle plan such changes.
LEMMA PlanActions ==
    ASSUME IInv, NEW p \in Procs, NEW a \in Articles,
           \/ \E c \in OptCat \cup {Keep}, ts \in (SUBSET Tags) \cup {Keep} :
                 UpdateArticle(p, a, c, ts)
           \/ PublishArticle(p, a) \/ ArchiveArticle(p, a) \/ DeleteArticle(p, a)
    PROVE  Plans' /\ Targets' /\ PublishedHasTime' /\ DriftBounded'
<1>0. /\ row[a] \in Row /\ started + 1 # 0
      /\ row[a].state = "live" /\ row[a].status = "published" => row[a].pub # 0
  BY DEF IInv, TypeOK, PublishedHasTime
<1>1. ASSUME NEW c \in OptCat \cup {Keep}, NEW ts \in (SUBSET Tags) \cup {Keep},
             UpdateArticle(p, a, c, ts)
      PROVE  Plans' /\ Targets' /\ PublishedHasTime' /\ DriftBounded'
  <2>1. req[p].pc = "idle" /\ row[a].state = "live"
    BY <1>1 DEF UpdateArticle, Authorize, Live
  <2>2. QED
    BY <1>0, <1>1, <2>1, PlanStep, ConstantsAssumption
       DEF UpdateArticle, AssignCategory, PlanOK, Counted, Bit, Row, OptCat
<1>2. CASE PublishArticle(p, a)
  <2>1. req[p].pc = "idle" /\ row[a].state = "live"
    BY <1>2 DEF PublishArticle, Authorize, Live
  <2> DEFINE next == [row[a] EXCEPT !.status = "published", !.pub = started + 1]
             q == [pc |-> "write", op |-> "publish", a |-> a, seen |-> row[a], next |-> next,
                   tags |-> PreloadTags(a), dec |-> NoCat, inc |-> row[a].cat,
                   delta |-> 1, sync |-> Keep]
  <2>2. /\ next.state = "live" /\ next.status = "published" /\ next.cat = row[a].cat
        /\ next.pub # 0
    BY <1>0, <2>1 DEF Row
  <2>3. row[a].status # "published" /\ Plan(p, "publish", a, "write", next, NoCat, row[a].cat, 1, Keep)
    BY <1>2 DEF PublishArticle, MarkPublished
  <2> HIDE DEF next
  <2>4. PlanOK(q)
    BY <2>1, <2>2, <2>3, ConstantsAssumption DEF PlanOK, Counted, Bit
  <2>5. QED
    BY <2>1, <2>3, <2>4, PlanStep
<1>3. CASE ArchiveArticle(p, a)
  <2>1. req[p].pc = "idle" /\ row[a].state = "live"
    BY <1>3 DEF ArchiveArticle, Authorize, Live
  <2>2. QED
    BY <1>0, <1>3, <2>1, PlanStep, ConstantsAssumption
       DEF ArchiveArticle, Leave, PlanOK, Counted, Bit, Row, OptCat
<1>4. CASE DeleteArticle(p, a)
  <2>1. req[p].pc = "idle" /\ row[a].state = "live"
    BY <1>4 DEF DeleteArticle, Authorize, Live
  <2>2. QED
    BY <1>0, <1>4, <2>1, PlanStep, ConstantsAssumption
       DEF DeleteArticle, Leave, PlanOK, Counted, Bit, Row, OptCat
<1> QED
  BY <1>1, <1>2, <1>3, <1>4

\* A request moves on to record q without touching rows, counters or its debts.
LEMMA QuietStep ==
    ASSUME IInv, NEW p \in Procs, NEW q, req' = [req EXCEPT ![p] = q],
           Planned(q) => PlanOK(q), q.pc \in {"counts", "assoc"} => q.a \in Articles,
           \A c \in Categories : (Owes(q, c) <=> Owes(req[p], c))
                                /\ (Takes(q, c) <=> Takes(req[p], c)),
           row' = row, catCount' = catCount, missed' = missed,
           stale' = stale, lost' = lost
    PROVE  Plans' /\ Targets' /\ PublishedHasTime' /\ DriftBounded'
<1>1. req'[p] = q /\ \A x \in Procs \ {p} : req'[x] = req[x]
  BY DEF IInv, TypeOK
<1>2. Plans' /\ Targets'
  BY OneRequest DEF IInv
<1>3. PublishedHasTime'
  BY DEF IInv, PublishedHasTime
<1>4. DriftBounded'
  BY <1>1, NoDrift DEF IInv
<1> QED
  BY <1>2, <1>3, <1>4

\* The facts about req[p] that the steps below start from.
LEMMA RequestFacts ==
    ASSUME IInv, NEW p \in Procs
    PROVE  /\ req[p] \in Request
           /\ Planned(req[p]) => PlanOK(req[p])
           /\ req[p].pc \in {"counts", "assoc"} => req[p].a \in Articles
           /\ Idle.pc = "idle" /\ \A c \in Categories : ~Owes(Idle, c) /\ ~Takes(Idle, c)
BY DEF IInv, TypeOK, Plans, Targets, Idle, Owes, Takes

\* The steps that only move a handler on, or touch links and categories alone.
LEMMA QuietActions ==
    ASSUME IInv, NEW p \in Procs,
           \/ DeleteSelect(p) \/ CountTags(p) \/ CountTagsFails(p) \/ SyncTags(p) \/ Finish(p)
           \/ AssociateTags(p) \/ CategoryRepoDelete(p)
    PROVE  Plans' /\ Targets' /\ PublishedHasTime' /\ DriftBounded'
<1> USE RequestFacts
<1>1. CASE DeleteSelect(p)
  <2> DEFINE q == [req[p] EXCEPT !.pc = "write"]
  <2>1. /\ q.pc = "write" /\ PlanOK(q)
    BY <1>1 DEF DeleteSelect, Request, PlanOK, Planned
  <2>2. \A c \in Categories : ~Owes(q, c) /\ ~Takes(q, c)
                               /\ ~Owes(req[p], c) /\ ~Takes(req[p], c)
    BY <1>1, <2>1 DEF DeleteSelect, Owes, Takes
  <2>3. CASE req' = [req EXCEPT ![p] = q]
    <3> HIDE DEF q
    <3> QED
      BY <1>1, <2>1, <2>2, <2>3, QuietStep DEF DeleteSelect
  <2>4. CASE req' = [req EXCEPT ![p] = Idle]
    BY <1>1, <2>2, <2>4, QuietStep DEF DeleteSelect, Planned
  <2> QED
    BY <1>1, <2>3, <2>4 DEF DeleteSelect
<1>2. CASE CountTags(p)
  <2> DEFINE q == [req[p] EXCEPT !.delta = 0]
  <2>1. q.pc = "counts" /\ q.a = req[p].a /\ q.inc = req[p].inc /\ q.dec = req[p].dec
    BY <1>2 DEF CountTags, Request
  <2>2. req' = [req EXCEPT ![p] = q]
    BY <1>2 DEF CountTags
  <2>3. /\ row' = row /\ catCount' = catCount /\ missed' = missed
        /\ stale' = stale /\ lost' = lost /\ req[p].pc = "counts"
    BY <1>2 DEF CountTags
  <2> HIDE DEF q
  <2>4. \A c \in Categories : (Owes(q, c) <=> Owes(req[p], c))
                               /\ (Takes(q, c) <=> Takes(req[p], c))
    BY <2>1, <2>3 DEF Owes, Takes
  <2> QED
    BY <2>1, <2>2, <2>3, <2>4, QuietStep DEF Planned
<1>7. CASE CountTagsFails(p)
  <2> DEFINE q == [req[p] EXCEPT !.delta = 0]
  <2>1. q.pc = "counts" /\ q.a = req[p].a /\ q.inc = req[p].inc /\ q.dec = req[p].dec
    BY <1>7 DEF CountTagsFails, Request
  <2>2. req' = [req EXCEPT ![p] = q]
    BY <1>7 DEF CountTagsFails
  <2>3. /\ row' = row /\ catCount' = catCount /\ missed' = missed
        /\ stale' = stale /\ lost' = lost /\ req[p].pc = "counts"
    BY <1>7 DEF CountTagsFails
  <2> HIDE DEF q
  <2>4. \A c \in Categories : (Owes(q, c) <=> Owes(req[p], c))
                               /\ (Takes(q, c) <=> Takes(req[p], c))
    BY <2>1, <2>3 DEF Owes, Takes
  <2> QED
    BY <2>1, <2>2, <2>3, <2>4, QuietStep DEF Planned
<1>3. CASE SyncTags(p)
  <2> DEFINE q == [req[p] EXCEPT !.sync = Keep]
  <2>1. q.pc = "counts" /\ q.a = req[p].a /\ q.inc = req[p].inc /\ q.dec = req[p].dec
    BY <1>3 DEF SyncTags, Request
  <2>2. req' = [req EXCEPT ![p] = q]
    BY <1>3 DEF SyncTags
  <2>3. /\ row' = row /\ catCount' = catCount /\ missed' = missed
        /\ stale' = stale /\ lost' = lost /\ req[p].pc = "counts"
    BY <1>3 DEF SyncTags
  <2> HIDE DEF q
  <2>4. \A c \in Categories : (Owes(q, c) <=> Owes(req[p], c))
                               /\ (Takes(q, c) <=> Takes(req[p], c))
    BY <2>1, <2>3 DEF Owes, Takes
  <2> QED
    BY <2>1, <2>2, <2>3, <2>4, QuietStep DEF Planned
<1>4. CASE Finish(p)
  <2>1. \A c \in Categories : ~Owes(req[p], c) /\ ~Takes(req[p], c)
    BY <1>4, ConstantsAssumption DEF Finish, Owes, Takes
  <2> QED
    BY <1>4, <2>1, QuietStep DEF Finish, Planned
<1>5. CASE AssociateTags(p)
  <2>1. \A c \in Categories : ~Owes(req[p], c) /\ ~Takes(req[p], c)
    BY <1>5 DEF AssociateTags, Owes, Takes
  <2> QED
    BY <1>5, <2>1, QuietStep DEF AssociateTags, Planned
<1>6. CASE CategoryRepoDelete(p)
  <2>1. \A c \in Categories : ~Owes(req[p], c) /\ ~Takes(req[p], c)
    BY <1>6 DEF CategoryRepoDelete, Owes, Takes
  <2> QED
    BY <1>6, <2>1, QuietStep DEF CategoryRepoDelete, Planned
<1> QED
  BY <1>1, <1>2, <1>3, <1>4, <1>5, <1>6, <1>7

\* The two statements that write an article.
LEMMA WriteActions ==
    ASSUME IInv, NEW p \in Procs, RepoUpdate(p) \/ RepoDelete(p)
    PROVE  Plans' /\ Targets' /\ PublishedHasTime' /\ DriftBounded'
<1> USE RequestFacts
<1> DEFINE q == [req[p] EXCEPT !.pc = "counts"]
<1>1. PlanOK(req[p]) /\ req[p].pc = "write" /\ req[p].a \in Articles
  BY DEF RepoUpdate, RepoDelete, Planned, PlanOK
<1>2. q.pc = "counts" /\ q.a = req[p].a
  BY DEF Request
<1>3. row[req[p].a] \in Row /\ req[p].next \in Row
  BY <1>1 DEF IInv, TypeOK, Request
<1>4. CASE req' = [req EXCEPT ![p] = Idle] /\ row' = row /\ stale' = stale
  <2>1. \A c \in Categories : ~Owes(req[p], c) /\ ~Takes(req[p], c)
    BY <1>1 DEF Owes, Takes
  <2>2. catCount' = catCount /\ missed' = missed /\ lost' = lost
    BY DEF RepoUpdate, RepoDelete
  <2> QED
    BY <1>4, <2>1, <2>2, QuietStep DEF Planned
<1>5. CASE RepoUpdate(p) /\ row' = [row EXCEPT ![req[p].a] = req[p].next]
             /\ req' = [req EXCEPT ![p] = q]
             /\ stale' = IF Outdated(p) THEN stale + 1 ELSE stale
  <2>1. row'[req[p].a] = req[p].next /\ \A b \in Articles \ {req[p].a} : row'[b] = row[b]
    BY <1>1, <1>5 DEF IInv, TypeOK
  <2>2. catCount' = catCount /\ missed' = missed /\ lost' = lost
    BY <1>5 DEF RepoUpdate
  <2>3. DriftBounded'
    BY <1>1, <1>5, <2>1, <2>2, WriteDrift DEF IInv, Counted
  <2>4. PublishedHasTime'
    BY <1>1, <2>1 DEF IInv, PublishedHasTime, PlanOK
  <2>5. Plans' /\ Targets'
    <3> HIDE DEF q
    <3> QED BY <1>1, <1>2, <1>5, OneRequest DEF IInv, Planned
  <2> QED
    BY <2>3, <2>4, <2>5
<1>6. CASE RepoDelete(p)
  <2>1. /\ row'[req[p].a].state = "deleted"
        /\ \A b \in Articles \ {req[p].a} : row'[b] = row[b]
    BY <1>1, <1>3, <1>6 DEF RepoDelete, IInv, TypeOK, Row
  <2>2. /\ catCount' = catCount /\ missed' = missed /\ lost' = lost
        /\ stale' = IF Outdated(p) THEN stale + 1 ELSE stale
        /\ req' = [req EXCEPT ![p] = q]
    BY <1>6 DEF RepoDelete
  <2>3. req[p].next.state = "deleted"
    BY <1>1, <1>6 DEF PlanOK, RepoDelete
  <2>4. DriftBounded'
    BY <1>1, <2>1, <2>2, <2>3, WriteDrift DEF IInv, Counted
  <2>5. PublishedHasTime'
    BY <1>1, <2>1 DEF IInv, PublishedHasTime
  <2>6. Plans' /\ Targets'
    <3> HIDE DEF q
    <3> QED BY <1>1, <1>2, <2>2, OneRequest DEF IInv, Planned
  <2> QED
    BY <2>4, <2>5, <2>6
<1> QED
  BY <1>4, <1>5, <1>6 DEF RepoUpdate

\* The statements that settle, skip or forget a debt.
LEMMA CountActions ==
    ASSUME IInv, NEW p \in Procs,
           CountOld(p) \/ CountNew(p) \/ CountFails(p) \/ Abort(p)
    PROVE  Plans' /\ Targets' /\ PublishedHasTime' /\ DriftBounded'
<1> USE RequestFacts
<1>0. row' = row /\ stale' = stale
  BY DEF CountOld, CountNew, CountFails, Abort
<1>1. PublishedHasTime'
  BY <1>0 DEF IInv, PublishedHasTime
<1>2. \A q \in Procs \ {p} : req'[q] = req[q]
  BY DEF CountOld, CountNew, CountFails, Abort, IInv, TypeOK
<1>3. \A b : Bit(b) \in {0, 1}
  BY DEF Bit
<1>4. /\ stale \in Nat /\ lost \in Nat
      /\ \A c \in Categories : catCount[c] \in Int /\ missed[c] \in Nat
  BY DEF IInv, TypeOK
<1>5. Plans' /\ Targets'
  <2>1. CASE Abort(p)
    BY <2>1, OneRequest DEF Abort, IInv, Planned
  <2>2. CASE ~Abort(p)
    <3>1. /\ req'[p].pc = "counts" /\ req'[p].a = req[p].a
          /\ req[p].pc = "counts" /\ req' = [req EXCEPT ![p] = req'[p]]
      BY <2>2 DEF CountOld, CountNew, CountFails, IInv, TypeOK, Request
    <3>2. QED
      BY <3>1, OneRequest DEF IInv, Planned
  <2> QED
    BY <2>1, <2>2
<1>6. DriftBounded'
  <2> SUFFICES ASSUME NEW c \in Categories
               PROVE  Drift(c)' \in -(stale + lost' + missed'[c]) .. (stale + lost' + missed'[c])
    BY <1>0 DEF DriftBounded, DriftBound
  <2>0. c # NoCat
    BY ConstantsAssumption
  <2>1. /\ Drift(c) \in Int
        /\ catCount'[c] \in Int =>
             Drift(c)' = Drift(c) + catCount'[c] - catCount[c]
               + Bit(Owes(req'[p], c)) - Bit(Owes(req[p], c))
               - Bit(Takes(req'[p], c)) + Bit(Takes(req[p], c))
    BY <1>0, <1>2, <2>0, DriftOfRequest DEF IInv
  <2>2. Drift(c) \in -(stale + lost + missed[c]) .. (stale + lost + missed[c])
    BY DEF IInv, DriftBounded, DriftBound
  <2>3. CASE CountOld(p)
    <3>1. /\ req'[p].pc = "counts" /\ req'[p].dec = NoCat /\ req'[p].inc = req[p].inc
          /\ req[p].pc = "counts"
      BY <2>3 DEF CountOld, IInv, TypeOK, Request
    <3>2. Bit(Owes(req'[p], c)) = Bit(Owes(req[p], c)) /\ Bit(Takes(req'[p], c)) = 0
      BY <3>1, <2>0 DEF Bit, Owes, Takes
    <3>3. \/ /\ catCount'[c] = catCount[c] - Bit(Takes(req[p], c))
             /\ missed'[c] = missed[c]
          \/ /\ catCount'[c] = catCount[c]
             /\ missed'[c] = missed[c] + Bit(Takes(req[p], c))
      <4>1. CASE req[p].dec \in catLive
        BY <2>3, <3>1, <4>1, <1>4 DEF CountOld, IncrementArticleCount, Bit, Takes, IInv, TypeOK
      <4>2. CASE req[p].dec \notin catLive
        BY <2>3, <3>1, <4>2, <1>4 DEF CountOld, IncrementArticleCount, Bit, Takes, IInv, TypeOK
      <4> QED
        BY <4>1, <4>2
    <3>4. lost' = lost
      BY <2>3 DEF CountOld
    <3>5. QED
      BY <1>3, <1>4, <2>1, <2>2, <3>2, <3>3, <3>4
  <2>4. CASE CountNew(p)
    <3>1. /\ req'[p].pc = "counts" /\ req'[p].inc = NoCat /\ req'[p].dec = req[p].dec
          /\ req[p].pc = "counts"
      BY <2>4 DEF CountNew, IInv, TypeOK, Request
    <3>2. Bit(Takes(req'[p], c)) = Bit(Takes(req[p], c)) /\ Bit(Owes(req'[p], c)) = 0
      BY <3>1, <2>0 DEF Bit, Owes, Takes
    <3>3. \/ /\ catCount'[c] = catCount[c] + Bit(Owes(req[p], c))
             /\ missed'[c] = missed[c]
          \/ /\ catCount'[c] = catCount[c]
             /\ missed'[c] = missed[c] + Bit(Owes(req[p], c))
      <4>1. CASE req[p].inc \in catLive
        BY <2>4, <3>1, <4>1, <1>4 DEF CountNew, IncrementArticleCount, Bit, Owes, IInv, TypeOK
      <4>2. CASE req[p].inc \notin catLive
        BY <2>4, <3>1, <4>2, <1>4 DEF CountNew, IncrementArticleCount, Bit, Owes, IInv, TypeOK
      <4> QED
        BY <4>1, <4>2
    <3>4. lost' = lost
      BY <2>4 DEF CountNew
    <3>5. QED
      BY <1>3, <1>4, <2>1, <2>2, <3>2, <3>3, <3>4
  <2>5. CASE CountFails(p)
    <3>1. /\ req'[p].pc = "counts" /\ req[p].pc = "counts"
          /\ \/ req'[p].dec = NoCat /\ req'[p].inc = req[p].inc
             \/ req'[p].inc = NoCat /\ req'[p].dec = req[p].dec
      BY <2>5 DEF CountFails, IInv, TypeOK, Request
    <3>2. \/ Bit(Owes(req'[p], c)) = Bit(Owes(req[p], c)) /\ Bit(Takes(req'[p], c)) = 0
          \/ Bit(Takes(req'[p], c)) = Bit(Takes(req[p], c)) /\ Bit(Owes(req'[p], c)) = 0
      BY <3>1, <2>0 DEF Bit, Owes, Takes
    <3>3. catCount'[c] = catCount[c] /\ lost' = lost + 1 /\ missed' = missed
      BY <2>5 DEF CountFails
    <3>4. QED
      BY <1>3, <1>4, <2>0, <2>1, <2>2, <3>2, <3>3
  <2>6. CASE Abort(p)
    <3>1. catCount'[c] = catCount[c] /\ lost' = lost + Owed(req[p]) /\ missed' = missed
      BY <2>6 DEF Abort
    <3>2. Bit(Owes(req'[p], c)) = 0 /\ Bit(Takes(req'[p], c)) = 0
      BY <2>0, <2>6 DEF Abort, Bit, IInv, TypeOK
    <3>3. Owed(req[p]) \in Nat /\ Bit(Owes(req[p], c)) + Bit(Takes(req[p], c)) <= Owed(req[p])
      BY <2>0 DEF Owed, Owes, Takes, Bit
    <3>4. QED
      BY <1>3, <1>4, <2>0, <2>1, <2>2, <3>1, <3>2, <3>3
  <2> QED
    BY <2>3, <2>4, <2>5, <2>6
<1> QED
  BY <1>1, <1>5, <1>6

\* Creating a draft or a category, and the check of DeleteCategory.
LEMMA CreateActions ==
    ASSUME IInv, NEW p \in Procs,
           \/ \E a \in Articles, c \in OptCat, ts \in SUBSET Tags : CreateArticle(p, a, c, ts)
           \/ \E c \in Categories : CreateCategory(p, c) \/ DeleteCategory(p, c)
    PROVE  Plans' /\ Targets' /\ PublishedHasTime' /\ DriftBounded'
<1> USE RequestFacts
<1>1. ASSUME NEW a \in Articles, NEW d \in OptCat, NEW ts \in SUBSET Tags,
             CreateArticle(p, a, d, ts)
      PROVE  Plans' /\ Targets' /\ PublishedHasTime' /\ DriftBounded'
  <2> DEFINE q == [Idle EXCEPT !.pc = "assoc", !.op = "create", !.a = a, !.tags = ts]
  <2>1. q.pc = "assoc" /\ q.a = a
    BY DEF Idle
  <2>2. /\ req' = [req EXCEPT ![p] = q] /\ req[p].pc = "idle" /\ row[a].state = "absent"
        /\ row' = [row EXCEPT ![a] = [NoRow EXCEPT !.state = "live", !.cat = d]]
        /\ catCount' = catCount /\ missed' = missed /\ stale' = stale /\ lost' = lost
    BY <1>1 DEF CreateArticle
  <2>3. row'[a].status = "draft" /\ \A b \in Articles \ {a} : row'[b] = row[b]
    BY <2>2 DEF IInv, TypeOK, NoRow
  <2> HIDE DEF q
  <2>4. req'[p] = q /\ \A x \in Procs \ {p} : req'[x] = req[x]
    BY <2>2 DEF IInv, TypeOK
  <2>5. Plans' /\ Targets'
    BY <2>1, <2>2, OneRequest DEF IInv, Planned
  <2>6. PublishedHasTime'
    BY <2>3 DEF IInv, PublishedHasTime
  <2>7. DriftBounded'
    <3> SUFFICES ASSUME NEW c \in Categories
                 PROVE  Drift(c)' \in -DriftBound(c) .. DriftBound(c)
      BY <2>2 DEF DriftBounded, DriftBound
    <3>2. /\ Bit(Owes(req'[p], c)) = 0 /\ Bit(Owes(req[p], c)) = 0
          /\ Bit(Takes(req'[p], c)) = 0 /\ Bit(Takes(req[p], c)) = 0
          /\ Bit(Counted(row'[a], c)) = 0 /\ Bit(Counted(row[a], c)) = 0
      BY <2>1, <2>2, <2>3, <2>4 DEF Bit, Owes, Takes, Counted
    <3>3. Drift(c)' = Drift(c)
      BY <2>2, <2>3, <2>4, <3>2, DriftOfWrite DEF IInv
    <3>4. QED
      BY <3>3 DEF IInv, DriftBounded
  <2> QED
    BY <2>5, <2>6, <2>7
<1>2. ASSUME NEW d \in Categories, DeleteCategory(p, d) PROVE Plans' /\ Targets' /\ PublishedHasTime' /\ DriftBounded'
  <2> DEFINE q == [Idle EXCEPT !.pc = "delcat", !.op = "delcat", !.a = d]
  <2>1. q.pc = "delcat"
    BY DEF Idle
  <2>2. /\ req' = [req EXCEPT ![p] = q] /\ req[p].pc = "idle" /\ row' = row
        /\ catCount' = catCount /\ missed' = missed /\ stale' = stale /\ lost' = lost
    BY <1>2 DEF DeleteCategory
  <2> HIDE DEF q
  <2>3. \A c \in Categories : ~Owes(q, c) /\ ~Takes(q, c) /\ ~Owes(req[p], c) /\ ~Takes(req[p], c)
    BY <2>1, <2>2 DEF Owes, Takes
  <2> QED
    BY <2>1, <2>2, <2>3, QuietStep DEF Planned
<1>3. ASSUME NEW d \in Categories, CreateCategory(p, d)
      PROVE  Plans' /\ Targets' /\ PublishedHasTime' /\ DriftBounded'
  <2>1. /\ req' = req /\ row' = row /\ catCount' = catCount
        /\ stale' = stale /\ lost' = lost /\ missed' = missed
    BY <1>3 DEF CreateCategory
  <2>2. Plans' /\ Targets' /\ PublishedHasTime'
    BY <2>1 DEF IInv, Plans, Targets, PublishedHasTime
  <2>3. DriftBounded'
    BY <2>1, NoDrift DEF IInv
  <2> QED
    BY <2>2, <2>3
<1> QED
  BY <1>1, <1>2, <1>3

\* IInv is inductive.
LEMMA InductiveStep == IInv /\ [Next]_vars => IInv'
<1> SUFFICES ASSUME IInv, [Next]_vars PROVE IInv'
  OBVIOUS
<1>1. TypeOK'
  BY TypeStep DEF IInv
<1>2. ASSUME NEW p \in Procs, Step(p) PROVE Plans' /\ Targets' /\ PublishedHasTime' /\ DriftBounded'
  BY <1>2, QuietActions, WriteActions, CountActions DEF Step
<1>3. ASSUME NEW p \in Procs, NEW a \in Articles,
             \/ \E c \in OptCat \cup {Keep}, ts \in (SUBSET Tags) \cup {Keep} :
                   UpdateArticle(p, a, c, ts)
             \/ PublishArticle(p, a) \/ ArchiveArticle(p, a) \/ DeleteArticle(p, a)
      PROVE  Plans' /\ Targets' /\ PublishedHasTime' /\ DriftBounded'
  BY <1>3, PlanActions
<1>4. ASSUME NEW p \in Procs,
             \/ \E a \in Articles, c \in OptCat, ts \in SUBSET Tags : CreateArticle(p, a, c, ts)
             \/ \E c \in Categories : CreateCategory(p, c) \/ DeleteCategory(p, c)
      PROVE  Plans' /\ Targets' /\ PublishedHasTime' /\ DriftBounded'
  BY <1>4, CreateActions
<1>5. CASE UNCHANGED vars
  <2>1. Plans' /\ Targets' /\ PublishedHasTime'
    BY <1>5 DEF vars, IInv, Plans, Targets, PublishedHasTime
  <2>2. ASSUME NEW c PROVE Drift(c)' = Drift(c)
    BY <1>5 DEF vars, Drift, PendingInc, PendingDec, PublishedIn, Counted
  <2>3. DriftBounded'
    BY <1>5, <2>2 DEF vars, IInv, DriftBounded, DriftBound
  <2> QED
    BY <1>1, <2>1, <2>3 DEF IInv
<1>6. CASE Next
  <2>1. Plans' /\ Targets' /\ PublishedHasTime' /\ DriftBounded'
    BY <1>2, <1>3, <1>4, <1>6 DEF Next
  <2> QED
    BY <1>1, <2>1 DEF IInv
<1> QED
  BY <1>1, <1>5, <1>6

\* Nothing is published, counted or under way at the start.
LEMMA InductiveInit == Init => IInv
<1> SUFFICES ASSUME Init PROVE IInv
  OBVIOUS
<1>1. TypeOK
  BY ConstantsAssumption, IdleType DEF Init, TypeOK
<1>2. Plans /\ Targets /\ PublishedHasTime
  BY DEF Init, Plans, Targets, PublishedHasTime, Planned, Idle, NoRow
<1>3. DriftBounded
  <2> SUFFICES ASSUME NEW c \in Categories PROVE Drift(c) = 0
    BY DEF DriftBounded, DriftBound, Init
  <2>1. PendingInc(c) = {} /\ PendingDec(c) = {} /\ PublishedIn(c) = {}
    BY DEF Init, PendingInc, PendingDec, PublishedIn, Idle, NoRow, Counted
  <2>2. catCount[c] = 0
    BY DEF Init
  <2>3. QED
    BY <2>1, <2>2, FS_EmptySet DEF Drift
<1> QED
  BY <1>1, <1>2, <1>3 DEF IInv

\* For any number of articles, categories and concurrent requests, and for categories
\* created before or after the articles that name them, a counter is off by at most one
\* per outdated write, lost adjustment and adjustment that found no category row.
THEOREM CounterDrift == Spec => []DriftBounded
<1>1. IInv => DriftBounded
  BY DEF IInv
<1> QED
  BY <1>1, InductiveInit, InductiveStep, PTL DEF Spec

\* A published article always has a publication time.
THEOREM PublicationTime == Spec => []PublishedHasTime
<1>1. IInv => PublishedHasTime
  BY DEF IInv
<1> QED
  BY <1>1, InductiveInit, InductiveStep, PTL DEF Spec

\* No handler, however old its snapshot, changes a deleted article.
THEOREM DeletionFinal == Spec => DeletedIsFinal
<1>1. ASSUME IInv, [Next]_vars
      PROVE  [\A a \in Articles : row[a].state = "deleted" => row'[a] = row[a]]_vars
  <2> SUFFICES ASSUME NEW b \in Articles, row[b].state = "deleted", Next
               PROVE  row'[b] = row[b]
    BY <1>1
  <2>1. ASSUME NEW p \in Procs, Step(p) PROVE row'[b] = row[b]
    <3>1. CASE RepoUpdate(p)
      BY <3>1, <1>1 DEF RepoUpdate, Live, IInv, TypeOK
    <3>2. CASE RepoDelete(p)
      BY <3>2, <1>1 DEF RepoDelete, IInv, TypeOK, Row
    <3>3. CASE row' = row
      BY <3>3
    <3> QED
      BY <2>1, <3>1, <3>2, <3>3
         DEF Step, DeleteSelect, CountOld, CountNew, CountFails, CountTags, CountTagsFails, SyncTags,
             Finish, Abort, AssociateTags, CategoryRepoDelete
  <2>2. ASSUME NEW p \in Procs, NEW a \in Articles, NEW c, NEW ts, CreateArticle(p, a, c, ts)
        PROVE  row'[b] = row[b]
    BY <2>2, <1>1 DEF CreateArticle, IInv, TypeOK
  <2>3. ASSUME NEW p, NEW a, NEW c, NEW ts,
               \/ UpdateArticle(p, a, c, ts) \/ PublishArticle(p, a)
               \/ ArchiveArticle(p, a) \/ DeleteArticle(p, a)
               \/ CreateCategory(p, c) \/ DeleteCategory(p, c)
        PROVE  row'[b] = row[b]
    BY <2>3 DEF UpdateArticle, PublishArticle, ArchiveArticle, DeleteArticle,
                CreateCategory, DeleteCategory, Plan
  <2> QED
    BY <2>1, <2>2, <2>3 DEF Next
<1> QED
  BY <1>1, InductiveInit, InductiveStep, PTL DEF Spec, DeletedIsFinal
=============================================================================
