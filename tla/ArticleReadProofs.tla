--------------------------- MODULE ArticleReadProofs ---------------------------
(***************************************************************************)
(* Reading articles, for every number of articles, readers and handlers.   *)
(* Counting the views: the count never exceeds the counted views unless a  *)
(* flush was cut off or overlapped another, and no counted view is lost    *)
(* other than in the window between MGet and DEL or with an expired key.   *)
(* Finding an article by its slug: a wrong answer, a misleading cache      *)
(* entry and a refused slug each have one of the causes that are named.    *)
(***************************************************************************)
EXTENDS ViewCount, ArticleSlugs, FiniteSetTheorems, TLAPS

Reads(f, a) == flush[f].pc = "update" /\ a \in flush[f].keys
Clears(f, a) == flush[f].pc = "delete" /\ a \in flush[f].keys

\* A flush that has read its increments has read none for other articles.
ReadOnly ==
    \A f \in Flushers : flush[f].pc = "update" =>
        \A a \in Articles \ flush[f].keys : flush[f].counts[a] = 0

\* Without overlaps no two flushes are responsible for one key.
Disjoint ==
    redo = 0 => \A f, g \in Flushers, a \in Articles :
        f # g => ~((Reads(f, a) \/ Clears(f, a)) /\ (Reads(g, a) \/ Clears(g, a)))

\* The strengthening of NoOvercount: what the database holds, what it will hold
\* after the UPDATE of a flush, and what it holds while the flushed increments
\* are also still in Redis.
OverInv ==
    redo = 0 => \A a \in Articles :
        /\ db[a] <= counted[a]
        /\ (\A f \in Flushers : ~Clears(f, a)) => db[a] + view[a] <= counted[a]
        /\ \A f \in Flushers :
              /\ Reads(f, a) => db[a] + flush[f].counts[a] <= counted[a]
              /\ Clears(f, a) => db[a] + view[a] <= counted[a] + flush[f].counts[a]

\* The strengthening of NoUndercount: what remains once a flush deletes the key.
UnderInv ==
    \A a \in Articles :
        /\ counted[a] <= db[a] + view[a] + late[a]
        /\ \A f \in Flushers :
              /\ Reads(f, a) => counted[a] <= db[a] + flush[f].counts[a] + late[a]
              /\ Clears(f, a) => counted[a] <= db[a] + late[a]

\* There is one final flush: before the stop there is none.
FinalOnce == stopping = 0 => flush["final"].pc = "idle"

Bounds == ReadOnly /\ Disjoint /\ OverInv /\ UnderInv

IInv == TypeOK /\ FinalOnce /\ Bounds

\* The initial state satisfies the inductive invariant: nothing is counted yet.
LEMMA InductiveInit == Init => IInv
BY ConstantsAssumption
   DEF Init, IInv, TypeOK, FinalOnce, Bounds, ReadOnly, Disjoint, OverInv, UnderInv, Reads, Clears, Request,
       NoRequest, NoCounts, Flush, NoCounts, NoFlush, Flushers

\* A flush that goes on or returns is a flush.
LEMMA ProceedType ==
    ASSUME TypeOK, NEW f \in Flushers, NEW keys \in SUBSET Articles,
           NEW counts \in [Articles -> Nat], NEW pc \in {"scan", "mget", "update", "delete"},
           Proceed(f, pc, keys, counts) \/ Return(f)
    PROVE  flush' \in [Flushers -> Flush]
<1>1. [pc |-> pc, keys |-> keys, counts |-> counts] \in Flush /\ NoFlush \in Flush
  BY DEF Flush, NoFlush, NoCounts
<1> QED
  BY <1>1 DEF TypeOK, Proceed, Return

\* Every step of a request, a flush or the environment keeps the types.
LEMMA TypeStep == TypeOK /\ [Next]_vars => TypeOK'
<1> SUFFICES ASSUME TypeOK, [Next]_vars PROVE TypeOK'
  OBVIOUS
<1> USE ConstantsAssumption DEF TypeOK, redis, history, vars, Continue, Proceed, Return
<1>1. ASSUME NEW p \in Procs, NEW a \in Articles, NEW ip \in IPs, ViewArticle(p, a, ip)
      PROVE  TypeOK'
  <2>1. dedup' \subseteq Articles \X IPs
    <3>1. {<<a, ip>>} \subseteq Articles \X IPs
      OBVIOUS
    <3> QED
      BY <1>1, <3>1 DEF ViewArticle
  <2>2. req' \in [Procs -> Request]
    BY <1>1 DEF ViewArticle, Request
  <2> QED
    BY <1>1, <2>1, <2>2 DEF ViewArticle
<1>2. ASSUME NEW p \in Procs, NEW a \in Articles, NEW ip \in IPs, ViewArticleFallback(p, a, ip)
      PROVE  TypeOK'
  BY <1>2 DEF ViewArticleFallback, Request, Fault
<1>3. ASSUME NEW p \in Procs, Incr(p) PROVE TypeOK'
  BY <1>3 DEF Incr, CountView, Request
<1>4. ASSUME NEW p \in Procs, Expire(p) PROVE TypeOK'
  BY <1>4 DEF Expire, NoRequest, Request
<1>5. ASSUME NEW p \in Procs, IncrementView(p) PROVE TypeOK'
  BY <1>5 DEF IncrementView, CountView, NoRequest, Request
<1>6. ASSUME NEW p \in Procs, IncrFails(p) PROVE TypeOK'
  BY <1>6 DEF IncrFails, Fault, Request
<1>7. ASSUME NEW p \in Procs, IncrementViewFails(p) PROVE TypeOK'
  BY <1>7 DEF IncrementViewFails, Fault, NoRequest, Request
<1>8. CASE Tick
  BY <1>8 DEF Tick, NoCounts, Flush, Flushers
<1>9. CASE Stop
  BY <1>9 DEF Stop, Fault, NoCounts, Flush, Flushers
<1>10. ASSUME Reboot, faults' \in 0..MaxFaults PROVE TypeOK'
  BY <1>10 DEF Reboot, NoRequest, Request, NoCounts, NoFlush, Flush, Flushers
<1>11. CASE Exit
  BY <1>10, <1>11 DEF Exit
<1>12. CASE Crash
  BY <1>10, <1>12 DEF Crash, Fault
<1>13. ASSUME NEW f \in Flushers, ScanAll(f) PROVE TypeOK'
  <2>1. flush' \in [Flushers -> Flush]
    BY <1>13, ProceedType DEF ScanAll, NoCounts
  <2> QED
    BY <1>13, <2>1 DEF ScanAll
<1>14. ASSUME NEW f \in Flushers, MGet(f) PROVE TypeOK'
  BY <1>14 DEF MGet, NoCounts, NoFlush, Flush
<1>15. ASSUME NEW f \in Flushers, FlushUpdate(f) PROVE TypeOK'
  BY <1>15 DEF FlushUpdate, AddCounts, Flush
<1>16. ASSUME NEW f \in Flushers, FlushFails(f) PROVE TypeOK'
  BY <1>16 DEF FlushFails, Fault, NoCounts, NoFlush, Flush
<1>17. ASSUME NEW f \in Flushers, NEW a \in Articles, DeleteKey(f, a) PROVE TypeOK'
  <2>1. flush' \in [Flushers -> Flush]
    <3>1. flush[f].keys \ {a} \in SUBSET Articles /\ flush[f].counts \in [Articles -> Nat]
      BY DEF Flush
    <3> QED
      BY <1>17, <3>1, ProceedType DEF DeleteKey, AfterDelete
  <2> QED
    BY <1>17, <2>1 DEF DeleteKey
<1>18. ASSUME NEW f \in Flushers, NEW a \in Articles, DeleteFails(f, a) PROVE TypeOK'
  <2>1. flush' \in [Flushers -> Flush]
    <3>1. flush[f].keys \ {a} \in SUBSET Articles /\ flush[f].counts \in [Articles -> Nat]
      BY DEF Flush
    <3> QED
      BY <1>18, <3>1, ProceedType DEF DeleteFails, AfterDelete
  <2> QED
    BY <1>18, <2>1 DEF DeleteFails, Fault
<1>19. ASSUME NEW a \in Articles, Expired(a) PROVE TypeOK'
  BY <1>19 DEF Expired, Fault
<1>20. ASSUME NEW k \in Articles \X IPs, WindowEnds(k) PROVE TypeOK'
  BY <1>20 DEF WindowEnds
<1>21. CASE UNCHANGED vars
  BY <1>21
<1> QED
  BY <1>1, <1>2, <1>3, <1>4, <1>5, <1>6, <1>7, <1>8, <1>9, <1>11, <1>12, <1>13, <1>14,
     <1>15, <1>16, <1>17, <1>18, <1>19, <1>20, <1>21
     DEF Next, Requests, Flushing

\* What the bounds are about: no step but these changes db, view, counted, late,
\* redo or the flushes.
Quiet == UNCHANGED <<view, db, flush, counted, late, redo>>

\* A flush that was not deleting keys and does not read any leaves the bounds alone.
LEMMA Harmless ==
    ASSUME TypeOK, Bounds, NEW f \in Flushers, flush[f].pc # "delete",
           flush'[f].pc \notin {"update", "delete"},
           \A g \in Flushers \ {f} : flush'[g] = flush[g],
           UNCHANGED <<view, db, counted, late>>, redo' = 0 => redo = 0
    PROVE  Bounds'
<1> USE DEF TypeOK, Bounds, Reads, Clears
<1>1. ReadOnly'
  BY DEF ReadOnly
<1>2. Disjoint'
  BY DEF Disjoint
<1>3. OverInv'
  BY DEF OverInv
<1>4. UnderInv'
  BY DEF UnderInv
<1> QED
  BY <1>1, <1>2, <1>3, <1>4

\* Each step keeps the strengthened bounds: a request adds to both sides of
\* them, an UPDATE moves what the flush had read, a DEL erases what the UPDATE has
\* already added, and whatever else may break them sets redo or adds to late.
LEMMA BoundStep == IInv /\ [Next]_vars => Bounds'
<1> SUFFICES ASSUME IInv, [Next]_vars
             PROVE  Bounds'
  OBVIOUS
<1> USE DEF IInv, TypeOK, Bounds, redis, history, vars, Reads, Clears
<1>1. ASSUME Quiet PROVE Bounds'
  BY <1>1 DEF Quiet, ReadOnly, Disjoint, OverInv, UnderInv
<1>2. ASSUME NEW p \in Procs, Incr(p)
      PROVE  Bounds'
  <2>1. req[p].a \in Articles /\ UNCHANGED <<flush, db, redo>>
    BY <1>2 DEF Incr, Request
  <2>2. ReadOnly' /\ Disjoint'
    BY <2>1 DEF ReadOnly, Disjoint
  <2>3. /\ \A b \in Articles : view'[b] - view[b] = counted'[b] - counted[b]
        /\ \A b \in Articles : view'[b] >= view[b] /\ late'[b] >= late[b]
        /\ \A b \in Articles : Doomed(b) => late'[b] - late[b] = counted'[b] - counted[b]
        /\ view' \in [Articles -> Nat] /\ counted' \in [Articles -> Nat] /\ late' \in [Articles -> Nat]
    BY <1>2, <2>1 DEF Incr, CountView
  <2>4. \A f \in Flushers : flush[f].counts \in [Articles -> Nat]
    BY DEF Flush
  <2>5. OverInv'
    BY <2>1, <2>3, <2>4 DEF OverInv
  <2>6. UnderInv'
    BY <2>1, <2>3, <2>4 DEF UnderInv, Doomed
  <2> QED
    BY <2>2, <2>5, <2>6
<1>3. ASSUME NEW p \in Procs, IncrementView(p)
      PROVE  Bounds'
  <2>1. req[p].a \in Articles /\ UNCHANGED <<flush, view, redo, late>>
    BY <1>3 DEF IncrementView, Request
  <2>2. ReadOnly' /\ Disjoint'
    BY <2>1 DEF ReadOnly, Disjoint
  <2>3. OverInv'
    BY <1>3, <2>1 DEF OverInv, IncrementView, CountView, Flush
  <2>4. UnderInv'
    BY <1>3, <2>1 DEF UnderInv, IncrementView, CountView, Flush
  <2> QED
    BY <2>2, <2>3, <2>4
<1>4. CASE Tick
  <2>1. flush'["ticker"].pc = "scan"
    BY <1>4 DEF Tick, Proceed, Flushers
  <2> QED
    BY <1>4, <2>1, Harmless DEF Tick, Proceed, Flushers
<1>5. CASE Stop
  <2>1. flush'["final"].pc = "scan" /\ flush["final"].pc = "idle"
    BY <1>5 DEF Stop, Proceed, Flushers, FinalOnce
  <2> QED
    BY <1>5, <2>1, Harmless DEF Stop, Proceed, Flushers
<1>6. ASSUME NEW f \in Flushers, ScanAll(f) PROVE Bounds'
  <2>1. flush'[f].pc \in {"idle", "mget"}
    BY <1>6 DEF ScanAll, Proceed, Return, NoFlush
  <2> QED
    BY <1>6, <2>1, Harmless DEF ScanAll, Proceed, Return
<1>7. ASSUME NEW f \in Flushers, FlushFails(f) PROVE Bounds'
  <2>1. flush'[f].pc = "idle"
    BY <1>7 DEF FlushFails, Return, NoFlush
  <2> QED
    BY <1>7, <2>1, Harmless DEF FlushFails, Return
<1>8. ASSUME NEW f \in Flushers, MGet(f) PROVE Bounds'
  <2>1. CASE Return(f)
    <3>1. flush'[f].pc = "idle"
      BY <2>1 DEF Return, NoFlush
    <3> QED
      BY <1>8, <2>1, <3>1, Harmless DEF MGet, Return
  <2>2. CASE ~Return(f)
    <3> DEFINE keys == flush[f].keys
    <3>1. /\ flush'[f].pc = "update" /\ flush'[f].keys = keys
          /\ \A a \in Articles : flush'[f].counts[a] = IF a \in keys THEN view[a] ELSE 0
          /\ \A g \in Flushers \ {f} : flush'[g] = flush[g]
          /\ UNCHANGED <<view, db, counted, late>>
      BY <1>8, <2>2 DEF MGet, Proceed
    <3>2. redo' = 0 => redo = 0 /\ \A a \in keys : ~Doomed(a)
      BY <1>8 DEF MGet
    <3>3. ReadOnly'
      BY <3>1 DEF ReadOnly
    <3>4. Disjoint'
      BY <3>1, <3>2 DEF Disjoint, Doomed
    <3>5. OverInv'
      BY <3>1, <3>2 DEF OverInv, Doomed
    <3>6. UnderInv'
      BY <3>1 DEF UnderInv
    <3> QED
      BY <3>3, <3>4, <3>5, <3>6
  <2> QED
    BY <2>1, <2>2
<1>9. ASSUME NEW f \in Flushers, FlushUpdate(f) PROVE Bounds'
  <2>1. /\ flush[f].pc = "update" /\ flush'[f].pc = "delete"
        /\ flush'[f].keys = flush[f].keys /\ flush'[f].counts = flush[f].counts
        /\ flush[f].counts \in [Articles -> Nat]
        /\ \A g \in Flushers \ {f} : flush'[g] = flush[g]
        /\ \A a \in Articles : db'[a] = db[a] + flush[f].counts[a]
        /\ UNCHANGED <<view, counted, late, redo>>
    BY <1>9 DEF FlushUpdate, Proceed, AddCounts, Flush
  <2>2. ReadOnly' /\ Disjoint'
    BY <2>1 DEF ReadOnly, Disjoint
  <2>3. OverInv'
    <3> SUFFICES ASSUME redo = 0, NEW a \in Articles
                 PROVE  /\ db'[a] <= counted[a]
                        /\ (\A g \in Flushers : ~Clears(g, a)') => db'[a] + view[a] <= counted[a]
                        /\ \A g \in Flushers :
                             /\ Reads(g, a)' => db'[a] + flush'[g].counts[a] <= counted[a]
                             /\ Clears(g, a)' => db'[a] + view[a] <= counted[a] + flush'[g].counts[a]
      BY <2>1 DEF OverInv
    <3>1. CASE a \in flush[f].keys
      <4>1. \A g \in Flushers \ {f} : ~Reads(g, a) /\ ~Clears(g, a)
        BY <2>1, <3>1 DEF Disjoint
      <4> QED
        BY <2>1, <3>1, <4>1 DEF OverInv
    <3>2. CASE a \notin flush[f].keys
      <4>1. db'[a] = db[a]
        BY <2>1, <3>2 DEF ReadOnly
      <4> QED
        BY <2>1, <3>2, <4>1 DEF OverInv
    <3> QED
      BY <3>1, <3>2
  <2>4. UnderInv'
    BY <2>1 DEF UnderInv, Flush
  <2> QED
    BY <2>2, <2>3, <2>4
<1>10. ASSUME NEW f \in Flushers, NEW a \in Articles, AfterDelete(f, a), flush[f].pc = "delete",
              a \in flush[f].keys
       PROVE  /\ \A b \in Articles : ~Reads(f, b)' /\ (Clears(f, b)' <=> Clears(f, b) /\ b # a)
              /\ \A b \in Articles : Clears(f, b)' => flush'[f].counts = flush[f].counts
              /\ flush'[f].pc # "update"
              /\ \A g \in Flushers \ {f} : flush'[g] = flush[g]
  BY <1>10 DEF AfterDelete, Return, Proceed, NoFlush, NoCounts
<1>11. ASSUME NEW f \in Flushers, NEW a \in Articles, DeleteKey(f, a) PROVE Bounds'
  <2>1. /\ \A b \in Articles : ~Reads(f, b)' /\ (Clears(f, b)' <=> Clears(f, b) /\ b # a)
        /\ \A b \in Articles : Clears(f, b)' => flush'[f].counts = flush[f].counts
        /\ flush'[f].pc # "update"
        /\ \A g \in Flushers \ {f} : flush'[g] = flush[g]
    BY <1>10, <1>11 DEF DeleteKey
  <2>2. /\ UNCHANGED <<db, counted, late, redo>> /\ view' = [view EXCEPT ![a] = 0]
        /\ Clears(f, a)
    BY <1>11 DEF DeleteKey
  <2>3. ReadOnly'
    BY <2>1 DEF ReadOnly
  <2>4. Disjoint'
    BY <2>1, <2>2 DEF Disjoint
  <2>5. OverInv'
    <3> SUFFICES ASSUME redo = 0, NEW b \in Articles
                 PROVE  /\ db[b] <= counted[b]
                        /\ (\A g \in Flushers : ~Clears(g, b)') => db[b] + view'[b] <= counted[b]
                        /\ \A g \in Flushers :
                             /\ Reads(g, b)' => db[b] + flush'[g].counts[b] <= counted[b]
                             /\ Clears(g, b)' => db[b] + view'[b] <= counted[b] + flush'[g].counts[b]
      BY <2>2 DEF OverInv
    <3>1. \A g \in Flushers : /\ Reads(g, b)' => Reads(g, b) /\ flush'[g] = flush[g]
                              /\ Clears(g, b)' => Clears(g, b) /\ flush'[g].counts = flush[g].counts
      BY <2>1
    <3>2. \A g \in Flushers : flush[g].counts[b] \in Nat
      BY DEF Flush
    <3>3. CASE b = a
      <4>1. view'[b] = 0
        BY <2>2, <3>3
      <4> QED
        BY <3>1, <3>2, <4>1 DEF OverInv
    <3>4. CASE b # a
      <4>1. view'[b] = view[b] /\ \A g \in Flushers : Clears(g, b)' <=> Clears(g, b)
        BY <2>1, <2>2, <3>4
      <4> QED
        BY <3>1, <4>1 DEF OverInv
    <3> QED
      BY <3>3, <3>4
  <2>6. UnderInv'
    BY <2>1, <2>2 DEF UnderInv
  <2> QED
    BY <2>3, <2>4, <2>5, <2>6
<1>12. ASSUME NEW f \in Flushers, NEW a \in Articles, DeleteFails(f, a) PROVE Bounds'
  <2>1. /\ \A b \in Articles : ~Reads(f, b)' /\ (Clears(f, b)' <=> Clears(f, b) /\ b # a)
        /\ \A b \in Articles : Clears(f, b)' => flush'[f].counts = flush[f].counts
        /\ flush'[f].pc # "update"
        /\ \A g \in Flushers \ {f} : flush'[g] = flush[g]
    BY <1>10, <1>12 DEF DeleteFails
  <2>2. UNCHANGED <<view, db, counted, late>> /\ redo' = 1
    BY <1>12 DEF DeleteFails
  <2>3. ReadOnly' /\ Disjoint' /\ OverInv'
    BY <2>1, <2>2 DEF ReadOnly, Disjoint, OverInv
  <2>4. UnderInv'
    BY <2>1, <2>2 DEF UnderInv
  <2> QED
    BY <2>3, <2>4
<1>13. ASSUME NEW a \in Articles, Expired(a) PROVE Bounds'
  <2>1. /\ UNCHANGED <<flush, db, counted, redo>> /\ view' = [view EXCEPT ![a] = 0]
        /\ late' = [late EXCEPT ![a] = @ + view[a]]
    BY <1>13 DEF Expired
  <2>2. ReadOnly' /\ Disjoint'
    BY <2>1 DEF ReadOnly, Disjoint
  <2>3. OverInv'
    BY <2>1 DEF OverInv, Flush
  <2>4. UnderInv'
    BY <2>1 DEF UnderInv, Flush
  <2> QED
    BY <2>2, <2>3, <2>4
<1>14. CASE Exit \/ Crash
  <2>1. /\ UNCHANGED <<view, db, counted, late>>
        /\ redo' = 0 => redo = 0 /\ \A f \in Flushers : flush[f].pc # "delete"
        /\ \A f \in Flushers : flush'[f].pc = "idle"
    BY <1>14 DEF Exit, Crash, Reboot, NoFlush
  <2> QED
    BY <2>1 DEF ReadOnly, Disjoint, OverInv, UnderInv
<1>15. ASSUME NEW p \in Procs, Expire(p) \/ IncrFails(p) \/ IncrementViewFails(p) PROVE Quiet
  BY <1>15 DEF Expire, IncrFails, IncrementViewFails, Quiet
<1>16. ASSUME NEW p \in Procs, NEW a \in Articles, NEW ip \in IPs,
              ViewArticle(p, a, ip) \/ ViewArticleFallback(p, a, ip)
       PROVE  Quiet
  BY <1>16 DEF ViewArticle, ViewArticleFallback, Quiet
<1>17. ASSUME NEW k \in Articles \X IPs, WindowEnds(k) PROVE Quiet
  BY <1>17 DEF WindowEnds, Quiet
<1>18. CASE UNCHANGED vars
  BY <1>1, <1>18 DEF Quiet
<1> QED
  BY <1>1, <1>2, <1>3, <1>4, <1>5, <1>6, <1>7, <1>8, <1>9, <1>11, <1>12, <1>13, <1>14,
     <1>15, <1>16, <1>17, <1>18
     DEF Next, Requests, Flushing

\* The final flush starts with the stop and is gone when the process restarts.
LEMMA FinalStep == TypeOK /\ FinalOnce /\ [Next]_vars => FinalOnce'
<1> SUFFICES ASSUME TypeOK, FinalOnce, [Next]_vars PROVE FinalOnce'
  OBVIOUS
<1> USE DEF TypeOK, FinalOnce, redis, history, vars, Flushers, Proceed, Return
<1>1. CASE Tick
  BY <1>1 DEF Tick
<1>2. CASE Stop
  BY <1>2 DEF Stop
<1>3. CASE Exit \/ Crash
  BY <1>3 DEF Exit, Crash, Reboot, NoFlush
<1>4. ASSUME NEW f \in Flushers, Flushing(f) \/ FlushFails(f) \/ (\E a \in Articles : DeleteFails(f, a))
      PROVE  FinalOnce'
  <2>1. stopping' = stopping /\ flush[f].pc # "idle"
    BY <1>4 DEF Flushing, ScanAll, MGet, FlushUpdate, DeleteKey, FlushFails, DeleteFails
  <2>2. \A g \in Flushers \ {f} : flush'[g] = flush[g]
    BY <1>4 DEF Flushing, ScanAll, MGet, FlushUpdate, DeleteKey, FlushFails, DeleteFails, AfterDelete
  <2> QED
    BY <2>1, <2>2
<1>5. CASE UNCHANGED <<flush, stopping>>
  BY <1>5
<1>6. CASE \E p \in Procs : Requests(p) \/ IncrFails(p) \/ IncrementViewFails(p)
  BY <1>5, <1>6 DEF Requests, Incr, Expire, IncrementView, IncrFails, IncrementViewFails
<1>7. CASE \E p \in Procs, a \in Articles, ip \in IPs :
             ViewArticle(p, a, ip) \/ ViewArticleFallback(p, a, ip)
  BY <1>5, <1>7 DEF ViewArticle, ViewArticleFallback
<1>8. CASE \E a \in Articles : Expired(a)
  BY <1>5, <1>8 DEF Expired
<1>9. CASE \E k \in Articles \X IPs : WindowEnds(k)
  BY <1>5, <1>9 DEF WindowEnds
<1> QED
  BY <1>1, <1>2, <1>3, <1>4, <1>5, <1>6, <1>7, <1>8, <1>9 DEF Next

\* The strengthened invariant holds in every reachable state.
THEOREM Inductive == Spec => []IInv
<1>1. IInv /\ [Next]_vars => IInv'
  BY TypeStep, BoundStep, FinalStep DEF IInv
<1> QED
  BY InductiveInit, <1>1, PTL DEF Spec

\* Types: every variable of the view counter keeps its type.
THEOREM TypeCorrect == Spec => []TypeOK
BY Inductive, PTL DEF IInv

\* view_count never runs ahead of the counted views, for any number of concurrent
\* requests, unless flushes overlapped or a flush was cut off before its DELs.
THEOREM NeverOvercounts == Spec => []NoOvercount
<1>1. IInv => NoOvercount
  BY DEF IInv, Bounds, OverInv, NoOvercount
<1> QED
  BY Inductive, <1>1, PTL

\* A counted view is in the database or in Redis, unless it arrived between the
\* MGet and the DEL of a flush or its key expired: crashes, failed and overlapping
\* flushes lose none.
THEOREM NeverUndercounts == Spec => []NoUndercount
<1>1. IInv => NoUndercount
  BY DEF IInv, Bounds, UnderInv, NoUndercount
<1> QED
  BY Inductive, <1>1, PTL
-----------------------------------------------------------------------------
(* The dedup window.                                                       *)

\* The requests that hold a right to count a view of k.
Pending(k) == {p \in Procs : req[p].pc \in {"incr", "db"} /\ <<req[p].a, req[p].ip>> = k}

\* What one request or one row adds to a count.
Bit(b) == IF b THEN 1 ELSE 0

\* Rights that were used, are held, or can still be granted in this window.
WindowInv ==
    \A k \in Articles \X IPs :
        seen[k] + Cardinality(Pending(k)) + Bit(k \notin dedup) <= slots[k]

\* One request moves Pending(k) by at most itself.
LEMMA PendingChange ==
    ASSUME NEW p \in Procs, NEW k, \A o \in Procs \ {p} : req'[o] = req[o]
    PROVE  /\ Cardinality(Pending(k)) \in Nat
           /\ Cardinality(Pending(k)') = Cardinality(Pending(k))
                 + Bit(p \in Pending(k)') - Bit(p \in Pending(k))
<1> DEFINE T == Pending(k)
           U == Pending(k)'
<1>1. T \in SUBSET Procs /\ U \in SUBSET Procs
  BY DEF Pending
<1>2. \A o \in Procs \ {p} : o \in T <=> o \in U
  BY DEF Pending
<1> HIDE DEF T, U
<1>3. IsFiniteSet(T) /\ IsFiniteSet(U) /\ Cardinality(T) \in Nat /\ Cardinality(U) \in Nat
  BY <1>1, FS_Subset, FS_CardinalityType, ConstantsAssumption
<1>4. T = U \/ (p \notin T /\ U = T \cup {p}) \/ (p \notin U /\ T = U \cup {p})
  BY <1>1, <1>2
<1>5. Cardinality(U) = Cardinality(T) + Bit(p \in U) - Bit(p \in T)
  BY <1>3, <1>4, FS_AddElement DEF Bit
<1> QED
  BY <1>3, <1>5 DEF T, U

\* A step that moves no request, no window and no count of views.
LEMMA WindowQuiet ==
    ASSUME WindowInv, UNCHANGED <<req, dedup, seen, slots>>
    PROVE  WindowInv'
BY DEF WindowInv, Pending

\* Every step keeps the rights in balance.
LEMMA WindowStep == TypeOK /\ WindowInv /\ [Next]_vars => WindowInv'
<1> SUFFICES ASSUME TypeOK, WindowInv, [Next]_vars PROVE WindowInv'
  OBVIOUS
<1> USE DEF TypeOK, redis, history, vars
<1>1. ASSUME NEW p \in Procs, NEW a \in Articles, NEW ip \in IPs, ViewArticle(p, a, ip)
      PROVE  WindowInv'
  <2>1. CASE Grant(<<a, ip>>)
    <3>1. \A o \in Procs \ {p} : req'[o] = req[o]
      BY <1>1, <2>1 DEF ViewArticle
    <3> SUFFICES ASSUME NEW k \in Articles \X IPs
                 PROVE  seen[k] + Cardinality(Pending(k)') + Bit(k \notin dedup') <= slots[k]
      BY <1>1 DEF ViewArticle, WindowInv
    <3>2. p \notin Pending(k) /\ (p \in Pending(k)' <=> k = <<a, ip>>)
      BY <1>1, <2>1 DEF ViewArticle, Pending
    <3>3. k \notin dedup' <=> k \notin dedup /\ k # <<a, ip>>
      BY <1>1, <2>1 DEF ViewArticle
    <3>4. k = <<a, ip>> => k \notin dedup
      BY <2>1 DEF Grant
    <3> QED
      BY <3>1, <3>2, <3>3, <3>4, PendingChange DEF WindowInv, Bit
  <2>2. CASE ~Grant(<<a, ip>>)
    BY <1>1, <2>2, WindowQuiet DEF ViewArticle
  <2> QED
    BY <2>1, <2>2
<1>2. ASSUME NEW p \in Procs, NEW a \in Articles, NEW ip \in IPs, ViewArticleFallback(p, a, ip)
      PROVE  WindowInv'
  <2> SUFFICES ASSUME NEW k \in Articles \X IPs
               PROVE  seen[k] + Cardinality(Pending(k)') + Bit(k \notin dedup) <= slots'[k]
    BY <1>2 DEF ViewArticleFallback, WindowInv
  <2>1. \A o \in Procs \ {p} : req'[o] = req[o]
    BY <1>2 DEF ViewArticleFallback
  <2>2. p \notin Pending(k) /\ (p \in Pending(k)' <=> k = <<a, ip>>)
    BY <1>2 DEF ViewArticleFallback, Pending
  <2>3. slots'[k] = slots[k] + Bit(k = <<a, ip>>)
    BY <1>2 DEF ViewArticleFallback, Bit
  <2> QED
    BY <2>1, <2>2, <2>3, PendingChange DEF WindowInv, Bit
<1>3. ASSUME NEW p \in Procs, Incr(p) \/ IncrementView(p) PROVE WindowInv'
  <2> SUFFICES ASSUME NEW k \in Articles \X IPs
               PROVE  seen'[k] + Cardinality(Pending(k)') + Bit(k \notin dedup) <= slots[k]
    BY <1>3 DEF Incr, IncrementView, WindowInv
  <2>1. \A o \in Procs \ {p} : req'[o] = req[o]
    BY <1>3 DEF Incr, IncrementView, Continue
  <2>2. /\ req'[p].pc \in {"expire", "idle"} /\ req[p].pc \in {"incr", "db"}
        /\ req[p].a \in Articles /\ req[p].ip \in IPs
    BY <1>3 DEF Incr, IncrementView, Continue, NoRequest, Request
  <2>3. p \notin Pending(k)' /\ (p \in Pending(k) <=> k = <<req[p].a, req[p].ip>>)
    BY <2>2 DEF Pending
  <2>4. seen'[k] = seen[k] + Bit(k = <<req[p].a, req[p].ip>>)
    <3> DEFINE m == <<req[p].a, req[p].ip>>
    <3>1. m \in Articles \X IPs
      BY <2>2
    <3>2. seen' = [seen EXCEPT ![m] = @ + 1]
      BY <1>3 DEF Incr, IncrementView, CountView
    <3> HIDE DEF m
    <3>3. seen'[k] = seen[k] + Bit(k = m)
      BY <3>1, <3>2 DEF Bit
    <3> QED
      BY <3>3 DEF m
  <2> QED
    BY <2>1, <2>3, <2>4, PendingChange DEF WindowInv, Bit
<1>4. ASSUME NEW p \in Procs, Expire(p) \/ IncrFails(p) \/ IncrementViewFails(p)
      PROVE  WindowInv'
  <2> SUFFICES ASSUME NEW k \in Articles \X IPs
               PROVE  seen[k] + Cardinality(Pending(k)') + Bit(k \notin dedup) <= slots[k]
    BY <1>4 DEF Expire, IncrFails, IncrementViewFails, WindowInv
  <2>1. \A o \in Procs \ {p} : req'[o] = req[o]
    BY <1>4 DEF Expire, IncrFails, IncrementViewFails, Continue
  <2>2. p \in Pending(k)' => p \in Pending(k)
    BY <1>4 DEF Expire, IncrFails, IncrementViewFails, Continue, NoRequest, Pending
  <2> QED
    BY <2>1, <2>2, PendingChange DEF WindowInv, Bit
<1>5. ASSUME NEW e \in Articles \X IPs, WindowEnds(e) PROVE WindowInv'
  <2> SUFFICES ASSUME NEW k \in Articles \X IPs
               PROVE  seen[k] + Cardinality(Pending(k)) + Bit(k \notin dedup') <= slots'[k]
    BY <1>5 DEF WindowEnds, WindowInv, Pending
  <2>1. slots'[k] = slots[k] + Bit(k = e) /\ (k \notin dedup' <=> k \notin dedup \/ k = e)
    BY <1>5 DEF WindowEnds, Bit
  <2>2. e \in dedup /\ Cardinality(Pending(k)) \in Nat
    <3>1. Pending(k) \in SUBSET Procs
      BY DEF Pending
    <3> QED
      BY <1>5, <3>1, FS_Subset, FS_CardinalityType, ConstantsAssumption DEF WindowEnds
  <2> QED
    BY <2>1, <2>2 DEF WindowInv, Bit
<1>6. CASE Exit \/ Crash
  <2> SUFFICES ASSUME NEW k \in Articles \X IPs
               PROVE  seen[k] + Cardinality(Pending(k)') + Bit(k \notin dedup) <= slots[k]
    BY <1>6 DEF Exit, Crash, Reboot, WindowInv
  <2>1. Pending(k)' = {}
    BY <1>6 DEF Exit, Crash, Reboot, NoRequest, Pending
  <2>2. Cardinality(Pending(k)') = 0
    BY <2>1, FS_EmptySet
  <2>3. Cardinality(Pending(k)) \in Nat
    <3>1. Pending(k) \in SUBSET Procs
      BY DEF Pending
    <3> QED
      BY <3>1, FS_Subset, FS_CardinalityType, ConstantsAssumption
  <2> QED
    BY <2>2, <2>3 DEF WindowInv, Bit
<1>7. CASE Tick \/ Stop \/ (\E a \in Articles : Expired(a)) \/ UNCHANGED vars
  BY <1>7, WindowQuiet DEF Tick, Stop, Expired
<1>8. ASSUME NEW f \in Flushers, Flushing(f) \/ FlushFails(f) \/ (\E a \in Articles : DeleteFails(f, a))
      PROVE  WindowInv'
  BY <1>8, WindowQuiet
     DEF Flushing, ScanAll, MGet, FlushUpdate, DeleteKey, FlushFails, DeleteFails
<1> QED
  BY <1>1, <1>2, <1>3, <1>4, <1>5, <1>6, <1>7, <1>8 DEF Next, Requests

\* An IP is counted once per article and dedup window, plus once per failed SETNX,
\* for any number of concurrent requests.
THEOREM CountedOncePerWindow == Spec => []OncePerWindow
<1>1. Init => WindowInv
  <2> SUFFICES ASSUME Init, NEW k \in Articles \X IPs
               PROVE  seen[k] + Cardinality(Pending(k)) + Bit(k \notin dedup) <= slots[k]
    BY DEF WindowInv
  <2>1. Pending(k) = {}
    BY DEF Init, NoRequest, Pending
  <2>2. Cardinality(Pending(k)) = 0
    BY <2>1, FS_EmptySet
  <2> QED
    BY <2>1, <2>2 DEF Init, Bit
<1>2. TypeOK /\ WindowInv => OncePerWindow
  <2> SUFFICES ASSUME TypeOK, WindowInv, NEW k \in Articles \X IPs PROVE seen[k] <= slots[k]
    BY DEF OncePerWindow
  <2>1. Pending(k) \in SUBSET Procs
    BY DEF Pending
  <2>2. Cardinality(Pending(k)) \in Nat
    BY <2>1, FS_Subset, FS_CardinalityType, ConstantsAssumption
  <2> QED
    BY <2>2 DEF WindowInv, TypeOK, Bit
<1> QED
  BY <1>1, <1>2, WindowStep, TypeCorrect, PTL DEF Spec
-----------------------------------------------------------------------------
(* Finding articles by their slugs.  The invariant says, for every handler, *)
(* what it still knows at the place where it is: what the SELECT found is   *)
(* what the table holds (Found) until a write overtakes it, and a handler   *)
(* that nothing overtook or misled is right about its slug (Trusted).       *)

Places == Lookups \cup {"idle", "reply", "insert", "old", "write", "select", "delete",
                        "evictOld", "evict"}
ReqRec == [pc: Places,
           op: {"none", "get", "create", "update", "delete"},
           a: Ids \cup {None}, t: Titles \cup {None}, i: 1..Tries,
           slug: Slugs \cup {None}, old: Slugs \cup {None}, pub: 0..1,
           got: Ids \cup {None}, who: Readers, late: 0..1, over: 0..1]

Known(a) == a \in Ids /\ row[a].state # "absent"
Found(s, x) == Holders(s) = IF x = None THEN {} ELSE {x}

\* What a handler holds at each place.
Shape(q) ==
    /\ q \in ReqRec
    /\ q.pc \in Lookups => /\ q.slug \in Slugs /\ q.op \in {"get", "create", "update"}
                           /\ q.op # "get" => q.t \in Titles
    /\ q.pc = "byid" => Known(q.got)
    /\ q.pc = "fill" /\ q.got # None => Known(q.got)
    /\ q.pc = "insert" => q.op = "create" /\ q.slug \in Slugs
    /\ q.pc = "reply" => q.op = "get" /\ q.slug \in Slugs
    /\ q.pc \in {"old", "write"} => q.op = "update" /\ q.slug \in Slugs
    /\ q.pc \in {"select", "delete"} => q.op = "delete"
    /\ q.pc \in {"delete", "evict", "evictOld"} => q.slug \in Slugs
    /\ q.pc \in {"select", "delete"} => q.old = None
    /\ q.pc = "evictOld" => q.old \in Slugs
    /\ q.op \in {"update", "delete"} => Known(q.a)

\* What a lookup that nothing has overtaken or misled knows.
Trusted(q) ==
    /\ q.pc = "fill" => q.over = 0
    /\ q.pc = "byid" /\ q.got \in Live => row[q.got].slug = q.slug
    /\ q.pc = "insert" => Holders(q.slug) = {}
    /\ q.op = "get" /\ q.pc \in Lookups => Alias[q.slug] \notin Live
    /\ q.op = "get" /\ q.pc = "fill" => (q.pub = 1 <=> Sees(q, q.got))
    /\ q.pc = "reply" => q.got = Expected(q.slug, q.who)

Sound(q) ==
    /\ q.pc = "fill" /\ q.over = 0 => Found(q.slug, q.got)
    /\ q.op \in {"get", "create"} /\ q.late = 0 => Trusted(q)

\* Live rows have slugs, no two the same.
Unique ==
    /\ \A a \in Live : row[a].slug \in Slugs
    /\ \A a, b \in Live : row[a].slug = row[b].slug => a = b

SlugIInv ==
    /\ SlugTypeOK
    /\ Unique
    /\ \A s \in Slugs : cache[s] \in Ids => Known(cache[s])
    /\ \A p \in Handlers : Shape(call[p]) /\ Sound(call[p])
    /\ \A s \in Slugs : Misleads(s) => Excused(s)
-----------------------------------------------------------------------------
(* Slugs and their holders.                                                *)

\* The unique index covers the live rows, on either database.
LEMMA Covered ==
    \A s : /\ Holders(s) \subseteq Entries(s)
           /\ \A a \in Entries(s) : a \notin Holders(s) => row[a].state = "deleted"
BY SlugAssumption DEF Holders, Entries, Live

LEMMA HolderFound ==
    ASSUME Unique, NEW s \in Slugs
    PROVE  /\ Found(s, Holder(s)) /\ Holder(s) \in Ids \cup {None}
           /\ \A x \in Ids \cup {None} : Found(s, x) => Holder(s) = x
           /\ Holder(s) # None => Holder(s) \in Live /\ row[Holder(s)].slug = s
<1>1. \A a \in Holders(s) : a \in Ids /\ a \in Live /\ row[a].slug = s
  BY DEF Holders, Live
<1>2. \A a, b \in Holders(s) : a = b
  BY <1>1 DEF Unique
<1>3. None \notin Ids
  BY SlugAssumption
<1>4. CASE Holders(s) = {}
  BY <1>3, <1>4 DEF Holder, Found
<1>5. CASE Holders(s) # {}
  <2>1. PICK h : h = Holder(s) /\ h \in Holders(s)
    BY <1>5 DEF Holder
  <2>2. Holders(s) = {h} /\ h # None
    BY <1>1, <1>2, <1>3, <2>1
  <2> QED
    BY <1>1, <2>1, <2>2 DEF Found
<1> QED
  BY <1>4, <1>5

\* A field set to a value of its type.
LEMMA SetPc == \A r \in ReqRec, v \in Places : [r EXCEPT !.pc = v] \in ReqRec
  BY DEF ReqRec

LEMMA SetI == \A r \in ReqRec, v \in 1..Tries : [r EXCEPT !.i = v] \in ReqRec
  BY DEF ReqRec

LEMMA SetT == \A r \in ReqRec, v \in Titles \cup {None} : [r EXCEPT !.t = v] \in ReqRec
  BY DEF ReqRec

LEMMA SetSlug == \A r \in ReqRec, v \in Slugs \cup {None} : [r EXCEPT !.slug = v] \in ReqRec
  BY DEF ReqRec

LEMMA SetOld == \A r \in ReqRec, v \in Slugs \cup {None} : [r EXCEPT !.old = v] \in ReqRec
  BY DEF ReqRec

LEMMA SetPub == \A r \in ReqRec, v \in {0, 1} : [r EXCEPT !.pub = v] \in ReqRec
  BY DEF ReqRec

LEMMA SetGot == \A r \in ReqRec, v \in Ids \cup {None} : [r EXCEPT !.got = v] \in ReqRec
  BY DEF ReqRec

LEMMA SetLate == \A r \in ReqRec, v \in {0, 1} : [r EXCEPT !.late = v] \in ReqRec
  BY DEF ReqRec

LEMMA SetOver == \A r \in ReqRec, v \in {0, 1} : [r EXCEPT !.over = v] \in ReqRec
  BY DEF ReqRec

LEMMA IdleOK ==
    /\ Idle \in ReqRec /\ Idle.pc = "idle" /\ Idle.op = "none"
    /\ Idle.slug = None /\ Idle.old = None
  BY SlugAssumption DEF Idle, ReqRec, Places

LEMMA IdleSound ==
    Shape(Idle) /\ Sound(Idle) /\ Shape(Idle)' /\ Sound(Idle)' /\ \A s \in Slugs : ~ Evicts(Idle, s)
  BY IdleOK DEF Shape, Sound, Evicts, Lookups

LEMMA SlugsAre == \A t \in Titles, i \in 1..Tries : <<t, i>> \in Slugs
  BY DEF Slugs
-----------------------------------------------------------------------------
(* What becomes of a handler that a write overtakes.                       *)

Same(t, r) ==
    /\ t \in ReqRec /\ t.pc = r.pc /\ t.op = r.op /\ t.a = r.a /\ t.t = r.t /\ t.i = r.i
    /\ t.slug = r.slug /\ t.old = r.old /\ t.pub = r.pub /\ t.got = r.got /\ t.who = r.who

Overtaken(t, r) ==
    Same(t, r) /\ (r.op \in {"get", "create"} => t.late = 1) /\ (r.pc = "fill" => t.over = 1)

LEMMA Overtaking ==
    ASSUME NEW r \in ReqRec
    PROVE  Overtaken([r EXCEPT !.late = IF r.op \in {"get", "create"} THEN 1 ELSE @,
                               !.over = IF r.pc = "fill" THEN 1 ELSE @], r)
<1>1. PICK t : t = [r EXCEPT !.late = IF r.op \in {"get", "create"} THEN 1 ELSE @,
                             !.over = IF r.pc = "fill" THEN 1 ELSE @]
  OBVIOUS
<1>2. t \in ReqRec
  <2>1. PICK l \in {0, 1} : l = IF r.op \in {"get", "create"} THEN 1 ELSE r.late
    BY DEF ReqRec
  <2>2. PICK v \in {0, 1} : v = IF r.pc = "fill" THEN 1 ELSE r.over
    BY DEF ReqRec
  <2>3. [r EXCEPT !.late = l] \in ReqRec
    BY SetLate
  <2>4. [[r EXCEPT !.late = l] EXCEPT !.over = v] \in ReqRec
    BY <2>3, SetOver
  <2> QED
    BY <1>1, <2>1, <2>2, <2>4
<1>3. /\ t.pc = r.pc /\ t.op = r.op /\ t.a = r.a /\ t.t = r.t /\ t.i = r.i
      /\ t.slug = r.slug /\ t.old = r.old /\ t.pub = r.pub /\ t.got = r.got /\ t.who = r.who
      /\ (r.op \in {"get", "create"} => t.late = 1) /\ (r.pc = "fill" => t.over = 1)
  BY <1>1 DEF ReqRec
<1> QED
  BY <1>1, <1>2, <1>3 DEF Overtaken, Same

Touched(r, a, S) == r.slug # None /\ (r.slug \in S \/ Alias[r.slug] = a)

LEMMA TouchFacts ==
    ASSUME SlugIInv, NEW p \in Handlers, NEW q \in ReqRec, NEW a, NEW S, Touch(p, q, a, S)
    PROVE  /\ call' \in [Handlers -> ReqRec] /\ call'[p] = q
           /\ \A o \in Handlers \ {p} : IF Touched(call[o], a, S) THEN Overtaken(call'[o], call[o])
                                     ELSE call'[o] = call[o]
<1>1. call \in [Handlers -> ReqRec]
  BY DEF SlugIInv, SlugTypeOK, ReqRec, Places
<1>2. \A o \in Handlers : call'[o] = IF o = p THEN q
                        ELSE IF Touched(call[o], a, S)
                        THEN [call[o] EXCEPT !.late = IF call[o].op \in {"get", "create"} THEN 1 ELSE @,
                                            !.over = IF call[o].pc = "fill" THEN 1 ELSE @]
                        ELSE call[o]
  BY DEF Touch, Touched
<1>3. \A o \in Handlers \ {p} : IF Touched(call[o], a, S) THEN Overtaken(call'[o], call[o])
                             ELSE call'[o] = call[o]
  BY <1>1, <1>2, Overtaking
<1>4. \A o \in Handlers : call'[o] \in ReqRec
  BY <1>1, <1>2, <1>3 DEF Overtaken, Same
<1>5. call' = [o \in Handlers |-> call'[o]]
  BY DEF Touch
<1> QED
  BY <1>2, <1>3, <1>4, <1>5
-----------------------------------------------------------------------------
(* What FindBySlug's answer makes of a handler.                            *)

\* c is where Conclude(q, x, sees) leads.
Concluded(c, q, x, sees) ==
    /\ c \in ReqRec
    /\ q.op = "get" => /\ c.pc = "reply" /\ c.op = "get" /\ c.slug = q.slug /\ c.who = q.who
                       /\ c.late = q.late /\ c.got = IF sees THEN x ELSE None
    /\ q.op # "get" /\ x # None =>
          \/ c = Idle
          \/ c.pc = "cache" /\ c.op = q.op /\ c.t \in Titles /\ c.a = q.a /\ c.slug \in Slugs
    /\ q.op # "get" /\ x = None =>
          /\ c.pc = IF q.op = "create" THEN "insert" ELSE "old"
          /\ c.op = q.op /\ c.a = q.a /\ c.slug = q.slug /\ c.late = q.late

LEMMA NextCandidateFacts ==
    ASSUME NEW r \in ReqRec, r.t \in Titles
    PROVE  LET c == NextCandidate(r) IN
           /\ c \in ReqRec
           /\ \/ c = Idle
              \/ c.pc = "cache" /\ c.op = r.op /\ c.t \in Titles /\ c.a = r.a /\ c.slug \in Slugs
<1>1. CASE r.i = Tries
  BY <1>1, IdleOK DEF NextCandidate
<1>2. CASE r.i # Tries
  <2>1. PICK c : c = [r EXCEPT !.pc = "cache", !.i = r.i + 1, !.slug = <<r.t, r.i + 1>>, !.late = 0]
    OBVIOUS
  <2>2. c = NextCandidate(r)
    BY <1>2, <2>1 DEF NextCandidate
  <2>3. r.i + 1 \in 1..Tries
    BY <1>2, SlugAssumption DEF ReqRec
  <2>4. <<r.t, r.i + 1>> \in Slugs
    BY <2>3, SlugsAre
  <2>5. c \in ReqRec
    <3>1. [r EXCEPT !.pc = "cache"] \in ReqRec
      BY SetPc DEF Places, Lookups
    <3>2. [r EXCEPT !.pc = "cache", !.i = r.i + 1] \in ReqRec
      BY <2>3, <3>1, SetI
    <3>3. [r EXCEPT !.pc = "cache", !.i = r.i + 1, !.slug = <<r.t, r.i + 1>>] \in ReqRec
      BY <2>4, <3>2, SetSlug
    <3>4. [r EXCEPT !.pc = "cache", !.i = r.i + 1, !.slug = <<r.t, r.i + 1>>, !.late = 0] \in ReqRec
      BY <3>3, SetLate
    <3> QED
      BY <2>1, <3>4
  <2>6. c.pc = "cache" /\ c.op = r.op /\ c.t = r.t /\ c.a = r.a /\ c.slug = <<r.t, r.i + 1>>
    BY <2>1 DEF ReqRec
  <2> QED
    BY <2>2, <2>4, <2>5, <2>6
<1> QED
  BY <1>1, <1>2

LEMMA ConcludeFacts ==
    ASSUME NEW q \in ReqRec, q.op \in {"get", "create", "update"}, q.op # "get" => q.t \in Titles,
           NEW x \in Ids \cup {None}, NEW sees \in BOOLEAN
    PROVE  Concluded(Conclude(q, x, sees), q, x, sees)
<1>1. PICK r : r = [q EXCEPT !.over = 0, !.got = None]
  OBVIOUS
<1>2. r \in ReqRec
  <2>1. [q EXCEPT !.over = 0] \in ReqRec
    BY SetOver
  <2>2. [q EXCEPT !.over = 0, !.got = None] \in ReqRec
    BY <2>1, SetGot
  <2> QED
    BY <1>1, <2>2
<1>3. /\ r.op = q.op /\ r.a = q.a /\ r.t = q.t /\ r.slug = q.slug /\ r.who = q.who
      /\ r.late = q.late
  BY <1>1 DEF ReqRec
<1>4. CASE q.op = "get"
  <2>1. PICK c : c = [r EXCEPT !.pc = "reply", !.got = IF sees THEN x ELSE None, !.pub = 0]
    OBVIOUS
  <2>2. c = Conclude(q, x, sees)
    BY <1>1, <1>4, <2>1 DEF Conclude
  <2>3. c \in ReqRec
    <3>1. [r EXCEPT !.pc = "reply"] \in ReqRec
      BY <1>2, SetPc DEF Places
    <3>2. [r EXCEPT !.pc = "reply", !.got = IF sees THEN x ELSE None] \in ReqRec
      BY <3>1, SetGot
    <3>3. [r EXCEPT !.pc = "reply", !.got = IF sees THEN x ELSE None, !.pub = 0] \in ReqRec
      BY <3>2, SetPub
    <3> QED
      BY <2>1, <3>3
  <2>4. /\ c.pc = "reply" /\ c.op = r.op /\ c.slug = r.slug /\ c.who = r.who
        /\ c.late = r.late /\ c.got = IF sees THEN x ELSE None
    BY <1>2, <2>1 DEF ReqRec
  <2> QED
    BY <1>3, <1>4, <2>2, <2>3, <2>4 DEF Concluded
<1>5. CASE q.op # "get" /\ x # None
  <2>1. Conclude(q, x, sees) = NextCandidate(r)
    BY <1>1, <1>5 DEF Conclude
  <2> QED
    BY <1>2, <1>3, <1>5, <2>1, NextCandidateFacts DEF Concluded
<1>6. CASE q.op # "get" /\ x = None
  <2>1. PICK c : c = [r EXCEPT !.pc = IF q.op = "create" THEN "insert" ELSE "old",
                               !.t = None, !.i = 1]
    OBVIOUS
  <2>2. c = Conclude(q, x, sees)
    BY <1>1, <1>6, <2>1 DEF Conclude
  <2>3. 1 \in 1..Tries
    BY SlugAssumption
  <2>4. c \in ReqRec
    <3>1. PICK w : w = IF q.op = "create" THEN "insert" ELSE "old"
      OBVIOUS
    <3>2. [r EXCEPT !.pc = w] \in ReqRec
      BY <1>2, <3>1, SetPc DEF Places
    <3>3. [r EXCEPT !.pc = w, !.t = None] \in ReqRec
      BY <3>2, SetT
    <3>4. [r EXCEPT !.pc = w, !.t = None, !.i = 1] \in ReqRec
      BY <2>3, <3>3, SetI
    <3> QED
      BY <2>1, <3>1, <3>4
  <2>5. /\ c.pc = IF q.op = "create" THEN "insert" ELSE "old"
        /\ c.op = r.op /\ c.a = r.a /\ c.slug = r.slug /\ c.late = r.late
    BY <1>2, <2>1 DEF ReqRec
  <2> QED
    BY <1>3, <1>6, <2>2, <2>4, <2>5 DEF Concluded
<1> QED
  BY <1>4, <1>5, <1>6
-----------------------------------------------------------------------------
(* Steps that leave the table alone.                                       *)

Sizes == failures \in 0..MaxFailures /\ started \in 0..MaxRequests

LEMMA SameRows ==
    ASSUME Unique, UNCHANGED row
    PROVE  /\ Live' = Live /\ \A s : Holders(s)' = Holders(s) /\ Holder(s)' = Holder(s)
           /\ \A q : (Shape(q)' <=> Shape(q)) /\ (Sound(q)' <=> Sound(q))
<1>1. Live' = Live /\ \A s : Holders(s)' = Holders(s)
  BY DEF Live, Holders
<1>2. ASSUME NEW s PROVE Holder(s)' = Holder(s)
  <2>1. CASE Holders(s) = {}
    BY <1>1, <2>1 DEF Holder
  <2>2. CASE Holders(s) # {}
    <3>1. Holder(s) \in Holders(s)
      BY <2>2 DEF Holder
    <3>2. Holder(s)' \in Holders(s)'
      BY <1>1, <2>2 DEF Holder
    <3>3. \A a, b \in Holders(s) : a = b
      BY DEF Holders, Unique
    <3> QED
      BY <1>1, <3>1, <3>2, <3>3
  <2> QED
    BY <2>1, <2>2
<1>3. \A q : Shape(q)' <=> Shape(q)
  BY DEF Shape, Known
<1>4. \A a, w : Visible(a, w)' <=> Visible(a, w)
  BY DEF Visible
<1>5. \A s, w : Expected(s, w)' = Expected(s, w)
  BY <1>1, <1>2, <1>4 DEF Expected
<1>6. \A q : Trusted(q)' <=> Trusted(q)
  BY <1>1, <1>4, <1>5 DEF Trusted, Sees
<1>7. \A q : Sound(q)' <=> Sound(q)
  BY <1>1, <1>6 DEF Sound, Found
<1> QED
  BY <1>1, <1>2, <1>3, <1>7

LEMMA QuietStep ==
    ASSUME SlugIInv, NEW p \in Handlers, NEW q, Goto(p, q), UNCHANGED row, Shape(q), Sound(q), Sizes',
           cache' \in [Slugs -> Ids \cup {"none", "null"}], excuse' \in [Slugs -> 0..1],
           \A s \in Slugs : cache'[s] \in Ids => Known(cache'[s]),
           \A s \in Slugs : Misleads(s)' => Excused(s)'
    PROVE  SlugIInv'
<1>1. call \in [Handlers -> ReqRec] /\ q \in ReqRec
  BY DEF SlugIInv, SlugTypeOK, ReqRec, Places, Shape
<1>2. call' \in [Handlers -> ReqRec] /\ \A o \in Handlers : call'[o] = IF o = p THEN q ELSE call[o]
  BY <1>1 DEF Goto
<1>3. SlugTypeOK'
  BY <1>2 DEF SlugIInv, SlugTypeOK, ReqRec, Places, Sizes
<1>4. Unique'
  BY SameRows DEF SlugIInv, Unique
<1>5. \A s \in Slugs : (cache[s] \in Ids => Known(cache[s]))'
  BY DEF Known
<1>6. ASSUME NEW o \in Handlers PROVE Shape(call[o])' /\ Sound(call[o])'
  <2>1. PICK r : r = call'[o] /\ Shape(r) /\ Sound(r)
    BY <1>2 DEF SlugIInv
  <2>2. Shape(r)' /\ Sound(r)'
    BY <2>1, SameRows DEF SlugIInv
  <2> QED
    BY <2>1, <2>2 DEF Shape, Sound, Trusted, Found, Known, Sees
<1> QED
  BY <1>3, <1>4, <1>5, <1>6 DEF SlugIInv

\* A handler with no eviction to come goes on.
LEMMA QuietGo ==
    ASSUME SlugIInv, NEW p \in Handlers, NEW q, Goto(p, q), UNCHANGED <<row, cache, excuse>>,
           Shape(q), Sound(q), Sizes', call[p].pc \notin {"evictOld", "evict"}
    PROVE  SlugIInv'
<1>1. /\ cache \in [Slugs -> Ids \cup {"none", "null"}] /\ excuse \in [Slugs -> 0..1]
      /\ \A s \in Slugs : cache[s] \in Ids => Known(cache[s])
      /\ call \in [Handlers -> ReqRec]
  BY DEF SlugIInv, SlugTypeOK, ReqRec, Places
<1>2. ASSUME NEW s \in Slugs, Misleads(s)' PROVE Excused(s)'
  <2>1. Misleads(s)
    BY <1>2, SameRows DEF Misleads, SlugIInv
  <2>2. Excused(s)
    BY <2>1 DEF SlugIInv
  <2>3. \A o \in Handlers : Evicts(call[o], s) => call'[o] = call[o]
    BY <1>1 DEF Goto, Evicts
  <2> QED
    BY <2>2, <2>3 DEF Excused, Evicts
<1> QED
  BY <1>1, <1>2, QuietStep

LEMMA OnlyStep ==
    ASSUME SlugIInv, NEW p \in Handlers, NEW q, Only(p, q), Shape(q), Sound(q),
           started' \in 0..MaxRequests, call[p].pc \notin {"evictOld", "evict"}
    PROVE  SlugIInv'
<1>1. Goto(p, q) /\ UNCHANGED <<row, cache, excuse, failures>>
  BY DEF Only
<1>2. Sizes'
  BY <1>1 DEF Sizes, SlugIInv, SlugTypeOK
<1> QED
  BY <1>1, <1>2, QuietGo

LEMMA StartOK ==
    ASSUME SlugIInv, NEW p \in Handlers, Start(p)
    PROVE  started' \in 0..MaxRequests /\ call[p].pc = "idle"
<1>1. started \in 0..MaxRequests
  BY DEF SlugIInv, SlugTypeOK
<1> QED
  BY <1>1, SlugAssumption DEF Start

LEMMA AtOK ==
    ASSUME SlugIInv, NEW p \in Handlers, NEW w, At(p, w)
    PROVE  /\ started' \in 0..MaxRequests /\ started' = started /\ call[p].pc = w
           /\ call[p] \in ReqRec /\ Shape(call[p]) /\ Sound(call[p])
  BY DEF SlugIInv, SlugTypeOK, At, Shape

LEMMA FaultOK ==
    ASSUME SlugIInv, Failure, started' = started
    PROVE  Sizes'
<1>1. failures \in 0..MaxFailures /\ started \in 0..MaxRequests
  BY DEF SlugIInv, SlugTypeOK
<1> QED
  BY <1>1, SlugAssumption DEF Failure, Sizes

\* Where FindBySlug's answer leads is as good as the answer.
LEMMA ConcludeSound ==
    ASSUME SlugIInv, NEW q \in ReqRec, q.op \in {"get", "create", "update"}, q.slug \in Slugs,
           q.op # "get" => q.t \in Titles, q.op = "update" => Known(q.a),
           NEW x \in Ids \cup {None}, NEW sees \in BOOLEAN,
           q.op = "create" /\ q.late = 0 /\ x = None => Holders(q.slug) = {},
           q.op = "get" /\ q.late = 0 =>
              (IF sees THEN x ELSE None) = Expected(q.slug, q.who)
    PROVE  Shape(Conclude(q, x, sees)) /\ Sound(Conclude(q, x, sees))
<1>1. PICK c : c = Conclude(q, x, sees) /\ Concluded(c, q, x, sees)
  BY ConcludeFacts
<1>2. c \in ReqRec
  BY <1>1 DEF Concluded
<1>3. CASE q.op = "get"
  <2>1. /\ c.pc = "reply" /\ c.op = "get" /\ c.slug = q.slug /\ c.who = q.who
        /\ c.late = q.late /\ c.got = IF sees THEN x ELSE None
    BY <1>1, <1>3 DEF Concluded
  <2>2. Shape(c)
    BY <1>2, <2>1 DEF Shape, Lookups
  <2>3. Sound(c)
    BY <1>3, <2>1 DEF Sound, Trusted, Lookups
  <2> QED
    BY <1>1, <2>2, <2>3
<1>4. CASE q.op # "get" /\ x # None
  <2>1. CASE c = Idle
    BY <1>1, <2>1, IdleSound
  <2>2. CASE c.pc = "cache" /\ c.op = q.op /\ c.t \in Titles /\ c.a = q.a /\ c.slug \in Slugs
    <3>1. Shape(c)
      BY <1>2, <1>4, <2>2 DEF Shape, Lookups
    <3>2. Sound(c)
      BY <1>4, <2>2 DEF Sound, Trusted
    <3> QED
      BY <1>1, <3>1, <3>2
  <2> QED
    BY <1>1, <1>4, <2>1, <2>2 DEF Concluded
<1>5. CASE q.op # "get" /\ x = None
  <2>1. /\ c.pc = IF q.op = "create" THEN "insert" ELSE "old"
        /\ c.op = q.op /\ c.a = q.a /\ c.slug = q.slug /\ c.late = q.late
    BY <1>1, <1>5 DEF Concluded
  <2>2. Shape(c)
    BY <1>2, <1>5, <2>1 DEF Shape, Lookups
  <2>3. Sound(c)
    BY <1>5, <2>1 DEF Sound, Trusted, Lookups
  <2> QED
    BY <1>1, <2>2, <2>3
<1> QED
  BY <1>3, <1>4, <1>5

LEMMA HolderOf ==
    ASSUME Unique, NEW a \in Live
    PROVE  Found(row[a].slug, a)
<1>1. a \in Ids /\ a # None
  BY SlugAssumption DEF Live
<1>2. Holders(row[a].slug) = {a}
  BY DEF Holders, Unique
<1> QED
  BY <1>1, <1>2 DEF Found

LEMMA ExpectedIs ==
    ASSUME Unique, NEW s \in Slugs, Alias[s] \notin Live, NEW x \in Ids \cup {None},
           Found(s, x), NEW w
    PROVE  Expected(s, w) = IF x # None /\ Visible(x, w) THEN x ELSE None
<1>1. Holder(s) = x
  BY HolderFound
<1> QED
  BY <1>1 DEF Expected

LEMMA LookupShape ==
    ASSUME NEW q, Shape(q), q.pc \in Lookups
    PROVE  /\ q \in ReqRec /\ q.op \in {"get", "create", "update"} /\ q.slug \in Slugs
           /\ q.op # "get" => q.t \in Titles
           /\ q.op = "update" => Known(q.a)
  BY DEF Shape

LEMMA ReadCacheStep ==
    ASSUME SlugIInv, NEW p \in Handlers, ReadCache(p)
    PROVE  SlugIInv'
<1> DEFINE r == call[p]
<1>1. PICK l \in {0, 1} : l = IF r.op # "update" /\ Excused(r.slug) THEN 1 ELSE r.late
  BY AtOK DEF ReadCache, ReqRec
<1>2. PICK q : q = [r EXCEPT !.late = l]
  OBVIOUS
<1>3. PICK v : v = cache[q.slug]
  OBVIOUS
<1>4. Only(p, CASE v = "null" -> Conclude(q, None, FALSE)
                [] v = "none" -> [q EXCEPT !.pc = "db"]
                [] OTHER      -> [q EXCEPT !.pc = "byid", !.got = v])
  BY <1>1, <1>2, <1>3 DEF ReadCache
<1>5. r.pc = "cache" /\ r \in ReqRec /\ Shape(r) /\ Sound(r) /\ started' \in 0..MaxRequests
  BY AtOK DEF ReadCache
<1>6. q \in ReqRec
  BY <1>2, <1>5, SetLate
<1>7. /\ q.pc = r.pc /\ q.op = r.op /\ q.slug = r.slug /\ q.who = r.who /\ q.t = r.t /\ q.a = r.a
      /\ q.late = l
  BY <1>2, <1>5 DEF ReqRec
<1>8. /\ q.op \in {"get", "create", "update"} /\ q.slug \in Slugs
      /\ q.op # "get" => q.t \in Titles
      /\ q.op = "update" => Known(q.a)
  BY <1>5, <1>7, LookupShape DEF Lookups
<1>9. v \in Ids \cup {"none", "null"} /\ (v \in Ids => Known(v))
  BY <1>3, <1>8 DEF SlugIInv, SlugTypeOK
<1>10. ASSUME q.op \in {"get", "create"}, q.late = 0
       PROVE  ~ Misleads(q.slug) /\ (q.op = "get" => Alias[q.slug] \notin Live)
  <2>1. r.late = 0 /\ ~ Excused(q.slug)
    BY <1>1, <1>7, <1>10
  <2> QED
    BY <1>5, <1>7, <1>8, <1>10, <2>1 DEF SlugIInv, Sound, Trusted, Lookups
<1>11. CASE v = "null"
  <2>1. Only(p, Conclude(q, None, FALSE))
    BY <1>4, <1>11
  <2>2. q.op \in {"get", "create"} /\ q.late = 0 => Holders(q.slug) = {}
    BY <1>3, <1>10, <1>11 DEF Misleads
  <2>3. q.op = "get" /\ q.late = 0 => None = Expected(q.slug, q.who)
    <3>1. Holders(q.slug) = {} => Found(q.slug, None)
      BY DEF Found
    <3> QED
      BY <1>8, <1>10, <2>2, <3>1, ExpectedIs DEF SlugIInv
  <2>4. Shape(Conclude(q, None, FALSE)) /\ Sound(Conclude(q, None, FALSE))
    BY <1>6, <1>8, <2>2, <2>3, ConcludeSound
  <2> QED
    BY <1>5, <2>1, <2>4, OnlyStep
<1>12. CASE v = "none"
  <2>1. PICK c : c = [q EXCEPT !.pc = "db"]
    OBVIOUS
  <2>2. Only(p, c)
    BY <1>4, <1>12, <2>1
  <2>3. c \in ReqRec
    BY <1>6, <2>1, SetPc DEF Places, Lookups
  <2>4. /\ c.pc = "db" /\ c.op = q.op /\ c.slug = q.slug /\ c.t = q.t /\ c.a = q.a
        /\ c.late = q.late
    BY <1>6, <2>1 DEF ReqRec
  <2>5. Shape(c)
    BY <1>8, <2>3, <2>4 DEF Shape, Lookups
  <2>6. Sound(c)
    BY <1>10, <2>4 DEF Sound, Trusted, Lookups
  <2> QED
    BY <1>5, <2>2, <2>5, <2>6, OnlyStep
<1>13. CASE v \notin {"none", "null"}
  <2>1. PICK c : c = [q EXCEPT !.pc = "byid", !.got = v]
    OBVIOUS
  <2>2. Only(p, c)
    BY <1>4, <1>13, <2>1
  <2>3. v \in Ids /\ Known(v)
    BY <1>9, <1>13
  <2>4. c \in ReqRec
    <3>1. [q EXCEPT !.pc = "byid"] \in ReqRec
      BY <1>6, SetPc DEF Places, Lookups
    <3>2. [q EXCEPT !.pc = "byid", !.got = v] \in ReqRec
      BY <2>3, <3>1, SetGot
    <3> QED
      BY <2>1, <3>2
  <2>5. /\ c.pc = "byid" /\ c.op = q.op /\ c.slug = q.slug /\ c.t = q.t /\ c.a = q.a
        /\ c.late = q.late /\ c.got = v
    BY <1>6, <2>1 DEF ReqRec
  <2>6. Shape(c)
    BY <1>8, <2>3, <2>4, <2>5 DEF Shape, Lookups
  <2>7. Sound(c)
    BY <1>3, <1>10, <2>5 DEF Sound, Trusted, Misleads
  <2> QED
    BY <1>5, <2>2, <2>6, <2>7, OnlyStep
<1> QED
  BY <1>11, <1>12, <1>13

LEMMA FindByIDStep ==
    ASSUME SlugIInv, NEW p \in Handlers, FindByID(p) \/ FindByIDFails(p)
    PROVE  SlugIInv'
<1>1. PICK q : q = call[p]
  OBVIOUS
<1>2. /\ q.pc = "byid" /\ q \in ReqRec /\ Shape(q) /\ Sound(q)
      /\ started' \in 0..MaxRequests /\ started' = started
  BY <1>1, AtOK DEF FindByID, FindByIDFails
<1>3. /\ q.op \in {"get", "create", "update"} /\ q.slug \in Slugs
      /\ q.op # "get" => q.t \in Titles
      /\ q.op = "update" => Known(q.a)
  BY <1>2, LookupShape DEF Lookups
<1>4. CASE FindByID(p) /\ q.got \in Live
  <2>1. Only(p, Conclude(q, q.got, Sees(q, q.got)))
    BY <1>1, <1>4 DEF FindByID
  <2>2. q.got \in Ids /\ q.got # None /\ Sees(q, q.got) \in BOOLEAN
    BY <1>4, SlugAssumption DEF Live, Sees
  <2>3. q.op = "get" /\ q.late = 0 =>
           (IF Sees(q, q.got) THEN q.got ELSE None) = Expected(q.slug, q.who)
    <3> SUFFICES ASSUME q.op = "get", q.late = 0
                 PROVE  (IF Sees(q, q.got) THEN q.got ELSE None) = Expected(q.slug, q.who)
      OBVIOUS
    <3>1. Alias[q.slug] \notin Live /\ row[q.got].slug = q.slug
      BY <1>2, <1>4 DEF Sound, Trusted, Lookups
    <3>2. Found(q.slug, q.got)
      BY <1>4, <3>1, HolderOf DEF SlugIInv
    <3> QED
      BY <1>3, <2>2, <3>1, <3>2, ExpectedIs DEF SlugIInv, Sees
  <2>4. Shape(Conclude(q, q.got, Sees(q, q.got))) /\ Sound(Conclude(q, q.got, Sees(q, q.got)))
    BY <1>2, <1>3, <2>2, <2>3, ConcludeSound
  <2> QED
    BY <1>1, <1>2, <2>1, <2>4, OnlyStep
<1>5. CASE (FindByID(p) /\ q.got \notin Live) \/ FindByIDFails(p)
  <2>1. PICK c : c = [q EXCEPT !.pc = "db", !.got = None]
    OBVIOUS
  <2>2. Goto(p, c) /\ UNCHANGED <<row, cache, excuse>> /\ Sizes'
    <3>1. CASE FindByID(p) /\ q.got \notin Live
      BY <1>1, <1>2, <2>1, <3>1 DEF FindByID, Only, Sizes, SlugIInv, SlugTypeOK
    <3>2. CASE FindByIDFails(p)
      BY <1>1, <1>2, <2>1, <3>2, FaultOK DEF FindByIDFails
    <3> QED
      BY <1>5, <3>1, <3>2
  <2>3. c \in ReqRec
    <3>1. [q EXCEPT !.pc = "db"] \in ReqRec
      BY <1>2, SetPc DEF Places, Lookups
    <3>2. [q EXCEPT !.pc = "db", !.got = None] \in ReqRec
      BY <3>1, SetGot
    <3> QED
      BY <2>1, <3>2
  <2>4. /\ c.pc = "db" /\ c.op = q.op /\ c.slug = q.slug /\ c.t = q.t /\ c.a = q.a
        /\ c.late = q.late
    BY <1>2, <2>1 DEF ReqRec
  <2>5. Shape(c)
    BY <1>3, <2>3, <2>4 DEF Shape, Lookups
  <2>6. Sound(c)
    BY <1>2, <2>4 DEF Sound, Trusted, Lookups
  <2> QED
    BY <1>1, <1>2, <2>2, <2>5, <2>6, QuietGo
<1> QED
  BY <1>4, <1>5

LEMMA QuerySlugStep ==
    ASSUME SlugIInv, NEW p \in Handlers, QuerySlug(p)
    PROVE  SlugIInv'
<1>1. PICK q, h : q = call[p] /\ h = Holder(q.slug)
  OBVIOUS
<1>2. q.pc = "db" /\ q \in ReqRec /\ Shape(q) /\ Sound(q) /\ started' \in 0..MaxRequests
  BY <1>1, AtOK DEF QuerySlug
<1>3. /\ q.op \in {"get", "create", "update"} /\ q.slug \in Slugs
      /\ q.op # "get" => q.t \in Titles
      /\ q.op = "update" => Known(q.a)
  BY <1>2, LookupShape DEF Lookups
<1>4. PICK u \in {0, 1} : u = IF q.op = "get" /\ Sees(q, h) THEN 1
                              ELSE IF q.op = "get" THEN 0 ELSE q.pub
  BY <1>2 DEF ReqRec
<1>5. PICK c : c = [q EXCEPT !.pc = "fill", !.got = h, !.over = 0, !.pub = u]
  OBVIOUS
<1>6. Only(p, c)
  BY <1>1, <1>4, <1>5 DEF QuerySlug
<1>7. /\ Found(q.slug, h) /\ h \in Ids \cup {None}
      /\ h # None => h \in Live
  BY <1>1, <1>3, HolderFound DEF SlugIInv
<1>8. c \in ReqRec
  <2>1. [q EXCEPT !.pc = "fill"] \in ReqRec
    BY <1>2, SetPc DEF Places, Lookups
  <2>2. [q EXCEPT !.pc = "fill", !.got = h] \in ReqRec
    BY <1>7, <2>1, SetGot
  <2>3. [q EXCEPT !.pc = "fill", !.got = h, !.over = 0] \in ReqRec
    BY <2>2, SetOver
  <2>4. [q EXCEPT !.pc = "fill", !.got = h, !.over = 0, !.pub = u] \in ReqRec
    BY <2>3, SetPub
  <2> QED
    BY <1>5, <2>4
<1>9. /\ c.pc = "fill" /\ c.op = q.op /\ c.slug = q.slug /\ c.t = q.t /\ c.a = q.a
      /\ c.late = q.late /\ c.got = h /\ c.over = 0 /\ c.pub = u /\ c.who = q.who
  BY <1>2, <1>5 DEF ReqRec
<1>10. Shape(c)
  BY <1>3, <1>7, <1>8, <1>9 DEF Shape, Lookups, Known, Live
<1>11. Sound(c)
  <2>1. q.op = "get" /\ q.late = 0 => Alias[q.slug] \notin Live
    BY <1>2 DEF Sound, Trusted, Lookups
  <2>2. q.op = "get" => (u = 1 <=> Sees(c, h))
    BY <1>4, <1>9 DEF Sees
  <2> QED
    BY <1>7, <1>9, <2>1, <2>2 DEF Sound, Trusted
<1> QED
  BY <1>1, <1>2, <1>6, <1>10, <1>11, OnlyStep

LEMMA QueryFailsStep ==
    ASSUME SlugIInv, NEW p \in Handlers, QueryFails(p)
    PROVE  SlugIInv'
<1> DEFINE r == call[p]
<1>1. PICK l \in {0, 1} : l = IF r.op = "update" THEN 0 ELSE 1
  OBVIOUS
<1>2. PICK q : q = [r EXCEPT !.late = l]
  OBVIOUS
<1>3. Goto(p, Conclude(q, None, FALSE)) /\ Failure /\ UNCHANGED <<row, cache, excuse>>
  BY <1>1, <1>2 DEF QueryFails
<1>4. r.pc = "db" /\ r \in ReqRec /\ Shape(r) /\ started' = started
  BY AtOK DEF QueryFails
<1>5. q \in ReqRec
  BY <1>2, <1>4, SetLate
<1>6. q.op = r.op /\ q.slug = r.slug /\ q.t = r.t /\ q.a = r.a /\ q.late = l
  BY <1>2, <1>4 DEF ReqRec
<1>7. /\ q.op \in {"get", "create", "update"} /\ q.slug \in Slugs
      /\ q.op # "get" => q.t \in Titles
      /\ q.op = "update" => Known(q.a)
  BY <1>4, <1>6, LookupShape DEF Lookups
<1>8. q.op \in {"get", "create"} => q.late # 0
  BY <1>1, <1>6
<1>9. Shape(Conclude(q, None, FALSE)) /\ Sound(Conclude(q, None, FALSE))
  BY <1>5, <1>7, <1>8, ConcludeSound
<1>10. Sizes'
  BY <1>3, <1>4, FaultOK
<1> QED
  BY <1>3, <1>4, <1>9, <1>10, QuietGo

LEMMA CreateArticleStep ==
    ASSUME SlugIInv, NEW p \in Handlers, NEW t \in Titles, CreateArticle(p, t)
    PROVE  SlugIInv'
<1>1. PICK q : q = [Idle EXCEPT !.pc = "cache", !.op = "create", !.t = t, !.slug = <<t, 1>>]
  OBVIOUS
<1>2. q = [pc |-> "cache", op |-> "create", a |-> None, t |-> t, i |-> 1, slug |-> <<t, 1>>,
           old |-> None, pub |-> 0, got |-> None, who |-> Anon, late |-> 0, over |-> 0]
  BY <1>1 DEF Idle
<1>3. <<t, 1>> \in Slugs
  BY SlugAssumption, SlugsAre
<1>4. q \in ReqRec
  BY <1>2, <1>3, SlugAssumption DEF ReqRec, Places, Lookups
<1>5. Only(p, q)
  BY <1>1 DEF CreateArticle
<1>6. started' \in 0..MaxRequests /\ call[p].pc = "idle"
  BY StartOK DEF CreateArticle
<1>7. Shape(q)
  BY <1>2, <1>3, <1>4 DEF Shape, Lookups
<1>8. Sound(q)
  BY <1>2 DEF Sound, Trusted, Lookups
<1> QED
  BY <1>5, <1>6, <1>7, <1>8, OnlyStep

LEMMA UpdateArticleStep ==
    ASSUME SlugIInv, NEW p \in Handlers, NEW a \in Ids, NEW t \in Titles, UpdateArticle(p, a, t)
    PROVE  SlugIInv'
<1>1. PICK q : q = [Idle EXCEPT !.pc = "cache", !.op = "update", !.a = a, !.t = t,
                            !.slug = <<t, 1>>, !.pub = row[a].pub]
  OBVIOUS
<1>2. q = [pc |-> "cache", op |-> "update", a |-> a, t |-> t, i |-> 1, slug |-> <<t, 1>>,
           old |-> None, pub |-> row[a].pub, got |-> None, who |-> Anon, late |-> 0, over |-> 0]
  BY <1>1 DEF Idle
<1>3. Known(a) /\ row[a].pub \in 0..1 /\ row[a].slug \in Slugs /\ <<t, 1>> \in Slugs
  BY SlugAssumption, SlugsAre DEF UpdateArticle, Known, Live, SlugIInv, SlugTypeOK, Row, Unique
<1>4. q \in ReqRec
  BY <1>2, <1>3, SlugAssumption DEF ReqRec, Places, Lookups
<1>5. Only(p, q)
  BY <1>1 DEF UpdateArticle
<1>6. started' \in 0..MaxRequests /\ call[p].pc = "idle"
  BY StartOK DEF UpdateArticle
<1>7. Shape(q)
  BY <1>2, <1>3, <1>4 DEF Shape, Lookups
<1>8. Sound(q)
  BY <1>2 DEF Sound, Trusted, Lookups
<1> QED
  BY <1>5, <1>6, <1>7, <1>8, OnlyStep

LEMMA SaveArticleStep ==
    ASSUME SlugIInv, NEW p \in Handlers, NEW a \in Ids, NEW u \in 0..1, SaveArticle(p, a, u)
    PROVE  SlugIInv'
<1>1. PICK q : q = [Idle EXCEPT !.pc = "old", !.op = "update", !.a = a,
                            !.slug = row[a].slug, !.pub = u]
  OBVIOUS
<1>2. q = [pc |-> "old", op |-> "update", a |-> a, t |-> None, i |-> 1, slug |-> row[a].slug,
           old |-> None, pub |-> u, got |-> None, who |-> Anon, late |-> 0, over |-> 0]
  BY <1>1 DEF Idle
<1>3. Known(a) /\ row[a].pub \in 0..1 /\ row[a].slug \in Slugs
  BY SlugAssumption, SlugsAre DEF SaveArticle, Known, Live, SlugIInv, SlugTypeOK, Row, Unique
<1>4. q \in ReqRec
  BY <1>2, <1>3, SlugAssumption DEF ReqRec, Places, Lookups
<1>5. Only(p, q)
  BY <1>1 DEF SaveArticle
<1>6. started' \in 0..MaxRequests /\ call[p].pc = "idle"
  BY StartOK DEF SaveArticle
<1>7. Shape(q)
  BY <1>2, <1>3, <1>4 DEF Shape, Lookups
<1>8. Sound(q)
  BY <1>2 DEF Sound, Trusted, Lookups
<1> QED
  BY <1>5, <1>6, <1>7, <1>8, OnlyStep

LEMMA DeleteArticleStep ==
    ASSUME SlugIInv, NEW p \in Handlers, NEW a \in Ids, DeleteArticle(p, a)
    PROVE  SlugIInv'
<1>1. PICK q : q = [Idle EXCEPT !.pc = "select", !.op = "delete", !.a = a]
  OBVIOUS
<1>2. q = [pc |-> "select", op |-> "delete", a |-> a, t |-> None, i |-> 1, slug |-> None,
           old |-> None, pub |-> 0, got |-> None, who |-> Anon, late |-> 0, over |-> 0]
  BY <1>1 DEF Idle
<1>3. Known(a) /\ row[a].pub \in 0..1 /\ row[a].slug \in Slugs
  BY SlugAssumption, SlugsAre DEF DeleteArticle, Known, Live, SlugIInv, SlugTypeOK, Row, Unique
<1>4. q \in ReqRec
  BY <1>2, <1>3, SlugAssumption DEF ReqRec, Places, Lookups
<1>5. Only(p, q)
  BY <1>1 DEF DeleteArticle
<1>6. started' \in 0..MaxRequests /\ call[p].pc = "idle"
  BY StartOK DEF DeleteArticle
<1>7. Shape(q)
  BY <1>2, <1>3, <1>4 DEF Shape, Lookups
<1>8. Sound(q)
  BY <1>2 DEF Sound, Trusted, Lookups
<1> QED
  BY <1>5, <1>6, <1>7, <1>8, OnlyStep

LEMMA GetArticleStep ==
    ASSUME SlugIInv, NEW p \in Handlers, NEW s \in Slugs, NEW who \in Readers, GetArticle(p, s, who)
    PROVE  SlugIInv'
<1>1. PICK q : q = [Idle EXCEPT !.pc = "cache", !.op = "get", !.slug = s, !.who = who]
  OBVIOUS
<1>2. q = [pc |-> "cache", op |-> "get", a |-> None, t |-> None, i |-> 1, slug |-> s,
           old |-> None, pub |-> 0, got |-> None, who |-> who, late |-> 0, over |-> 0]
  BY <1>1 DEF Idle
<1>3. q \in ReqRec
  BY <1>2, SlugAssumption DEF ReqRec, Places, Lookups
<1>4. started' \in 0..MaxRequests /\ call[p].pc = "idle"
  BY StartOK DEF GetArticle
<1>5. q.op = "get" /\ q.slug = s /\ q.who = who /\ q.pc = "cache"
  BY <1>2
<1>6. CASE Alias[s] \in Live
  <2>1. PICK a : a = Alias[s] /\ a \in Ids /\ a # None
    BY <1>6, SlugAssumption DEF Live
  <2>2. PICK v \in BOOLEAN : v = Visible(a, who)
    BY DEF Visible
  <2>3. Only(p, Conclude(q, a, v))
    BY <1>1, <1>6, <2>1, <2>2 DEF GetArticle
  <2>4. (IF v THEN a ELSE None) = Expected(s, who)
    BY <1>6, <2>1, <2>2 DEF Expected
  <2>5. Shape(Conclude(q, a, v)) /\ Sound(Conclude(q, a, v))
    BY <1>3, <1>5, <2>1, <2>4, ConcludeSound
  <2> QED
    BY <1>4, <2>3, <2>5, OnlyStep
<1>7. CASE Alias[s] \notin Live
  <2>1. Only(p, q)
    BY <1>1, <1>7 DEF GetArticle
  <2>2. Shape(q)
    BY <1>3, <1>5 DEF Shape, Lookups
  <2>3. Sound(q)
    BY <1>5, <1>7 DEF Sound, Trusted
  <2> QED
    BY <1>4, <2>1, <2>2, <2>3, OnlyStep
<1> QED
  BY <1>6, <1>7

LEMMA GetArticleFailsStep ==
    ASSUME SlugIInv, NEW p \in Handlers, NEW s \in Slugs, NEW who \in Readers,
           GetArticleFails(p, s, who)
    PROVE  SlugIInv'
<1>1. PICK q : q = [Idle EXCEPT !.pc = "cache", !.op = "get", !.slug = s, !.who = who, !.late = 1]
  OBVIOUS
<1>2. q = [pc |-> "cache", op |-> "get", a |-> None, t |-> None, i |-> 1, slug |-> s,
           old |-> None, pub |-> 0, got |-> None, who |-> who, late |-> 1, over |-> 0]
  BY <1>1 DEF Idle
<1>3. q \in ReqRec
  BY <1>2, SlugAssumption DEF ReqRec, Places, Lookups
<1>4. started' \in 0..MaxRequests /\ call[p].pc = "idle"
  BY StartOK DEF GetArticleFails
<1>5. q.op = "get" /\ q.slug = s /\ q.pc = "cache" /\ q.late = 1
  BY <1>2
<1>6. Shape(q) /\ Sound(q)
  BY <1>3, <1>5 DEF Shape, Sound, Lookups
<1>7. Goto(p, q) /\ UNCHANGED <<row, cache, excuse>> /\ failures' \in 0..MaxFailures
  BY <1>1, SlugAssumption DEF GetArticleFails, Failure, SlugIInv, SlugTypeOK
<1> QED
  BY <1>4, <1>6, <1>7, QuietGo DEF Sizes

LEMMA GiveUpStep ==
    ASSUME SlugIInv, NEW p \in Handlers, Reply(p) \/ Conflict(p) \/ Fails(p)
    PROVE  SlugIInv'
<1>1. Only(p, Idle) /\ started' = started /\ call[p].pc \in {"reply", "insert", "write", "delete"}
  BY DEF Reply, Conflict, Fails, At
<1>2. started' \in 0..MaxRequests
  BY <1>1 DEF SlugIInv, SlugTypeOK
<1> QED
  BY <1>1, <1>2, IdleSound, OnlyStep

\* The record of an update before its UPDATE.
LEMMA WriteNext ==
    ASSUME SlugIInv, NEW p \in Handlers, At(p, "old"), NEW o \in Slugs \cup {None}
    PROVE  LET c == [call[p] EXCEPT !.pc = "write", !.old = o] IN Shape(c) /\ Sound(c)
<1>1. PICK q : q = call[p]
  OBVIOUS
<1>2. q.pc = "old" /\ q \in ReqRec /\ Shape(q)
  BY <1>1, AtOK
<1>3. PICK c : c = [q EXCEPT !.pc = "write", !.old = o]
  OBVIOUS
<1>4. c \in ReqRec
  <2>1. [q EXCEPT !.pc = "write"] \in ReqRec
    BY <1>2, SetPc DEF Places
  <2>2. [q EXCEPT !.pc = "write", !.old = o] \in ReqRec
    BY <2>1, SetOld
  <2> QED
    BY <1>3, <2>2
<1>5. c.pc = "write" /\ c.op = q.op /\ c.slug = q.slug /\ c.a = q.a
  BY <1>2, <1>3 DEF ReqRec
<1>6. Shape(c)
  BY <1>2, <1>4, <1>5 DEF Shape, Lookups
<1>7. Sound(c)
  BY <1>2, <1>5 DEF Shape, Sound
<1> QED
  BY <1>1, <1>3, <1>6, <1>7

LEMMA SelectOldStep ==
    ASSUME SlugIInv, NEW p \in Handlers, SelectOld(p)
    PROVE  SlugIInv'
<1>1. PICK o : o = IF call[p].a \in Live THEN row[call[p].a].slug ELSE None
  OBVIOUS
<1>2. o \in Slugs \cup {None}
  BY <1>1 DEF SlugIInv, Unique
<1>3. PICK c : c = [call[p] EXCEPT !.pc = "write", !.old = o]
  OBVIOUS
<1>4. Only(p, c) /\ At(p, "old")
  BY <1>1, <1>3 DEF SelectOld
<1>5. Shape(c) /\ Sound(c)
  BY <1>2, <1>3, <1>4, WriteNext
<1>6. started' \in 0..MaxRequests /\ call[p].pc = "old"
  BY <1>4, AtOK
<1> QED
  BY <1>4, <1>5, <1>6, OnlyStep

LEMMA SelectOldFailsStep ==
    ASSUME SlugIInv, NEW p \in Handlers, SelectOldFails(p)
    PROVE  SlugIInv'
<1>1. PICK q : q = call[p]
  OBVIOUS
<1>2. q.pc = "old" /\ q \in ReqRec /\ Shape(q) /\ started' = started
  BY <1>1, AtOK DEF SelectOldFails
<1>3. PICK c : c = [q EXCEPT !.pc = "write"]
  OBVIOUS
<1>4. c \in ReqRec
  BY <1>2, <1>3, SetPc DEF Places
<1>5. c.pc = "write" /\ c.op = q.op /\ c.slug = q.slug /\ c.a = q.a
  BY <1>2, <1>3 DEF ReqRec
<1>6. Shape(c)
  BY <1>2, <1>4, <1>5 DEF Shape, Lookups
<1>7. Sound(c)
  BY <1>2, <1>5 DEF Shape, Sound
<1>8. Goto(p, c) /\ Failure /\ UNCHANGED <<row, cache, excuse>>
  BY <1>1, <1>3 DEF SelectOldFails
<1>9. Sizes'
  BY <1>2, <1>8, FaultOK
<1> QED
  BY <1>1, <1>2, <1>6, <1>7, <1>8, <1>9, QuietGo

LEMMA SelectSlugStep ==
    ASSUME SlugIInv, NEW p \in Handlers, SelectSlug(p)
    PROVE  SlugIInv'
<1>1. PICK q : q = call[p]
  OBVIOUS
<1>2. q.pc = "select" /\ q \in ReqRec /\ Shape(q) /\ started' \in 0..MaxRequests
  BY <1>1, AtOK DEF SelectSlug
<1>3. CASE q.a \in Live
  <2>1. PICK c : c = [q EXCEPT !.pc = "delete", !.slug = row[q.a].slug]
    OBVIOUS
  <2>2. row[q.a].slug \in Slugs
    BY <1>3 DEF SlugIInv, Unique
  <2>3. c \in ReqRec
    <3>1. [q EXCEPT !.pc = "delete"] \in ReqRec
      BY <1>2, SetPc DEF Places
    <3>2. [q EXCEPT !.pc = "delete", !.slug = row[q.a].slug] \in ReqRec
      BY <2>2, <3>1, SetSlug
    <3> QED
      BY <2>1, <3>2
  <2>4. c.pc = "delete" /\ c.op = q.op /\ c.slug = row[q.a].slug /\ c.a = q.a /\ c.old = q.old
    BY <1>2, <2>1 DEF ReqRec
  <2>5. Shape(c)
    BY <1>2, <2>2, <2>3, <2>4 DEF Shape, Lookups
  <2>6. Sound(c)
    BY <1>2, <2>4 DEF Shape, Sound
  <2>7. Only(p, c)
    BY <1>1, <1>3, <2>1 DEF SelectSlug
  <2> QED
    BY <1>1, <1>2, <2>5, <2>6, <2>7, OnlyStep
<1>4. CASE q.a \notin Live
  <2>1. Only(p, Idle)
    BY <1>1, <1>4 DEF SelectSlug
  <2> QED
    BY <1>1, <1>2, <2>1, IdleSound, OnlyStep
<1> QED
  BY <1>3, <1>4
-----------------------------------------------------------------------------
(* Steps that write the cache.                                             *)

LEMMA ExcusedKept ==
    ASSUME SlugIInv, NEW p \in Handlers, NEW q, Goto(p, q), NEW s \in Slugs, excuse'[s] = excuse[s],
           Evicts(call[p], s) => Evicts(q, s), Excused(s)
    PROVE  Excused(s)'
<1>1. call \in [Handlers -> ReqRec]
  BY DEF SlugIInv, SlugTypeOK, ReqRec, Places
<1>2. \A o \in Handlers : Evicts(call[o], s) => Evicts(call'[o], s)
  BY <1>1 DEF Goto
<1> QED
  BY <1>2 DEF Excused, Evicts

LEMMA MisledKept ==
    ASSUME SlugIInv, UNCHANGED row, NEW s \in Slugs, cache'[s] = cache[s], Misleads(s)'
    PROVE  Misleads(s) /\ Excused(s)
<1>1. Misleads(s)
  BY SameRows DEF Misleads, SlugIInv
<1> QED
  BY <1>1 DEF SlugIInv

LEMMA FillStep ==
    ASSUME SlugIInv, NEW p \in Handlers, Fill(p)
    PROVE  SlugIInv'
<1>1. PICK q, v : q = call[p] /\ v = IF q.got = None THEN "null" ELSE q.got
  OBVIOUS
<1>2. PICK u \in BOOLEAN : u = (q.pub = 1)
  OBVIOUS
<1>3. /\ q.pc = "fill" /\ q \in ReqRec /\ Shape(q) /\ Sound(q)
      /\ started' \in 0..MaxRequests
  BY <1>1, AtOK DEF Fill
<1>4. /\ q.op \in {"get", "create", "update"} /\ q.slug \in Slugs
      /\ q.op # "get" => q.t \in Titles
      /\ q.op = "update" => Known(q.a)
  BY <1>3, LookupShape DEF Lookups
<1>5. /\ cache' = [cache EXCEPT ![q.slug] = v] /\ excuse' = [excuse EXCEPT ![q.slug] = q.over]
      /\ Goto(p, Conclude(q, q.got, u)) /\ UNCHANGED <<row, failures>>
  BY <1>1, <1>2 DEF Fill
<1>6. /\ q.got \in Ids \cup {None} /\ q.over \in 0..1
      /\ q.got # None => q.got \in Ids /\ Known(q.got)
  BY <1>3 DEF ReqRec, Shape
<1>7. q.over = 0 => Found(q.slug, q.got)
  BY <1>3 DEF Sound
<1>8. q.op \in {"get", "create"} /\ q.late = 0 => q.over = 0
  BY <1>3 DEF Sound, Trusted
<1>9. Shape(Conclude(q, q.got, u)) /\ Sound(Conclude(q, q.got, u))
  <2>1. q.op = "create" /\ q.late = 0 /\ q.got = None => Holders(q.slug) = {}
    BY <1>7, <1>8 DEF Found
  <2>2. q.op = "get" /\ q.late = 0 => (IF u THEN q.got ELSE None) = Expected(q.slug, q.who)
    <3> SUFFICES ASSUME q.op = "get", q.late = 0
                 PROVE  (IF u THEN q.got ELSE None) = Expected(q.slug, q.who)
      OBVIOUS
    <3>1. Alias[q.slug] \notin Live /\ (u <=> Sees(q, q.got))
      BY <1>2, <1>3 DEF Sound, Trusted, Lookups
    <3> QED
      BY <1>4, <1>6, <1>7, <1>8, <3>1, ExpectedIs DEF SlugIInv, Sees
  <2> QED
    BY <1>3, <1>4, <1>6, <2>1, <2>2, ConcludeSound
<1>10. /\ cache' \in [Slugs -> Ids \cup {"none", "null"}] /\ excuse' \in [Slugs -> 0..1]
       /\ cache'[q.slug] = v /\ excuse'[q.slug] = q.over
       /\ \A s \in Slugs : s # q.slug => cache'[s] = cache[s] /\ excuse'[s] = excuse[s]
  BY <1>1, <1>4, <1>5, <1>6 DEF SlugIInv, SlugTypeOK
<1>11. \A s \in Slugs : cache'[s] \in Ids => Known(cache'[s])
  <2>1. v \in Ids => Known(v)
    BY <1>1, <1>6, SlugAssumption
  <2> QED
    BY <1>10, <2>1 DEF SlugIInv
<1>12. ASSUME NEW s \in Slugs, Misleads(s)' PROVE Excused(s)'
  <2>1. CASE s = q.slug
    <3>1. q.over = 0 => ~ Misleads(s)'
      <4> SUFFICES ASSUME q.over = 0 PROVE ~ Misleads(s)'
        OBVIOUS
      <4>1. Holders(s)' = Holders(s) /\ Live' = Live
        BY <1>5, SameRows DEF SlugIInv
      <4>2. CASE q.got = None
        BY <1>1, <1>7, <1>10, <2>1, <4>1, <4>2, SlugAssumption DEF Misleads, Found, Live
      <4>3. CASE q.got # None
        <5>1. q.got \in Holders(s) /\ v = q.got /\ v # "null"
          BY <1>1, <1>6, <1>7, <2>1, <4>3, SlugAssumption DEF Found
        <5>2. row'[v].slug = s
          BY <1>5, <5>1 DEF Holders
        <5> QED
          BY <1>10, <2>1, <5>1, <5>2 DEF Misleads
      <4> QED
        BY <4>2, <4>3
    <3>2. excuse'[s] = 1
      BY <1>6, <1>10, <1>12, <2>1, <3>1
    <3> QED
      BY <3>2 DEF Excused
  <2>2. CASE s # q.slug
    <3>1. Excused(s)
      BY <1>5, <1>10, <1>12, <2>2, MisledKept
    <3>2. ~ Evicts(call[p], s)
      BY <1>1, <1>3 DEF Evicts
    <3> QED
      BY <1>5, <1>10, <2>2, <3>1, <3>2, ExcusedKept
  <2> QED
    BY <2>1, <2>2
<1>13. Sizes'
  BY <1>3, <1>5 DEF Sizes, SlugIInv, SlugTypeOK
<1> QED
  BY <1>5, <1>9, <1>10, <1>11, <1>12, <1>13, QuietStep

\* Where an eviction leads.
LEMMA AfterEvictFacts ==
    ASSUME SlugIInv, NEW p \in Handlers, call[p].pc \in {"evictOld", "evict"}
    PROVE  LET q == call[p]  c == AfterEvict(q)  e == EvictedSlug(q) IN
           /\ e \in Slugs /\ Shape(c) /\ Sound(c)
           /\ \A s \in Slugs : Evicts(q, s) => s = e \/ Evicts(c, s)
<1>1. PICK q : q = call[p]
  OBVIOUS
<1>2. q \in ReqRec /\ Shape(q)
  BY <1>1 DEF SlugIInv, Shape
<1>3. CASE q.pc = "evictOld"
  <2>1. PICK c : c = [q EXCEPT !.pc = "evict", !.old = None]
    OBVIOUS
  <2>2. c \in ReqRec
    <3>1. [q EXCEPT !.pc = "evict"] \in ReqRec
      BY <1>2, SetPc DEF Places
    <3>2. [q EXCEPT !.pc = "evict", !.old = None] \in ReqRec
      BY <3>1, SetOld
    <3> QED
      BY <2>1, <3>2
  <2>3. c.pc = "evict" /\ c.slug = q.slug /\ c.op = q.op /\ c.a = q.a
    BY <1>2, <2>1 DEF ReqRec
  <2>4. Shape(c)
    BY <1>2, <1>3, <2>2, <2>3 DEF Shape, Lookups
  <2>5. Sound(c)
    BY <2>3 DEF Sound, Trusted, Lookups
  <2>6. c = AfterEvict(q) /\ q.old = EvictedSlug(q) /\ q.old \in Slugs
    BY <1>2, <1>3, <2>1 DEF AfterEvict, EvictedSlug, Shape
  <2>7. \A s \in Slugs : Evicts(q, s) => s = q.old \/ Evicts(c, s)
    BY <2>3 DEF Evicts
  <2> QED
    BY <1>1, <2>4, <2>5, <2>6, <2>7
<1>4. CASE q.pc = "evict"
  <2>1. Idle = AfterEvict(q) /\ q.slug = EvictedSlug(q) /\ q.slug \in Slugs
    BY <1>2, <1>4 DEF AfterEvict, EvictedSlug, Shape
  <2>2. \A s \in Slugs : Evicts(q, s) => s = q.slug
    BY <1>4 DEF Evicts
  <2> QED
    BY <1>1, <2>1, <2>2, IdleSound
<1> QED
  BY <1>1, <1>3, <1>4

LEMMA GoneFacts ==
    ASSUME SlugIInv, NEW e \in Slugs, Gone(e), UNCHANGED row
    PROVE  /\ cache' \in [Slugs -> Ids \cup {"none", "null"}] /\ excuse' \in [Slugs -> 0..1]
           /\ \A s \in Slugs : s # e => cache'[s] = cache[s] /\ excuse'[s] = excuse[s]
           /\ \A s \in Slugs : cache'[s] \in Ids => Known(cache'[s])
           /\ ~ Misleads(e)'
<1>1. /\ cache' \in [Slugs -> Ids \cup {"none", "null"}] /\ excuse' \in [Slugs -> 0..1]
      /\ \A s \in Slugs : s # e => cache'[s] = cache[s] /\ excuse'[s] = excuse[s]
      /\ cache'[e] = "none"
  BY DEF SlugIInv, SlugTypeOK, Gone
<1>2. "none" \notin Ids
  BY SlugAssumption
<1>3. ~ Misleads(e)'
  BY <1>1, <1>2 DEF Misleads, Live
<1> QED
  BY <1>1, <1>2, <1>3 DEF SlugIInv

LEMMA EvictStep ==
    ASSUME SlugIInv, NEW p \in Handlers, Evict(p)
    PROVE  SlugIInv'
<1>1. PICK c, e : c = AfterEvict(call[p]) /\ e = EvictedSlug(call[p])
  OBVIOUS
<1>2. /\ call[p].pc \in {"evictOld", "evict"} /\ Gone(e) /\ Goto(p, c)
      /\ UNCHANGED <<row, failures, started>>
  BY <1>1 DEF Evict
<1>3. /\ e \in Slugs /\ Shape(c) /\ Sound(c)
      /\ \A s \in Slugs : Evicts(call[p], s) => s = e \/ Evicts(c, s)
  BY <1>1, <1>2, AfterEvictFacts
<1>4. /\ cache' \in [Slugs -> Ids \cup {"none", "null"}] /\ excuse' \in [Slugs -> 0..1]
      /\ \A s \in Slugs : s # e => cache'[s] = cache[s] /\ excuse'[s] = excuse[s]
      /\ \A s \in Slugs : cache'[s] \in Ids => Known(cache'[s])
      /\ ~ Misleads(e)'
  BY <1>2, <1>3, GoneFacts
<1>5. ASSUME NEW s \in Slugs, Misleads(s)' PROVE Excused(s)'
  <2>1. CASE s = e
    BY <1>4, <1>5, <2>1 DEF Misleads, Holders, Live
  <2>2. CASE s # e
    <3>1. Excused(s)
      BY <1>2, <1>4, <1>5, <2>2, MisledKept
    <3> QED
      BY <1>2, <1>3, <1>4, <2>2, <3>1, ExcusedKept
  <2> QED
    BY <2>1, <2>2
<1>6. Sizes'
  BY <1>2 DEF Sizes, SlugIInv, SlugTypeOK
<1> QED
  BY <1>2, <1>3, <1>4, <1>5, <1>6, QuietStep

LEMMA EvictLostStep ==
    ASSUME SlugIInv, NEW p \in Handlers, EvictLost(p)
    PROVE  SlugIInv'
<1>1. PICK c, e : c = AfterEvict(call[p]) /\ e = EvictedSlug(call[p])
  OBVIOUS
<1>2. /\ call[p].pc \in {"evictOld", "evict"} /\ Failure /\ Goto(p, c)
      /\ excuse' = [excuse EXCEPT ![e] = 1] /\ UNCHANGED <<row, cache, started>>
  BY <1>1 DEF EvictLost
<1>3. /\ e \in Slugs /\ Shape(c) /\ Sound(c)
      /\ \A s \in Slugs : Evicts(call[p], s) => s = e \/ Evicts(c, s)
  BY <1>1, <1>2, AfterEvictFacts
<1>4. /\ excuse' \in [Slugs -> 0..1] /\ excuse'[e] = 1
      /\ \A s \in Slugs : s # e => excuse'[s] = excuse[s]
      /\ cache' \in [Slugs -> Ids \cup {"none", "null"}]
  BY <1>2, <1>3 DEF SlugIInv, SlugTypeOK
<1>5. ASSUME NEW s \in Slugs, Misleads(s)' PROVE Excused(s)'
  <2>1. CASE s = e
    BY <1>4, <2>1 DEF Excused
  <2>2. CASE s # e
    <3>1. Excused(s)
      BY <1>2, <1>5, MisledKept
    <3> QED
      BY <1>2, <1>3, <1>4, <2>2, <3>1, ExcusedKept
  <2> QED
    BY <2>1, <2>2
<1>6. Sizes'
  BY <1>2, FaultOK
<1>7. \A s \in Slugs : cache'[s] \in Ids => Known(cache'[s])
  BY <1>2 DEF SlugIInv
<1> QED
  BY <1>2, <1>3, <1>4, <1>5, <1>6, <1>7, QuietStep

LEMMA ExpireStep ==
    ASSUME SlugIInv, NEW e \in Slugs, ExpireSlug(e)
    PROVE  SlugIInv'
<1>1. Gone(e) /\ UNCHANGED <<row, call, failures, started>>
  BY DEF ExpireSlug
<1>2. /\ cache' \in [Slugs -> Ids \cup {"none", "null"}] /\ excuse' \in [Slugs -> 0..1]
      /\ \A s \in Slugs : s # e => cache'[s] = cache[s] /\ excuse'[s] = excuse[s]
      /\ \A s \in Slugs : cache'[s] \in Ids => Known(cache'[s])
      /\ ~ Misleads(e)'
  BY <1>1, GoneFacts
<1>3. SlugTypeOK' /\ Unique'
  BY <1>1, <1>2, SameRows DEF SlugIInv, SlugTypeOK, Unique
<1>4. \A s \in Slugs : (cache[s] \in Ids => Known(cache[s]))'
  BY <1>1, <1>2 DEF Known
<1>5. ASSUME NEW o \in Handlers PROVE Shape(call[o])' /\ Sound(call[o])'
  <2>1. PICK r : r = call[o] /\ r = call'[o] /\ Shape(r) /\ Sound(r)
    BY <1>1 DEF SlugIInv
  <2>2. Shape(r)' /\ Sound(r)'
    BY <1>1, <2>1, SameRows DEF SlugIInv
  <2> QED
    BY <2>1, <2>2 DEF Shape, Sound, Trusted, Found, Known, Sees
<1>6. ASSUME NEW s \in Slugs, Misleads(s)' PROVE Excused(s)'
  <2>1. CASE s = e
    BY <1>2, <1>6, <2>1 DEF Misleads, Holders, Live
  <2>2. CASE s # e
    <3>1. Excused(s)
      BY <1>1, <1>2, <1>6, <2>2, MisledKept
    <3> QED
      BY <1>1, <1>2, <2>2, <3>1 DEF Excused, Evicts
  <2> QED
    BY <2>1, <2>2
<1> QED
  BY <1>3, <1>4, <1>5, <1>6 DEF SlugIInv
-----------------------------------------------------------------------------
(* Steps that write the table.                                             *)

\* A write of article a, which had and has no slug but those of S.
RowChange(a, S) ==
    /\ a \in Ids /\ row' \in [Ids -> Row]
    /\ \A b \in Ids \ {a} : row'[b] = row[b]
    /\ a \in Live => row[a].slug \in S
    /\ a \in Live' => row'[a].slug \in S
    /\ row'[a].state # "absent"
    /\ a \in Live' /\ a \notin Live => row[a].state = "absent"

LEMMA AwayFrom ==
    ASSUME Unique, NEW a, NEW S, RowChange(a, S), NEW s, s \notin S
    PROVE  /\ Holders(s)' = Holders(s) /\ Holder(s)' = Holder(s) /\ a \notin Holders(s)
           /\ \A b \in Ids \ {a} : b \in Live' <=> b \in Live
<1>1. \A b \in Ids \ {a} : b \in Live' <=> b \in Live
  BY DEF RowChange, Live
<1>2. a \notin Holders(s) /\ a \notin Holders(s)'
  BY DEF RowChange, Holders
<1>3. \A b : b \in Holders(s) => b \in Ids
  BY DEF Holders, Live
<1>4. \A b : b \in Holders(s)' => b \in Ids
  BY DEF Holders, Live
<1>5. \A b \in Ids \ {a} : b \in Holders(s)' <=> b \in Holders(s)
  BY <1>1 DEF Holders, RowChange
<1>6. Holders(s)' = Holders(s)
  BY <1>2, <1>3, <1>4, <1>5
<1>7. Holder(s)' = Holder(s)
  <2>1. CASE Holders(s) = {}
    BY <1>6, <2>1 DEF Holder
  <2>2. CASE Holders(s) # {}
    <3>1. Holder(s) \in Holders(s)
      BY <2>2 DEF Holder
    <3>2. Holder(s)' \in Holders(s)'
      BY <1>6, <2>2 DEF Holder
    <3>3. \A x, y \in Holders(s) : x = y
      BY DEF Holders, Unique
    <3> QED
      BY <1>6, <3>1, <3>2, <3>3
  <2> QED
    BY <2>1, <2>2
<1> QED
  BY <1>1, <1>2, <1>6, <1>7

\* Ids stay known.
LEMMA ShapeKept ==
    ASSUME NEW a, NEW S, RowChange(a, S), row \in [Ids -> Row]
    PROVE  /\ \A x : Known(x) => Known(x)'
           /\ \A q : Shape(q) => Shape(q)'
<1>1. \A x : Known(x) => Known(x)'
  BY DEF RowChange, Known
<1> QED
  BY <1>1 DEF Shape

\* A handler that has looked at nothing that is written.
LEMMA UntouchedSound ==
    ASSUME Unique, NEW a, NEW S, RowChange(a, S), NEW r, Shape(r), Sound(r), ~ Touched(r, a, S)
    PROVE  Sound(r)'
<1>1. CASE r.slug = None
  <2>1. r.pc \notin Lookups \cup {"insert", "reply"}
    BY <1>1, SlugAssumption DEF Shape
  <2> QED
    BY <2>1 DEF Sound, Trusted, Lookups
<1>2. CASE r.slug # None
  <2>1. r.slug \notin S /\ Alias[r.slug] # a /\ r.slug \in Slugs
    BY <1>2 DEF Touched, Shape, ReqRec
  <2>2. /\ Holders(r.slug)' = Holders(r.slug) /\ Holder(r.slug)' = Holder(r.slug)
        /\ a \notin Holders(r.slug)
        /\ \A b \in Ids \ {a} : b \in Live' <=> b \in Live
    BY <2>1, AwayFrom
  <2>3. Alias[r.slug] \in Live' <=> Alias[r.slug] \in Live
    BY <2>1, <2>2 DEF Live
  <2>4. \A b \in Ids \ {a} : \A w : Visible(b, w)' <=> Visible(b, w)
    BY DEF Visible, RowChange
  <2>5. r.pc = "fill" /\ r.over = 0 => Found(r.slug, r.got)'
    BY <2>2 DEF Sound, Found
  <2>6. ASSUME r.op \in {"get", "create"}, r.late = 0 PROVE Trusted(r)'
    <3>1. Trusted(r)
      BY <2>6 DEF Sound
    <3>2. ASSUME r.pc = "byid", r.got \in Live' PROVE row'[r.got].slug = r.slug
      <4>1. r.got \in Ids /\ row[r.got].state # "absent"
        BY <3>2 DEF Shape, Known
      <4>2. r.got \in Live
        BY <2>2, <3>2, <4>1 DEF RowChange
      <4>3. row[r.got].slug = r.slug
        BY <3>1, <3>2, <4>2 DEF Trusted
      <4>4. r.got # a
        BY <2>1, <4>2, <4>3 DEF RowChange
      <4> QED
        BY <4>1, <4>3, <4>4 DEF RowChange
    <3>3. ASSUME r.op = "get", r.pc = "fill" PROVE r.pub = 1 <=> Sees(r, r.got)'
      <4>1. r.over = 0 /\ (r.pub = 1 <=> Sees(r, r.got))
        BY <3>1, <3>3 DEF Trusted
      <4>2. r.got # None => r.got \in Ids /\ r.got # a
        BY <2>2, <3>3, <4>1 DEF Sound, Found, Shape, ReqRec
      <4> QED
        BY <2>4, <4>1, <4>2 DEF Sees
    <3>4. Expected(r.slug, r.who)' = Expected(r.slug, r.who)
      <4>1. PICK h : h = IF Alias[r.slug] \in Live THEN Alias[r.slug] ELSE Holder(r.slug)
        OBVIOUS
      <4>2. h # None => h \in Ids /\ h # a
        <5>1. Holder(r.slug) # None => Holder(r.slug) \in Holders(r.slug)
          BY DEF Holder
        <5> QED
          BY <2>1, <2>2, <4>1, <5>1 DEF Holders, Live
      <4>3. Expected(r.slug, r.who) = IF h # None /\ Visible(h, r.who) THEN h ELSE None
        BY <4>1 DEF Expected
      <4>4. Expected(r.slug, r.who)' = IF h # None /\ Visible(h, r.who)' THEN h ELSE None
        BY <2>2, <2>3, <4>1 DEF Expected, Visible
      <4> QED
        BY <2>4, <4>2, <4>3, <4>4
    <3> QED
      BY <2>2, <2>3, <3>1, <3>2, <3>3, <3>4 DEF Trusted
  <2> QED
    BY <2>5, <2>6 DEF Sound
<1> QED
  BY <1>1, <1>2

LEMMA OvertakenSound ==
    ASSUME NEW t, NEW r, Overtaken(t, r), Shape(r)'
    PROVE  Shape(t)' /\ Sound(t)'
<1>1. Shape(t)'
  BY DEF Overtaken, Same, Shape
<1>2. Sound(t)'
  BY DEF Overtaken, Same, Sound
<1> QED
  BY <1>1, <1>2

LEMMA WriteOK ==
    ASSUME SlugIInv, NEW p \in Handlers, NEW q, NEW a, NEW S, RowChange(a, S), Touch(p, q, a, S),
           Shape(q)', Sound(q)', Unique', UNCHANGED cache, Sizes', excuse' \in [Slugs -> 0..1],
           call[p].pc \notin {"evictOld", "evict"},
           \A s \in Slugs : excuse[s] = 1 => excuse'[s] = 1,
           \A s \in Slugs : Misleads(s)' => Misleads(s) \/ excuse'[s] = 1 \/ Evicts(q, s)
    PROVE  SlugIInv'
<1>1. q \in ReqRec /\ row \in [Ids -> Row]
  BY DEF Shape, SlugIInv, SlugTypeOK
<1>2. /\ call' \in [Handlers -> ReqRec] /\ call'[p] = q
      /\ \A o \in Handlers \ {p} : IF Touched(call[o], a, S) THEN Overtaken(call'[o], call[o])
                                ELSE call'[o] = call[o]
  BY <1>1, TouchFacts
<1>3. SlugTypeOK'
  BY <1>2 DEF SlugIInv, SlugTypeOK, ReqRec, Places, Sizes, RowChange
<1>4. \A s \in Slugs : (cache[s] \in Ids => Known(cache[s]))'
  <2>1. ASSUME NEW s \in Slugs, cache[s] \in Ids PROVE Known(cache[s])'
    <3>1. PICK v : v = cache[s] /\ v = cache'[s] /\ Known(v)
      BY <2>1 DEF SlugIInv
    <3>2. Known(v)'
      BY <1>1, <3>1, ShapeKept
    <3> QED
      BY <3>1, <3>2 DEF Known
  <2> QED
    BY <2>1
<1>5. ASSUME NEW o \in Handlers PROVE Shape(call[o])' /\ Sound(call[o])'
  <2>1. PICK t, r : t = call'[o] /\ r = call[o] /\ Shape(r) /\ Sound(r)
    BY DEF SlugIInv
  <2>2. Shape(r)'
    BY <1>1, <2>1, ShapeKept
  <2>3. Shape(t)' /\ Sound(t)'
    <3>1. CASE o = p
      BY <1>2, <2>1, <3>1
    <3>2. CASE o # p /\ Touched(r, a, S)
      BY <1>2, <2>1, <2>2, <3>2, OvertakenSound
    <3>3. CASE o # p /\ ~ Touched(r, a, S)
      <4>1. t = r
        BY <1>2, <2>1, <3>3
      <4>2. Sound(r)'
        BY <2>1, <3>3, UntouchedSound DEF SlugIInv
      <4> QED
        BY <2>2, <4>1, <4>2
    <3> QED
      BY <3>1, <3>2, <3>3
  <2> QED
    BY <2>1, <2>3 DEF Shape, Sound, Trusted, Found, Known, Sees
<1>6. ASSUME NEW s \in Slugs, Misleads(s)' PROVE Excused(s)'
  <2>1. CASE excuse'[s] = 1
    BY <2>1 DEF Excused
  <2>2. CASE Evicts(q, s)
    BY <1>2, <2>2 DEF Excused, Evicts
  <2>3. CASE Misleads(s) /\ excuse'[s] # 1
    <3>1. PICK o \in Handlers : Evicts(call[o], s)
      BY <2>3 DEF SlugIInv, Excused
    <3>2. o # p
      BY <3>1 DEF Evicts
    <3>3. call'[o].pc = call[o].pc /\ call'[o].slug = call[o].slug /\ call'[o].old = call[o].old
      BY <1>2, <3>2 DEF Overtaken, Same
    <3>4. Evicts(call[o], s)'
      BY <3>1, <3>3 DEF Evicts
    <3> QED
      BY <3>4 DEF Excused
  <2> QED
    BY <1>6, <2>1, <2>2, <2>3
<1> QED
  BY <1>3, <1>4, <1>5, <1>6 DEF SlugIInv

LEMMA InsertStep ==
    ASSUME SlugIInv, NEW p \in Handlers, NEW a \in Ids, Insert(p, a)
    PROVE  SlugIInv'
<1>1. PICK s : s = call[p].slug
  OBVIOUS
<1>2. call[p].pc = "insert" /\ s \in Slugs /\ started' \in 0..MaxRequests
  BY <1>1, AtOK DEF Insert, Shape
<1>3. /\ row[a].state = "absent" /\ Holders(s) = {}
      /\ row' = [row EXCEPT ![a] = [state |-> "live", slug |-> s, pub |-> 0]]
      /\ excuse' = [excuse EXCEPT ![s] = IF cache[s] = "null" THEN 1 ELSE @]
      /\ Touch(p, Idle, a, {s}) /\ UNCHANGED <<cache, failures>>
  BY <1>1, Covered DEF Insert
<1>4. /\ row \in [Ids -> Row] /\ excuse \in [Slugs -> 0..1]
      /\ cache \in [Slugs -> Ids \cup {"none", "null"}] /\ failures \in 0..MaxFailures
  BY DEF SlugIInv, SlugTypeOK
<1>5. /\ row' \in [Ids -> Row] /\ row'[a].state = "live" /\ row'[a].slug = s
      /\ \A b \in Ids \ {a} : row'[b] = row[b]
  BY <1>2, <1>3, <1>4 DEF Row
<1>6. Live' = Live \cup {a} /\ a \notin Live
  BY <1>3, <1>5 DEF Live
<1>7. RowChange(a, {s})
  BY <1>3, <1>5, <1>6 DEF RowChange
<1>8. Unique'
  <2>1. \A b \in Live : b \in Ids /\ b # a /\ row'[b] = row[b] /\ row[b].slug # s
    BY <1>3, <1>5, <1>6 DEF Live, Holders
  <2> QED
    BY <1>2, <1>5, <1>6, <2>1 DEF Unique, SlugIInv
<1>9. /\ excuse' \in [Slugs -> 0..1] /\ \A x \in Slugs : excuse[x] = 1 => excuse'[x] = 1
      /\ cache[s] = "null" => excuse'[s] = 1
  BY <1>2, <1>3, <1>4
<1>10. ASSUME NEW x \in Slugs, Misleads(x)' PROVE Misleads(x) \/ excuse'[x] = 1
  <2>1. cache'[x] = cache[x]
    BY <1>3
  <2>2. CASE cache[x] = "null" /\ Holders(x)' # {}
    <3>1. CASE x = s
      BY <1>9, <2>2, <3>1
    <3>2. CASE x # s
      <4>1. Holders(x)' = Holders(x)
        BY <1>7, <3>2, AwayFrom DEF SlugIInv
      <4> QED
        BY <2>2, <4>1 DEF Misleads
    <3> QED
      BY <3>1, <3>2
  <2>3. CASE cache[x] \in Live' /\ row'[cache[x]].slug # x
    <3>1. cache[x] \in Ids
      BY <2>3 DEF Live
    <3>2. cache[x] # a
      BY <1>3, <3>1 DEF SlugIInv, Known
    <3> QED
      BY <1>5, <1>6, <2>3, <3>1, <3>2 DEF Misleads
  <2> QED
    BY <1>10, <2>1, <2>2, <2>3 DEF Misleads
<1>11. Sizes'
  BY <1>2, <1>3, <1>4 DEF Sizes
<1> QED
  BY <1>2, <1>3, <1>7, <1>8, <1>9, <1>10, <1>11, IdleSound, WriteOK

\* Where a write leads.
LEMMA ToEvictFacts ==
    ASSUME NEW q, q.slug \in Slugs, q.old \in Slugs \cup {None}
    PROVE  LET e == ToEvict(q) IN
           /\ Shape(e)' /\ Sound(e)' /\ Evicts(e, q.slug)
           /\ q.old # None => Evicts(e, q.old)
<1>1. CASE q.old \in {None, q.slug}
  <2>1. PICK e : e = [Idle EXCEPT !.pc = "evict", !.slug = q.slug]
    OBVIOUS
  <2>2. e \in ReqRec
    <3>1. [Idle EXCEPT !.pc = "evict"] \in ReqRec
      BY IdleOK, SetPc DEF Places
    <3>2. [Idle EXCEPT !.pc = "evict", !.slug = q.slug] \in ReqRec
      BY <3>1, SetSlug
    <3> QED
      BY <2>1, <3>2
  <2>3. e.pc = "evict" /\ e.op = "none" /\ e.slug = q.slug
    BY <2>1 DEF Idle
  <2>4. e = ToEvict(q)
    BY <1>1, <2>1 DEF ToEvict
  <2>5. Shape(e)' /\ Sound(e)'
    BY <2>2, <2>3 DEF Shape, Sound, Lookups
  <2>6. Evicts(e, q.slug) /\ (q.old # None => Evicts(e, q.old))
    BY <1>1, <2>3 DEF Evicts
  <2> QED
    BY <2>4, <2>5, <2>6
<1>2. CASE q.old \notin {None, q.slug}
  <2>1. PICK e : e = [Idle EXCEPT !.pc = "evictOld", !.slug = q.slug, !.old = q.old]
    OBVIOUS
  <2>2. e \in ReqRec
    <3>1. [Idle EXCEPT !.pc = "evictOld"] \in ReqRec
      BY IdleOK, SetPc DEF Places
    <3>2. [Idle EXCEPT !.pc = "evictOld", !.slug = q.slug] \in ReqRec
      BY <3>1, SetSlug
    <3>3. [Idle EXCEPT !.pc = "evictOld", !.slug = q.slug, !.old = q.old] \in ReqRec
      BY <3>2, SetOld
    <3> QED
      BY <2>1, <3>3
  <2>3. e.pc = "evictOld" /\ e.op = "none" /\ e.slug = q.slug /\ e.old = q.old
    BY <2>1 DEF Idle
  <2>4. e = ToEvict(q)
    BY <1>2, <2>1 DEF ToEvict
  <2>5. Shape(e)' /\ Sound(e)'
    BY <1>2, <2>2, <2>3 DEF Shape, Sound, Lookups
  <2>6. Evicts(e, q.slug) /\ Evicts(e, q.old)
    BY <2>3 DEF Evicts
  <2> QED
    BY <2>4, <2>5, <2>6
<1> QED
  BY <1>1, <1>2

LEMMA WriteStep ==
    ASSUME SlugIInv, NEW p \in Handlers, Write(p)
    PROVE  SlugIInv'
<1>1. PICK q, a, was : q = call[p] /\ a = q.a /\ was = row[a].slug
  OBVIOUS
<1>2. q.pc = "write" /\ q \in ReqRec /\ Shape(q) /\ started' = started
  BY <1>1, AtOK DEF Write
<1>3. q.slug \in Slugs /\ q.old \in Slugs \cup {None} /\ q.pub \in 0..1
  BY <1>2 DEF Shape, ReqRec
<1>4. /\ row \in [Ids -> Row] /\ excuse \in [Slugs -> 0..1]
      /\ cache \in [Slugs -> Ids \cup {"none", "null"}]
  BY DEF SlugIInv, SlugTypeOK
<1>5. Sizes' /\ UNCHANGED cache
  BY <1>2 DEF Write, Sizes, SlugIInv, SlugTypeOK
<1>6. CASE a \in Live /\ Entries(q.slug) \subseteq {a}
  <2>1. PICK e : e = ToEvict(q)
    OBVIOUS
  <2>2. /\ row' = [row EXCEPT ![a].slug = q.slug, ![a].pub = q.pub]
        /\ excuse' = [excuse EXCEPT ![was] = IF was \in {q.slug, q.old} THEN @ ELSE 1]
        /\ Touch(p, e, a, {was, q.slug})
    BY <1>1, <1>6, <2>1 DEF Write
  <2>3. Shape(e)' /\ Sound(e)' /\ Evicts(e, q.slug) /\ (q.old # None => Evicts(e, q.old))
    BY <1>3, <2>1, ToEvictFacts
  <2>4. a \in Ids /\ was \in Slugs
    BY <1>1, <1>6 DEF Live, SlugIInv, Unique
  <2>5. /\ row' \in [Ids -> Row] /\ row'[a].state = row[a].state /\ row'[a].slug = q.slug
        /\ \A b \in Ids \ {a} : row'[b] = row[b]
    BY <1>3, <1>4, <2>2, <2>4 DEF Row
  <2>6. Live' = Live
    BY <2>5 DEF Live
  <2>7. RowChange(a, {was, q.slug})
    BY <1>1, <1>6, <2>4, <2>5, <2>6 DEF RowChange, Live
  <2>8. Unique'
    <3>1. \A b \in Live : b # a => b \in Ids /\ row'[b] = row[b] /\ row[b].slug # q.slug
      BY <1>6, <2>5, Covered DEF Live, Holders
    <3> QED
      BY <1>3, <2>5, <2>6, <3>1 DEF Unique, SlugIInv
  <2>9. /\ excuse' \in [Slugs -> 0..1] /\ \A x \in Slugs : excuse[x] = 1 => excuse'[x] = 1
        /\ was \notin {q.slug, q.old} => excuse'[was] = 1
    BY <1>4, <2>2, <2>4
  <2>10. excuse'[was] = 1 \/ Evicts(e, was)
    BY <2>3, <2>4, <2>9, SlugAssumption
  <2>11. ASSUME NEW x \in Slugs, Misleads(x)' PROVE Misleads(x) \/ excuse'[x] = 1 \/ Evicts(e, x)
    <3>1. CASE x \in {was, q.slug}
      BY <2>3, <2>10, <3>1
    <3>2. CASE x \notin {was, q.slug}
      <4>1. Holders(x)' = Holders(x)
        BY <2>7, <3>2, AwayFrom DEF SlugIInv
      <4>2. cache[x] \in Live => (row'[cache[x]].slug # x => row[cache[x]].slug # x)
        BY <1>1, <2>5, <3>2 DEF Live
      <4> QED
        BY <1>5, <2>6, <2>11, <4>1, <4>2 DEF Misleads
    <3> QED
      BY <3>1, <3>2
  <2> QED
    BY <1>1, <1>2, <1>5, <2>2, <2>3, <2>7, <2>8, <2>9, <2>11, WriteOK
<1>7. CASE ~ (a \in Live /\ Entries(q.slug) \subseteq {a})
  <2>1. Goto(p, Idle) /\ UNCHANGED <<row, cache, excuse>>
    BY <1>1, <1>7 DEF Write
  <2> QED
    BY <1>1, <1>2, <1>5, <2>1, IdleSound, QuietGo
<1> QED
  BY <1>6, <1>7

LEMMA SoftDeleteStep ==
    ASSUME SlugIInv, NEW p \in Handlers, SoftDelete(p)
    PROVE  SlugIInv'
<1>1. PICK q, a, was, e : q = call[p] /\ a = q.a /\ was = row[a].slug /\ e = ToEvict(q)
  OBVIOUS
<1>2. q.pc = "delete" /\ q \in ReqRec /\ Shape(q) /\ started' = started
  BY <1>1, AtOK DEF SoftDelete
<1>3. q.slug \in Slugs /\ q.old = None /\ a \in Ids
  BY <1>1, <1>2 DEF Shape, Known
<1>4. /\ row \in [Ids -> Row] /\ excuse \in [Slugs -> 0..1]
      /\ cache \in [Slugs -> Ids \cup {"none", "null"}]
  BY DEF SlugIInv, SlugTypeOK
<1>5. Sizes' /\ UNCHANGED <<cache, excuse>>
  BY <1>2 DEF SoftDelete, Sizes, SlugIInv, SlugTypeOK
<1>6. row' = [row EXCEPT ![a].state = "deleted"] /\ Touch(p, e, a, {was})
  BY <1>1 DEF SoftDelete
<1>7. Shape(e)' /\ Sound(e)'
  BY <1>1, <1>3, ToEvictFacts
<1>8. /\ row' \in [Ids -> Row] /\ row'[a].state = "deleted"
      /\ \A b \in Ids \ {a} : row'[b] = row[b]
  BY <1>3, <1>4, <1>6 DEF Row
<1>9. Live' = Live \ {a}
  BY <1>3, <1>8 DEF Live
<1>10. RowChange(a, {was})
  BY <1>1, <1>3, <1>8, <1>9 DEF RowChange
<1>11. \A b \in Live' : b \in Live /\ b \in Ids /\ row'[b] = row[b]
  BY <1>8, <1>9 DEF Live
<1>12. Unique'
  BY <1>11 DEF Unique, SlugIInv
<1>13. ASSUME NEW x \in Slugs, Misleads(x)' PROVE Misleads(x)
  <2>1. Holders(x)' \subseteq Holders(x)
    BY <1>11 DEF Holders
  <2> QED
    BY <1>5, <1>11, <1>13, <2>1 DEF Misleads
<1> QED
  BY <1>1, <1>2, <1>4, <1>5, <1>6, <1>7, <1>10, <1>12, <1>13, WriteOK
-----------------------------------------------------------------------------
(* The inductive invariant and what follows from it.                       *)

LEMMA InitOK == SlugInit => SlugIInv
<1> SUFFICES ASSUME SlugInit PROVE SlugIInv
  OBVIOUS
<1>1. row \in [Ids -> Row]
  BY DEF SlugInit, Row
<1>2. /\ cache \in [Slugs -> Ids \cup {"none", "null"}] /\ excuse \in [Slugs -> 0..1]
      /\ call \in [Handlers -> ReqRec] /\ failures \in 0..MaxFailures /\ started \in 0..MaxRequests
  BY IdleOK, SlugAssumption DEF SlugInit
<1>3. SlugTypeOK
  BY <1>1, <1>2 DEF SlugTypeOK, ReqRec, Places
<1>4. Unique
  BY DEF SlugInit, Unique, Live
<1>5. \A s \in Slugs : cache[s] = "none" /\ "none" \notin Ids /\ ~ Misleads(s)
  BY SlugAssumption DEF SlugInit, Misleads, Live
<1>6. \A p \in Handlers : Shape(call[p]) /\ Sound(call[p])
  BY IdleSound DEF SlugInit
<1> QED
  BY <1>3, <1>4, <1>5, <1>6 DEF SlugIInv

LEMMA StutterOK ==
    ASSUME SlugIInv, UNCHANGED slugVars
    PROVE  SlugIInv'
<1>1. UNCHANGED <<row, cache, call, failures, started, excuse>>
  BY DEF slugVars
<1>2. SlugTypeOK' /\ Unique'
  BY <1>1, SameRows DEF SlugIInv, SlugTypeOK, Unique
<1>3. \A s \in Slugs : (cache[s] \in Ids => Known(cache[s]))'
  BY <1>1 DEF Known, SlugIInv
<1>4. ASSUME NEW o \in Handlers PROVE Shape(call[o])' /\ Sound(call[o])'
  <2>1. PICK r : r = call[o] /\ r = call'[o] /\ Shape(r) /\ Sound(r)
    BY <1>1 DEF SlugIInv
  <2>2. Shape(r)' /\ Sound(r)'
    BY <1>1, <2>1, SameRows DEF SlugIInv
  <2> QED
    BY <2>1, <2>2 DEF Shape, Sound, Trusted, Found, Known, Sees
<1>5. ASSUME NEW s \in Slugs, Misleads(s)' PROVE Excused(s)'
  <2>1. Excused(s)
    BY <1>1, <1>5, MisledKept
  <2> QED
    BY <1>1, <2>1 DEF Excused, Evicts
<1> QED
  BY <1>2, <1>3, <1>4, <1>5 DEF SlugIInv

LEMMA StepKeeps == SlugIInv /\ [SlugNext]_slugVars => SlugIInv'
<1> SUFFICES ASSUME SlugIInv, [SlugNext]_slugVars PROVE SlugIInv'
  OBVIOUS
<1>1. CASE UNCHANGED slugVars
  BY <1>1, StutterOK
<1>2. ASSUME NEW s \in Slugs, ExpireSlug(s) PROVE SlugIInv'
  BY <1>2, ExpireStep
<1>3. ASSUME NEW p \in Handlers,
             \/ ReadCache(p) \/ FindByID(p) \/ FindByIDFails(p) \/ QuerySlug(p) \/ QueryFails(p)
             \/ Fill(p) \/ Evict(p) \/ EvictLost(p)
      PROVE  SlugIInv'
  BY <1>3, ReadCacheStep, FindByIDStep, QuerySlugStep, QueryFailsStep, FillStep, EvictStep,
     EvictLostStep
<1>4. ASSUME NEW p \in Handlers,
             \/ Reply(p) \/ Conflict(p) \/ Fails(p) \/ SelectOld(p) \/ SelectOldFails(p)
             \/ Write(p) \/ SelectSlug(p) \/ SoftDelete(p)
      PROVE  SlugIInv'
  BY <1>4, GiveUpStep, SelectOldStep, SelectOldFailsStep, WriteStep, SelectSlugStep,
     SoftDeleteStep
<1>5. ASSUME NEW p \in Handlers,
             \/ \E s \in Slugs, who \in Readers :
                   GetArticle(p, s, who) \/ GetArticleFails(p, s, who)
             \/ \E t \in Titles : CreateArticle(p, t)
             \/ \E a \in Ids :
                   \/ Insert(p, a) \/ DeleteArticle(p, a)
                   \/ \E t \in Titles : UpdateArticle(p, a, t)
                   \/ \E pub \in 0..1 : SaveArticle(p, a, pub)
      PROVE  SlugIInv'
  BY <1>5, GetArticleStep, GetArticleFailsStep, CreateArticleStep, InsertStep, DeleteArticleStep,
     UpdateArticleStep, SaveArticleStep
<1> QED
  BY <1>1, <1>2, <1>3, <1>4, <1>5 DEF SlugNext

\* Whatever requests, writes, evictions and failures interleave, a handler of FindBySlug
\* that nothing has overtaken or misled is right about its slug, the unique index keeps
\* the slugs of live articles apart, and a misleading cache entry has its cause.
THEOREM SlugInductive == SlugSpec => []SlugIInv
  BY InitOK, StepKeeps, PTL DEF SlugSpec

\* FindBySlug is misled by its cache only after one of the named causes, whatever the
\* handlers of articles do and however many there are.
THEOREM MisledOnlyExcused == SlugSpec => []MisledExcused
<1>1. SlugIInv => MisledExcused
  BY DEF SlugIInv, MisledExcused
<1> QED
  BY SlugInductive, <1>1, PTL

LEMMA ListsVisible == ListsOnlyVisible
<1> SUFFICES ASSUME NEW who \in Users \cup {Anon}, NEW status \in {"published", "draft"},
                    NEW by \in Users \cup {None}, NEW a \in ListArticles(status, by, who) \cup Search
             PROVE  Visible(a, who)
  BY DEF ListsOnlyVisible
<1>1. CASE a \in Search
  BY <1>1 DEF Search, Visible
<1>2. CASE a \in ListArticles(status, by, who)
  <2>1. ListAllowed(status, by, who) /\ a \in List(status, by)
    BY <1>2 DEF ListArticles
  <2>2. CASE status = "published"
    BY <2>1, <2>2 DEF List, Visible
  <2>3. CASE who = Admin
    BY <2>3 DEF Visible
  <2>4. CASE by = who /\ who # Anon
    <3>1. by # None /\ by = Author[a]
      BY <2>1, <2>4, SlugAssumption DEF List
    <3> QED
      BY <2>4, <3>1 DEF Visible
  <2> QED
    BY <2>1, <2>2, <2>3, <2>4 DEF ListAllowed
<1> QED
  BY <1>1, <1>2

\* GetArticle's answers are right unless a cause applied, and no list or search shows
\* an article that GetArticle hides.
THEOREM AnswersAreRight == SlugSpec => []AnswersRight
<1>1. SlugIInv => AnswersRight
  <2> SUFFICES ASSUME SlugIInv, NEW p \in Handlers, call[p].pc = "reply", call[p].late = 0
               PROVE  call[p].got = Expected(call[p].slug, call[p].who)
    BY ListsVisible DEF AnswersRight
  <2>1. call[p].op = "get" /\ Sound(call[p])
    BY DEF SlugIInv, Shape
  <2> QED
    BY <2>1 DEF Sound, Trusted
<1> QED
  BY SlugInductive, <1>1, PTL

\* The unique index refuses a CreateArticle only when ensureUniqueSlug was misled or the
\* index keeps the slug for a deleted article, whichever rows the index covers.
THEOREM ConflictsExcused == SlugSpec => ConflictExcused
<1>1. SlugIInv /\ [SlugNext]_slugVars 
      => [\A p \in Handlers : Conflict(p)
             => call[p].late = 1 \/ KeptByDeleted(call[p].slug)]_slugVars
  <2> SUFFICES ASSUME SlugIInv, NEW p \in Handlers, Conflict(p), ~KeptByDeleted(call[p].slug)
               PROVE  call[p].late = 1
    OBVIOUS
  <2>1. PICK q : q = call[p] /\ q.pc = "insert" /\ q \in ReqRec /\ Shape(q) /\ Sound(q)
    BY AtOK DEF Conflict
  <2>2. Holders(q.slug) # {} /\ q.op = "create"
    BY <2>1, Covered DEF Conflict, Shape, KeptByDeleted
  <2>3. q.late # 0
    BY <2>1, <2>2 DEF Sound, Trusted
  <2> QED
    BY <2>1, <2>3 DEF ReqRec
<1> QED
  BY SlugInductive, <1>1, PTL DEF SlugSpec, ConflictExcused
==============================================================================
