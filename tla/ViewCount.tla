------------------------------ MODULE ViewCount ------------------------------
(***************************************************************************)
(* Article views: ViewArticle deduplicates by client IP and counts in      *)
(* Redis, and a background goroutine moves the Redis increments to the     *)
(* articles table.  Every Redis command and every SQL transaction is a     *)
(* step of its own: requests run between the MGET, the UPDATE and the DELs *)
(* of a flush, the flush of a shutdown runs beside that of the ticker, and *)
(* the process may die anywhere.  Redis and the database outlive it.       *)
(***************************************************************************)
EXTENDS Integers, FiniteSets

CONSTANTS
    Articles,   \* article ids (non-zero: id 0 is refused before any effect)
    IPs,        \* client addresses
    Procs,      \* request goroutines
    MaxViews,   \* bound on the number of ViewArticle calls
    MaxFaults   \* bound on failing commands, expiries, stops and crashes

ASSUME ConstantsAssumption == IsFiniteSet(Procs) /\ MaxViews \in Nat /\ MaxFaults \in Nat

VARIABLES
    dedup,    \* ley:article:dedup:* keys in Redis
    view,     \* ley:article:view:{id}, 0 when the key does not exist
    timed,    \* the view keys that have a TTL
    db,       \* articles.view_count
    req,      \* ViewArticle calls under way
    flush,    \* the two runs of flushViewCounts that can be under way
    stopping, \* close(done) has been called: 0 or 1
    views,    \* ViewArticle calls so far
    faults,   \* faults so far
    counted,  \* history: views counted, in Redis or in the database
    late,     \* history: views that Redis lost or may lose, see Incr and Expired
    redo,     \* history: 1 once a flush read increments another one had to delete
    seen,     \* history: views counted per article and IP
    slots     \* history: views that the dedup window allows per article and IP

redis == <<dedup, view, timed>>
history == <<late, redo, counted, seen, slots>>
vars == <<redis, db, req, flush, stopping, views, faults, history>>

\* The ticker goroutine, and the final flush of the function that stops it.
Flushers == {"ticker", "final"}

NoCounts == [a \in Articles |-> 0]
NoFlush == [pc |-> "idle", keys |-> {}, counts |-> NoCounts]
Flush == [pc: {"idle", "scan", "mget", "update", "delete"}, keys: SUBSET Articles,
          counts: [Articles -> Nat]]

NoRequest == [pc |-> "idle", a |-> 0, ip |-> 0]
Request == [pc: {"idle"}, a: {0}, ip: {0}]
             \cup [pc: {"incr", "expire", "db"}, a: Articles, ip: IPs]

TypeOK ==
    /\ dedup \subseteq Articles \X IPs
    /\ view \in [Articles -> Nat]
    /\ timed \subseteq Articles
    /\ db \in [Articles -> Nat]
    /\ req \in [Procs -> Request]
    /\ flush \in [Flushers -> Flush]
    /\ stopping \in {0, 1}
    /\ views \in 0..MaxViews
    /\ faults \in 0..MaxFaults
    /\ counted \in [Articles -> Nat]
    /\ late \in [Articles -> Nat]
    /\ redo \in {0, 1}
    /\ seen \in [Articles \X IPs -> Nat]
    /\ slots \in [Articles \X IPs -> Nat]

Init ==
    /\ dedup = {} /\ timed = {}
    /\ view = [a \in Articles |-> 0]
    /\ db = [a \in Articles |-> 0]
    /\ req = [p \in Procs |-> NoRequest]
    /\ flush = [f \in Flushers |-> NoFlush]
    /\ stopping = 0 /\ views = 0 /\ faults = 0 /\ redo = 0
    /\ counted = [a \in Articles |-> 0]
    /\ late = [a \in Articles |-> 0]
    /\ seen = [k \in Articles \X IPs |-> 0]
    /\ slots = [k \in Articles \X IPs |-> 1]

\* The next step of a request and of a flush.
Continue(p, pc) == req' = [req EXCEPT ![p] = [pc |-> pc, a |-> req[p].a, ip |-> req[p].ip]]
Proceed(f, pc, keys, counts) ==
    flush' = [flush EXCEPT ![f] = [pc |-> pc, keys |-> keys, counts |-> counts]]
Return(f) == flush' = [flush EXCEPT ![f] = NoFlush]

\* A failure; a behaviour has at most MaxFaults.
Fault == faults < MaxFaults /\ faults' = faults + 1
-----------------------------------------------------------------------------
(* ViewArticle                                                             *)

\* SETNX of the dedup key: it is granted when the key does not exist.
GrantAlways(k) == TRUE
Grant(k) == k \notin dedup

ViewArticle(p, a, ip) ==
    /\ req[p].pc = "idle" /\ views < MaxViews
    /\ views' = views + 1
    /\ IF Grant(<<a, ip>>)
       THEN /\ dedup' = dedup \cup {<<a, ip>>}
            /\ req' = [req EXCEPT ![p] = [pc |-> "incr", a |-> a, ip |-> ip]]
       ELSE UNCHANGED <<dedup, req>>       \* counted = false
    /\ UNCHANGED <<view, timed, db, flush, stopping, faults, history>>

\* A failing SETNX: the view goes to the database, whatever the window says.
ViewArticleFallback(p, a, ip) ==
    /\ req[p].pc = "idle" /\ views < MaxViews /\ Fault
    /\ views' = views + 1
    /\ req' = [req EXCEPT ![p] = [pc |-> "db", a |-> a, ip |-> ip]]
    /\ slots' = [slots EXCEPT ![<<a, ip>>] = @ + 1]
    /\ UNCHANGED <<redis, db, flush, stopping, late, redo, counted, seen>>

CountView(p) ==
    /\ counted' = [counted EXCEPT ![req[p].a] = @ + 1]
    /\ seen' = [seen EXCEPT ![<<req[p].a, req[p].ip>>] = @ + 1]

\* Some flush has read the key and will delete it, whatever it holds by then.
Doomed(a) == \E f \in Flushers : flush[f].pc \in {"update", "delete"} /\ a \in flush[f].keys

\* INCR of the view key.
Incr(p) ==
    LET a == req[p].a IN
    /\ req[p].pc = "incr"
    /\ view' = [view EXCEPT ![a] = @ + 1]
    /\ CountView(p)
    /\ late' = IF Doomed(a) THEN [late EXCEPT ![a] = @ + 1] ELSE late
    /\ Continue(p, "expire")
    /\ UNCHANGED <<dedup, timed, db, flush, stopping, views, faults, redo, slots>>

IncrFails(p) ==
    /\ req[p].pc = "incr" /\ Fault
    /\ Continue(p, "db")
    /\ UNCHANGED <<redis, db, flush, stopping, views, history>>

\* EXPIRE refreshes the TTL of the view key; its error is ignored.
Expire(p) ==
    /\ req[p].pc = "expire"
    /\ \/ timed' = IF view[req[p].a] > 0 THEN timed \cup {req[p].a} ELSE timed
       \/ UNCHANGED timed
    /\ req' = [req EXCEPT ![p] = NoRequest]
    /\ UNCHANGED <<dedup, view, db, flush, stopping, views, faults, history>>

\* IncrementView, the fallback: one atomic UPDATE of the article.
IncrementView(p) ==
    /\ req[p].pc = "db"
    /\ db' = [db EXCEPT ![req[p].a] = @ + 1]
    /\ CountView(p)
    /\ req' = [req EXCEPT ![p] = NoRequest]
    /\ UNCHANGED <<redis, flush, stopping, views, faults, late, redo, slots>>

\* A failing UPDATE fails the request; the dedup key stays.
IncrementViewFails(p) ==
    /\ req[p].pc = "db" /\ Fault
    /\ req' = [req EXCEPT ![p] = NoRequest]
    /\ UNCHANGED <<redis, db, flush, stopping, views, history>>
-----------------------------------------------------------------------------
(* flushViewCounts                                                         *)

\* The ticker goroutine also takes a tick that is ready along with done.
Tick ==
    /\ flush["ticker"].pc = "idle"
    /\ Proceed("ticker", "scan", {}, NoCounts)
    /\ UNCHANGED <<redis, db, req, stopping, views, faults, history>>

\* The stop function closes done and flushes once more, without waiting for a
\* flush of the ticker goroutine that is under way.
Stop ==
    /\ stopping = 0 /\ Fault
    /\ stopping' = 1
    /\ Proceed("final", "scan", {}, NoCounts)
    /\ UNCHANGED <<redis, db, req, views, history>>

\* ScanAll; no keys end the flush.
ScanAllMismatch(f) ==
    /\ flush[f].pc = "scan"
    /\ Return(f)
    /\ UNCHANGED <<redis, db, req, stopping, views, faults, history>>
ScanAll(f) ==
    LET keys == {a \in Articles : view[a] > 0} IN
    /\ flush[f].pc = "scan"
    /\ IF keys = {} THEN Return(f) ELSE Proceed(f, "mget", keys, NoCounts)
    /\ UNCHANGED <<redis, db, req, stopping, views, faults, history>>

\* MGet: keys that are gone by now are missing from the result, and an empty
\* result ends the flush.
MGet(f) ==
    LET keys == flush[f].keys
        counts == [a \in Articles |-> IF a \in keys THEN view[a] ELSE 0]
    IN  /\ flush[f].pc = "mget"
        /\ IF \A a \in keys : view[a] = 0 THEN Return(f) ELSE Proceed(f, "update", keys, counts)
        /\ redo' = IF \E a \in keys : Doomed(a) THEN 1 ELSE redo
        /\ UNCHANGED <<redis, db, req, stopping, views, faults, late, counted, seen, slots>>

\* The transaction adds the increments to the articles.
AddCounts(counts) == [a \in Articles |-> db[a] + counts[a]]

FlushUpdate(f) ==
    /\ flush[f].pc = "update"
    /\ db' = AddCounts(flush[f].counts)
    /\ Proceed(f, "delete", flush[f].keys, flush[f].counts)
    /\ UNCHANGED <<redis, req, stopping, views, faults, history>>

\* An error of ScanAll, MGet or the transaction: return, and keep the keys.
FlushFailsAndDeletes(f) ==
    /\ flush[f].pc = "update" /\ Fault
    /\ Proceed(f, "delete", flush[f].keys, flush[f].counts)
    /\ UNCHANGED <<redis, db, req, stopping, views, history>>
FlushFails(f) ==
    /\ flush[f].pc \in {"scan", "mget", "update"} /\ Fault
    /\ Return(f)
    /\ UNCHANGED <<redis, db, req, stopping, views, history>>

\* The flush goes on with the remaining keys after one DEL.
AfterDelete(f, a) ==
    IF flush[f].keys = {a} THEN Return(f)
    ELSE Proceed(f, "delete", flush[f].keys \ {a}, flush[f].counts)

\* DEL of one scanned key after the other.
DeleteKeyKept(f, a) ==
    /\ flush[f].pc = "delete" /\ a \in flush[f].keys
    /\ AfterDelete(f, a)
    /\ UNCHANGED <<redis, db, req, stopping, views, faults, history>>
DeleteKey(f, a) ==
    /\ flush[f].pc = "delete" /\ a \in flush[f].keys
    /\ view' = [view EXCEPT ![a] = 0]
    /\ timed' = timed \ {a}
    /\ AfterDelete(f, a)
    /\ UNCHANGED <<dedup, db, req, stopping, views, faults, history>>

\* The error of a DEL is ignored: the next flush adds the increments again.
DeleteFails(f, a) ==
    /\ flush[f].pc = "delete" /\ a \in flush[f].keys /\ Fault
    /\ AfterDelete(f, a)
    /\ redo' = 1
    /\ UNCHANGED <<redis, db, req, stopping, views, late, counted, seen, slots>>
-----------------------------------------------------------------------------
(* The environment                                                         *)

\* The TTL of a view key elapses (no flush has deleted it for two hours).
Expired(a) ==
    /\ a \in timed /\ Fault
    /\ view' = [view EXCEPT ![a] = 0]
    /\ timed' = timed \ {a}
    /\ late' = [late EXCEPT ![a] = @ + view[a]]
    /\ UNCHANGED <<dedup, db, req, flush, stopping, views, redo, counted, seen, slots>>

\* The dedup window of an article and an IP ends.
WindowEnds(k) ==
    /\ k \in dedup
    /\ dedup' = dedup \ {k}
    /\ slots' = [slots EXCEPT ![k] = @ + 1]
    /\ UNCHANGED <<view, timed, db, req, flush, stopping, views, faults, late, redo, counted, seen>>

\* The process exits, with its goroutines, and starts again.
Reboot ==
    /\ req' = [p \in Procs |-> NoRequest]
    /\ flush' = [f \in Flushers |-> NoFlush]
    /\ stopping' = 0
    /\ redo' = IF \E f \in Flushers : flush[f].pc = "delete" THEN 1 ELSE redo
    /\ UNCHANGED <<redis, db, views, late, counted, seen, slots>>

\* main returns once the final flush is over.
Exit ==
    /\ stopping = 1 /\ flush["final"].pc = "idle"
    /\ Reboot
    /\ UNCHANGED faults

Crash == Fault /\ Reboot

Flushing(f) ==
    \/ ScanAll(f) \/ MGet(f) \/ FlushUpdate(f)
    \/ \E a \in Articles : DeleteKey(f, a)

Requests(p) == Incr(p) \/ Expire(p) \/ IncrementView(p)

Next ==
    \/ \E p \in Procs, a \in Articles, ip \in IPs :
          ViewArticle(p, a, ip) \/ ViewArticleFallback(p, a, ip)
    \/ \E p \in Procs : Requests(p) \/ IncrFails(p) \/ IncrementViewFails(p)
    \/ Tick \/ Stop \/ Exit \/ Crash
    \/ \E f \in Flushers :
          Flushing(f) \/ FlushFails(f) \/ \E a \in Articles : DeleteFails(f, a)
    \/ \E a \in Articles : Expired(a)
    \/ \E k \in Articles \X IPs : WindowEnds(k)

Spec == Init /\ [][Next]_vars

\* Goroutines are scheduled, the ticker ticks, a stopped process is restarted;
\* failures are finitely many (Fault).
Fairness ==
    /\ WF_vars(Tick) /\ WF_vars(Exit)
    /\ \A f \in Flushers : WF_vars(Flushing(f))
    /\ \A p \in Procs : WF_vars(Requests(p))

FairSpec == Spec /\ Fairness
-----------------------------------------------------------------------------
(* Properties                                                              *)

\* flushViewCounts adds no view twice: as long as no flush was cut off between
\* its UPDATE and its DELs and no two flushes overlapped, view_count never
\* exceeds the views that were counted, whatever requests run between its steps.
NoOvercount == redo = 0 => \A a \in Articles : db[a] <= counted[a]

\* Every counted view is in the database or still in Redis, except those that
\* arrived between the MGet and the DEL of a flush and those of expired keys:
\* failed flushes, overlapping flushes and crashes lose nothing.
NoUndercount == \A a \in Articles : counted[a] <= db[a] + view[a] + late[a]

\* An IP is counted once per article and dedup window, plus once for each SETNX
\* that failed, also when its requests run concurrently.
OncePerWindow == \A k \in Articles \X IPs : seen[k] <= slots[k]

\* View keys do not stay in Redis: every increment is flushed (or expires),
\* through failed flushes, shutdowns and restarts.
Drained == \A a \in Articles : view[a] > 0 ~> view[a] = 0
=============================================================================
