----------------------------- MODULE UserCache ------------------------------
(***************************************************************************)
(* The user repository of the auth service: rows of table users behind the *)
(* cache-aside entries auth:user:{id}.  FindByID reads the entry, loads the *)
(* row on a miss and writes it back (or a "null" sentinel); UpdateProfile,  *)
(* UpdateStatus and Delete change the row and then delete the entry.  Each  *)
(* statement and each Redis command is one step.                           *)
(***************************************************************************)
EXTENDS Naturals

CONSTANTS
    Users,     \* user ids
    Procs,     \* concurrent handlers
    Profiles,  \* values of avatar and bio
    Blank,     \* the profile of a new user
    MaxLost    \* bound on lost evictions

ASSUME BlankAssumption == Blank \in Profiles
ASSUME LostAssumption == MaxLost \in Nat

VARIABLES
    row,     \* users: status and profile
    cache,   \* auth:user:{id}
    req,     \* handlers under way
    lost,    \* evictions lost so far
    excuse   \* history: 1 when the entry was filled by a load that a write overtook,
             \* or an eviction since then was lost

vars == <<row, cache, req, lost, excuse>>

Active == {"active", "disabled"}
Rows == [status: Active \cup {"absent", "deleted"}, profile: Profiles]

Nothing == [status |-> "none", profile |-> Blank]
Null == [status |-> "null", profile |-> Blank]
Entries == [status: Active \cup {"none", "null"}, profile: Profiles]

\* What First returns: GORM hides soft-deleted rows.
Found(r) == r.status \in Active
View(r) == IF Found(r) THEN r ELSE Null

\* "late" turns 1 when a write to u overtakes the snapshot "snap" of a load.
At(pc, op, u, snap, late) == [pc |-> pc, op |-> op, u |-> u, snap |-> snap, late |-> late]
\* An idle handler keeps the user of its last call.
Request == [pc: {"idle", "load", "fill", "write", "remove", "evict"}, op: {"read", "profile"},
            u: Users, snap: Entries, late: 0..1]
Idle(u) == At("idle", "read", u, Nothing, 0)

TypeOK ==
    /\ row \in [Users -> Rows]
    /\ cache \in [Users -> Entries]
    /\ req \in [Procs -> Request]
    /\ lost \in 0..MaxLost
    /\ excuse \in [Users -> 0..1]

Init ==
    /\ row = [u \in Users |-> [status |-> "absent", profile |-> Blank]]
    /\ cache = [u \in Users |-> Nothing]
    /\ req \in [Procs -> {Idle(u) : u \in Users}]
    /\ lost = 0
    /\ excuse = [u \in Users |-> 0]

Goto(p, r) == req' = [req EXCEPT ![p] = r]
Free(p) == req[p].pc = "idle"
-----------------------------------------------------------------------------
(* FindByID                                                                *)

\* readCache: a hit answers, and so does the sentinel; a miss and an error of Redis
\* go on to the database.  UpdateProfile goes on with its write.
AfterFind(op, u, e) ==
    IF op = "profile" /\ e # Null THEN At("write", op, u, Nothing, 0) ELSE Idle(u)

FindByID(p, u, op) ==
    /\ Free(p) /\ row[u].status # "absent"
    /\ \/ cache[u] # Nothing /\ Goto(p, AfterFind(op, u, cache[u]))
       \/ Goto(p, At("load", op, u, Nothing, 0))
    /\ UNCHANGED <<row, cache, lost, excuse>>

Load(p) ==
    LET q == req[p] IN
    /\ q.pc = "load"
    /\ Goto(p, At("fill", q.op, q.u, View(row[q.u]), 0))
    /\ UNCHANGED <<row, cache, lost, excuse>>

\* The database fails, or the handler dies, before anything is written.
Abort(p) ==
    /\ req[p].pc \in {"load", "fill", "write", "remove"}
    /\ Goto(p, Idle(req[p].u))
    /\ UNCHANGED <<row, cache, lost, excuse>>

\* writeCache, writeNullSentinel; a failure is only logged.
Fill(p) ==
    LET q == req[p] IN
    /\ q.pc = "fill"
    /\ Goto(p, AfterFind(q.op, q.u, q.snap))
    /\ \/ /\ cache' = [cache EXCEPT ![q.u] = q.snap]
          /\ excuse' = [excuse EXCEPT ![q.u] = q.late]
       \/ UNCHANGED <<cache, excuse>>
    /\ UNCHANGED <<row, lost>>
-----------------------------------------------------------------------------
(* Writers                                                                 *)

\* The row of u becomes r and p turns to deleteCache; loads under way are overtaken.
Overtake(q, u) == IF q.pc = "fill" /\ q.u = u THEN At("fill", q.op, q.u, q.snap, 1) ELSE q

ChangeUnevicted(p, u, r) ==
    /\ row' = [row EXCEPT ![u] = r]
    /\ req' = [x \in Procs |-> IF x = p THEN Idle(u) ELSE Overtake(req[x], u)]
    /\ UNCHANGED <<cache, lost, excuse>>
Change(p, u, r) ==
    /\ row' = [row EXCEPT ![u] = r]
    /\ req' = [x \in Procs |-> IF x = p THEN At("evict", "read", u, Nothing, 0)
                               ELSE Overtake(req[x], u)]
    /\ UNCHANGED <<cache, lost, excuse>>

Create(u) ==
    /\ row[u].status = "absent"
    /\ row' = [row EXCEPT ![u] = [status |-> "active", profile |-> Blank]]
    /\ UNCHANGED <<cache, req, lost, excuse>>

\* UPDATE ... SET avatar, bio WHERE id = u; no row found is an error.
SavedRowActive(r, v) == [status |-> "active", profile |-> v]
SavedRow(r, v) == [status |-> r.status, profile |-> v]

UpdateProfile(p, v) ==
    LET u == req[p].u IN
    /\ req[p].pc = "write"
    /\ \/ Found(row[u]) /\ Change(p, u, SavedRow(row[u], v))
       \/ ~Found(row[u]) /\ Goto(p, Idle(u)) /\ UNCHANGED <<row, cache, lost, excuse>>

UpdateStatus(p, u, s) ==
    /\ Free(p) /\ Found(row[u])
    /\ Change(p, u, [status |-> s, profile |-> row[u].profile])

\* Delete checks that the row is there, then soft-deletes it.
Delete(p, u) ==
    /\ Free(p) /\ Found(row[u])
    /\ Goto(p, At("remove", "read", u, Nothing, 0))
    /\ UNCHANGED <<row, cache, lost, excuse>>

Remove(p) ==
    LET u == req[p].u IN
    /\ req[p].pc = "remove"
    /\ Change(p, u, [status |-> "deleted", profile |-> row[u].profile])

\* deleteCache.
Evict(p) ==
    LET u == req[p].u IN
    /\ req[p].pc = "evict"
    /\ cache' = [cache EXCEPT ![u] = Nothing]
    /\ excuse' = [excuse EXCEPT ![u] = 0]
    /\ Goto(p, Idle(u))
    /\ UNCHANGED <<row, lost>>

\* The command fails, which is only logged, or the process dies before it.
EvictLost(p) ==
    LET u == req[p].u IN
    /\ req[p].pc = "evict"
    /\ lost < MaxLost /\ lost' = lost + 1
    /\ excuse' = [excuse EXCEPT ![u] = 1]
    /\ Goto(p, Idle(u))
    /\ UNCHANGED <<row, cache>>

\* Redis drops the entry when its TTL (30 minutes; 5 for the sentinel) has passed.
ExpireSentinel(u) ==
    /\ cache[u] = Null
    /\ cache' = [cache EXCEPT ![u] = Nothing]
    /\ excuse' = [excuse EXCEPT ![u] = 0]
    /\ UNCHANGED <<row, req, lost>>
Expire(u) ==
    /\ cache[u] # Nothing
    /\ cache' = [cache EXCEPT ![u] = Nothing]
    /\ excuse' = [excuse EXCEPT ![u] = 0]
    /\ UNCHANGED <<row, req, lost>>

Next ==
    \/ \E u \in Users : Create(u) \/ Expire(u)
    \/ \E p \in Procs :
          \/ Load(p) \/ Fill(p) \/ Abort(p) \/ Remove(p) \/ Evict(p) \/ EvictLost(p)
          \/ \E v \in Profiles : UpdateProfile(p, v)
          \/ \E u \in Users :
                \/ \E op \in {"read", "profile"} : FindByID(p, u, op)
                \/ \E s \in Active : UpdateStatus(p, u, s)
                \/ Delete(p, u)

Spec == Init /\ [][Next]_vars
-----------------------------------------------------------------------------
(* Properties.                                                             *)

\* The entry of u tells a reader what the database would tell it.
Fresh(u) == cache[u] \in {Nothing, View(row[u])}
Evicting(u) == \E p \in Procs : req[p].pc = "evict" /\ req[p].u = u

\* A stale entry is due to a write that has yet to evict it, to a load that a write
\* overtook before it was written back, or to a lost eviction.  No other order of
\* readers and writers of a user leaves one behind.
StaleHasExcuse == \A u \in Users : Fresh(u) \/ Evicting(u) \/ excuse[u] = 1

\* UpdateProfile "does not touch status ... so that a disabled account is not revived
\* by a profile update" (data/user.go): a disabled or deleted account becomes active
\* only by UpdateStatus, whatever UpdateProfile read before.
OnlyAdminsRevive ==
    [][\A u \in Users :
          row[u].status \notin {"active", "absent"} /\ row'[u].status = "active"
          => \E p \in Procs : UpdateStatus(p, u, "active")]_vars
=============================================================================
