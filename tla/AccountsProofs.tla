--------------------------- MODULE AccountsProofs ---------------------------
(***************************************************************************)
(* Proofs about the user repository and its cache and about the accounts   *)
(* on top of it, for any users, handlers, profiles, names and passwords.   *)
(* The coherence of the cache rests on what a load remembers: its snapshot *)
(* is still the row, or a write has marked it late.  Accounts only takes   *)
(* steps of the repository, so it inherits what is proved of it.           *)
(***************************************************************************)
EXTENDS Accounts, TLAPS

\* A load that no write has overtaken holds what the database would answer now.
SnapshotCurrent ==
    \A p \in Procs :
        req[p].pc = "fill" => req[p].late = 1 \/ req[p].snap = View(row[req[p].u])

IInv == TypeOK /\ SnapshotCurrent /\ StaleHasExcuse

\* Nobody asks for a user that was never created, so nothing is cached of it.
Known ==
    /\ \A u \in Users : row[u].status = "absent" => cache[u] = Nothing
    /\ \A p \in Procs : req[p].pc # "idle" => row[req[p].u].status # "absent"

\* The constructor of a handler's state yields one.
LEMMA AtType ==
    ASSUME NEW pc \in {"idle", "load", "fill", "write", "remove", "evict"},
           NEW op \in {"read", "profile"}, NEW u \in Users, NEW snap \in Entries,
           NEW late \in 0..1
    PROVE  /\ At(pc, op, u, snap, late) \in Request
           /\ At(pc, op, u, snap, late).pc = pc
           /\ At(pc, op, u, snap, late).op = op
           /\ At(pc, op, u, snap, late).u = u
           /\ At(pc, op, u, snap, late).snap = snap
           /\ At(pc, op, u, snap, late).late = late
BY DEF At, Request

\* The two entries that are no rows.
LEMMA SpecialEntries == Nothing \in Entries /\ Null \in Entries /\ Nothing # Null
BY BlankAssumption DEF Nothing, Null, Entries

\* The state of a handler at rest is one, too.
LEMMA IdleType ==
    ASSUME NEW u \in Users
    PROVE  Idle(u) \in Request /\ Idle(u).pc = "idle" /\ Idle(u).u = u
BY AtType, SpecialEntries DEF Idle

\* The answer of the database can be cached.
LEMMA ViewType == ASSUME NEW r \in Rows PROVE View(r) \in Entries
<1>1. CASE Found(r)
  <2>1. r = [status |-> r.status, profile |-> r.profile]
    BY DEF Rows
  <2>2. r.status \in Active /\ r.profile \in Profiles
    BY <1>1 DEF Rows, Found
  <2>. QED BY <1>1, <2>1, <2>2 DEF View, Entries
<1>2. CASE ~Found(r)
  BY <1>2, SpecialEntries DEF View
<1>. QED BY <1>1, <1>2

\* A row that First finds is not the sentinel.
LEMMA AfterFindType ==
    ASSUME NEW op \in {"read", "profile"}, NEW u \in Users, NEW e
    PROVE  /\ AfterFind(op, u, e) \in Request
           /\ AfterFind(op, u, e).pc \notin {"fill", "evict"}
BY AtType, IdleType, SpecialEntries DEF AfterFind

\* The fields of a handler's state.
LEMMA RequestFields ==
    ASSUME NEW q \in Request
    PROVE  /\ q.pc \in {"idle", "load", "fill", "write", "remove", "evict"}
           /\ q.op \in {"read", "profile"} /\ q.u \in Users /\ q.snap \in Entries
           /\ q.late \in 0..1
BY DEF Request

\* Overtaking marks a load of u late and leaves everything else.
LEMMA OvertakeType ==
    ASSUME NEW q \in Request, NEW u \in Users
    PROVE  /\ Overtake(q, u) \in Request
           /\ Overtake(q, u).pc = q.pc /\ Overtake(q, u).u = q.u
           /\ Overtake(q, u).snap = q.snap
           /\ q.late = 1 => Overtake(q, u).late = 1
           /\ q.pc = "fill" /\ q.u = u => Overtake(q, u).late = 1
BY AtType, RequestFields DEF Overtake

-----------------------------------------------------------------------------
\* The heart of the argument, once for the three writers: a changed row leaves every
\* load of it late, and its entry excused by the eviction to come.
LEMMA ChangeStep ==
    ASSUME IInv, NEW p \in Procs, NEW u \in Users, NEW r \in Rows, Change(p, u, r),
           req[p].pc # "evict"
    PROVE  IInv'
<1>. DEFINE e == At("evict", "read", u, Nothing, 0)
<1>0. /\ row \in [Users -> Rows] /\ req \in [Procs -> Request] /\ excuse \in [Users -> 0..1]
      /\ cache \in [Users -> Entries] /\ lost \in 0..MaxLost
  BY DEF IInv, TypeOK
<1>1. e \in Request /\ e.pc = "evict" /\ e.u = u
  BY AtType, SpecialEntries
<1>. HIDE DEF e
<1>2. req' = [x \in Procs |-> IF x = p THEN e ELSE Overtake(req[x], u)]
  BY DEF Change, e
<1>3. req' \in [Procs -> Request]
  BY <1>0, <1>1, <1>2, OvertakeType
<1>4. row' = [row EXCEPT ![u] = r] /\ cache' = cache /\ excuse' = excuse /\ lost' = lost
  BY DEF Change
<1>5. TypeOK'
  BY <1>0, <1>3, <1>4 DEF TypeOK
<1>6. SnapshotCurrent'
  <2>. SUFFICES ASSUME NEW x \in Procs, req'[x].pc = "fill"
                PROVE  req'[x].late = 1 \/ req'[x].snap = View(row'[req'[x].u])
    BY DEF SnapshotCurrent
  <2>1. x # p /\ req'[x] = Overtake(req[x], u) /\ req[x] \in Request
    BY <1>0, <1>1, <1>2
  <2>2. req[x].pc = "fill" /\ (req[x].late = 1 \/ req[x].snap = View(row[req[x].u]))
    BY <2>1, OvertakeType DEF IInv, SnapshotCurrent
  <2>3. CASE req[x].u = u
    BY <2>1, <2>2, <2>3, OvertakeType
  <2>4. CASE req[x].u # u
    <3>1. row'[req[x].u] = row[req[x].u]
      BY <1>0, <1>4, <2>1, <2>4, RequestFields
    <3>. QED BY <2>1, <2>2, <3>1, OvertakeType
  <2>. QED BY <2>3, <2>4
<1>7. StaleHasExcuse'
  <2>. SUFFICES ASSUME NEW w \in Users
                PROVE  Fresh(w)' \/ Evicting(w)' \/ excuse'[w] = 1
    BY DEF StaleHasExcuse
  <2>1. CASE w = u
    BY <1>1, <1>2, <2>1 DEF Evicting
  <2>2. CASE w # u
    <3>1. Fresh(w) => Fresh(w)'
      BY <1>0, <1>4, <2>2 DEF Fresh
    <3>2. ASSUME NEW x \in Procs, req[x].pc = "evict", req[x].u = w
          PROVE  Evicting(w)'
      <4>1. x # p
        BY <3>2
      <4>2. req'[x].pc = "evict" /\ req'[x].u = w
        BY <1>0, <1>2, <3>2, <4>1, OvertakeType
      <4>. QED BY <4>2 DEF Evicting
    <3>. QED BY <1>4, <3>1, <3>2 DEF IInv, StaleHasExcuse, Evicting
  <2>. QED BY <2>1, <2>2
<1>. QED BY <1>5, <1>6, <1>7 DEF IInv

\* A step of p that leaves the rows alone and does not put p at "fill" or "evict"
\* keeps the invariant of the loads.
LEMMA QuietStep ==
    ASSUME IInv, NEW p \in Procs, NEW r \in Request, Goto(p, r), r.pc # "fill",
           UNCHANGED row
    PROVE  req' \in [Procs -> Request] /\ SnapshotCurrent'
<1>1. req \in [Procs -> Request] /\ req' = [req EXCEPT ![p] = r]
  BY DEF IInv, TypeOK, Goto
<1>2. \A x \in Procs : req'[x] = IF x = p THEN r ELSE req[x]
  BY <1>1
<1>3. req' \in [Procs -> Request]
  BY <1>1
<1>4. SnapshotCurrent'
  <2>. SUFFICES ASSUME NEW x \in Procs, req'[x].pc = "fill"
                PROVE  req'[x].late = 1 \/ req'[x].snap = View(row'[req'[x].u])
    BY DEF SnapshotCurrent
  <2>1. req'[x] = req[x]
    BY <1>2
  <2>. QED BY <2>1 DEF IInv, SnapshotCurrent
<1>. QED BY <1>3, <1>4

\* If p was not evicting, others still are, and the excuses stand where neither row,
\* entry nor excuse has changed.
LEMMA ExcuseStands ==
    ASSUME IInv, NEW p \in Procs, NEW r \in Request, Goto(p, r), req[p].pc # "evict",
           UNCHANGED row, NEW w \in Users, cache'[w] = cache[w], excuse'[w] = excuse[w]
    PROVE  Fresh(w)' \/ Evicting(w)' \/ excuse'[w] = 1
<1>1. req \in [Procs -> Request] /\ req' = [req EXCEPT ![p] = r]
  BY DEF IInv, TypeOK, Goto
<1>2. Fresh(w) => Fresh(w)'
  BY DEF Fresh
<1>3. ASSUME NEW x \in Procs, req[x].pc = "evict", req[x].u = w
      PROVE  Evicting(w)'
  <2>1. x # p /\ req'[x] = req[x]
    BY <1>1, <1>3
  <2>. QED BY <1>3, <2>1 DEF Evicting
<1>. QED BY <1>2, <1>3 DEF IInv, StaleHasExcuse, Evicting

\* A step that only moves a handler, and not out of "evict", keeps IInv.
LEMMA MoveStep ==
    ASSUME IInv, NEW p \in Procs, NEW r \in Request, Goto(p, r), r.pc # "fill",
           req[p].pc # "evict", UNCHANGED <<row, cache, lost, excuse>>
    PROVE  IInv'
<1>1. req' \in [Procs -> Request] /\ SnapshotCurrent'
  BY QuietStep
<1>2. TypeOK'
  BY <1>1 DEF IInv, TypeOK
<1>3. StaleHasExcuse'
  BY ExcuseStands DEF StaleHasExcuse
<1>. QED BY <1>1, <1>2, <1>3 DEF IInv

\* Every initial state is coherent.
LEMMA InductiveInit == Init => IInv /\ Known
<1>. SUFFICES ASSUME Init PROVE IInv /\ Known
  OBVIOUS
<1>1. [status |-> "absent", profile |-> Blank] \in Rows
  BY BlankAssumption DEF Rows
<1>2. row \in [Users -> Rows] /\ cache \in [Users -> Entries] /\ excuse \in [Users -> 0..1]
  BY <1>1, SpecialEntries DEF Init
<1>3. req \in [Procs -> Request] /\ \A p \in Procs : req[p].pc = "idle"
  BY IdleType DEF Init
<1>4. TypeOK
  BY <1>2, <1>3, LostAssumption DEF Init, TypeOK
<1>5. SnapshotCurrent
  BY <1>3 DEF SnapshotCurrent
<1>6. StaleHasExcuse
  BY DEF Init, StaleHasExcuse, Fresh
<1>7. Known
  BY <1>3 DEF Init, Known
<1>. QED BY <1>4, <1>5, <1>6, <1>7 DEF IInv

\* Every step keeps the cache coherent up to its excuses.
LEMMA InductiveStep == IInv /\ Known /\ [Next]_vars => IInv'
<1>. SUFFICES ASSUME IInv, Known, [Next]_vars PROVE IInv'
  OBVIOUS
<1>t. /\ row \in [Users -> Rows] /\ req \in [Procs -> Request] /\ excuse \in [Users -> 0..1]
      /\ cache \in [Users -> Entries] /\ lost \in 0..MaxLost
  BY DEF IInv, TypeOK
<1>1. ASSUME NEW u \in Users, Create(u) PROVE IInv'
  <2>. DEFINE r == [status |-> "active", profile |-> Blank]
  <2>1. r \in Rows
    BY BlankAssumption DEF Rows, Active
  <2>2. row' = [row EXCEPT ![u] = r] /\ UNCHANGED <<cache, req, lost, excuse>>
    BY <1>1 DEF Create
  <2>3. row[u].status = "absent" /\ cache[u] = Nothing
    BY <1>1 DEF Create, Known
  <2>4. TypeOK'
    BY <1>t, <2>1, <2>2 DEF TypeOK
  <2>5. \A w \in Users : w # u => row'[w] = row[w]
    BY <1>t, <2>2
  <2>6. SnapshotCurrent'
    <3>. SUFFICES ASSUME NEW x \in Procs, req[x].pc = "fill"
                  PROVE  req[x].late = 1 \/ req[x].snap = View(row'[req[x].u])
      BY <2>2 DEF SnapshotCurrent
    <3>1. req[x].u \in Users /\ req[x].u # u
      BY <1>t, <2>3, RequestFields DEF Known
    <3>. QED BY <2>5, <3>1 DEF IInv, SnapshotCurrent
  <2>7. ASSUME NEW w \in Users PROVE Fresh(w)' \/ Evicting(w)' \/ excuse'[w] = 1
    <3>1. CASE w = u
      BY <2>2, <2>3, <3>1 DEF Fresh
    <3>2. CASE w # u
      <4>1. Fresh(w) \/ Evicting(w) \/ excuse[w] = 1
        BY DEF IInv, StaleHasExcuse
      <4>. QED BY <2>2, <2>5, <3>2, <4>1 DEF Fresh, Evicting
    <3>. QED BY <3>1, <3>2
  <2>. QED BY <2>4, <2>6, <2>7 DEF IInv, StaleHasExcuse
<1>2. ASSUME NEW u \in Users, Expire(u) PROVE IInv'
  <2>1. /\ cache' = [cache EXCEPT ![u] = Nothing] /\ excuse' = [excuse EXCEPT ![u] = 0]
        /\ UNCHANGED <<row, req, lost>>
    BY <1>2 DEF Expire
  <2>2. TypeOK'
    BY <1>t, <2>1, SpecialEntries DEF TypeOK
  <2>3. SnapshotCurrent'
    BY <2>1 DEF IInv, SnapshotCurrent
  <2>4. ASSUME NEW w \in Users PROVE Fresh(w)' \/ Evicting(w)' \/ excuse'[w] = 1
    <3>1. CASE w = u
      BY <1>t, <2>1, <3>1 DEF Fresh
    <3>2. CASE w # u
      <4>1. cache'[w] = cache[w] /\ excuse'[w] = excuse[w]
        BY <1>t, <2>1, <3>2
      <4>2. Fresh(w) \/ Evicting(w) \/ excuse[w] = 1
        BY DEF IInv, StaleHasExcuse
      <4>. QED BY <2>1, <4>1, <4>2 DEF Fresh, Evicting
    <3>. QED BY <3>1, <3>2
  <2>. QED BY <2>2, <2>3, <2>4 DEF IInv, StaleHasExcuse
<1>3. ASSUME NEW p \in Procs, NEW u \in Users, NEW op \in {"read", "profile"},
             FindByID(p, u, op)
      PROVE  IInv'
  <2>0. req[p].pc # "evict" /\ UNCHANGED <<row, cache, lost, excuse>>
    BY <1>3 DEF FindByID, Free
  <2>1. CASE Goto(p, AfterFind(op, u, cache[u]))
    BY <2>0, <2>1, AfterFindType, MoveStep
  <2>2. CASE Goto(p, At("load", op, u, Nothing, 0))
    <3>1. At("load", op, u, Nothing, 0) \in Request /\ At("load", op, u, Nothing, 0).pc # "fill"
      BY AtType, SpecialEntries
    <3>. QED BY <2>0, <2>2, <3>1, MoveStep
  <2>. QED BY <1>3, <2>1, <2>2 DEF FindByID
<1>4. ASSUME NEW p \in Procs, Load(p) PROVE IInv'
  <2>. DEFINE u == req[p].u
              r == At("fill", req[p].op, u, View(row[u]), 0)
  <2>0. req[p].pc = "load" /\ Goto(p, r) /\ UNCHANGED <<row, cache, lost, excuse>>
    BY <1>4 DEF Load
  <2>1. req[p] \in Request /\ u \in Users /\ req[p].op \in {"read", "profile"}
    BY <1>t, RequestFields
  <2>2. View(row[u]) \in Entries
    BY <1>t, <2>1, ViewType
  <2>3. r \in Request /\ r.pc = "fill" /\ r.snap = View(row[u]) /\ r.u = u
    BY <2>1, <2>2, AtType
  <2>. HIDE DEF r, u
  <2>4. req' = [req EXCEPT ![p] = r] /\ req' \in [Procs -> Request]
    BY <1>t, <2>0, <2>3 DEF Goto
  <2>5. TypeOK'
    BY <1>t, <2>0, <2>4 DEF TypeOK
  <2>6. SnapshotCurrent'
    <3>. SUFFICES ASSUME NEW x \in Procs, req'[x].pc = "fill"
                  PROVE  req'[x].late = 1 \/ req'[x].snap = View(row'[req'[x].u])
      BY DEF SnapshotCurrent
    <3>1. CASE x = p
      <4>1. req'[x] = r
        BY <1>t, <2>4, <3>1
      <4>. QED BY <2>0, <2>3, <4>1
    <3>2. CASE x # p
      <4>1. req'[x] = req[x]
        BY <1>t, <2>4, <3>2
      <4>. QED BY <2>0, <4>1 DEF IInv, SnapshotCurrent
    <3>. QED BY <3>1, <3>2
  <2>7. StaleHasExcuse'
    BY <2>0, <2>3, ExcuseStands DEF StaleHasExcuse
  <2>. QED BY <2>5, <2>6, <2>7 DEF IInv
<1>5. ASSUME NEW p \in Procs, Fill(p) PROVE IInv'
  <2>. DEFINE u == req[p].u
              r == AfterFind(req[p].op, u, req[p].snap)
  <2>0. req[p].pc = "fill" /\ Goto(p, r) /\ UNCHANGED <<row, lost>>
    BY <1>5 DEF Fill
  <2>1. /\ req[p] \in Request /\ u \in Users /\ req[p].op \in {"read", "profile"}
        /\ req[p].snap \in Entries /\ req[p].late \in 0..1
    BY <1>t, RequestFields
  <2>2. r \in Request /\ r.pc # "fill"
    BY <2>1, AfterFindType
  <2>3. CASE UNCHANGED <<cache, excuse>>
    BY <2>0, <2>2, <2>3, MoveStep
  <2>4. CASE /\ cache' = [cache EXCEPT ![u] = req[p].snap]
             /\ excuse' = [excuse EXCEPT ![u] = req[p].late]
    <3>1. req' \in [Procs -> Request] /\ SnapshotCurrent'
      BY <2>0, <2>2, QuietStep
    <3>2. TypeOK'
      BY <1>t, <2>0, <2>1, <2>4, <3>1 DEF TypeOK
    <3>3. ASSUME NEW w \in Users PROVE Fresh(w)' \/ Evicting(w)' \/ excuse'[w] = 1
      <4>1. CASE w = u
        <5>1. req[p].late = 1 \/ req[p].snap = View(row[u])
          BY <2>0 DEF IInv, SnapshotCurrent
        <5>2. cache'[w] = req[p].snap /\ excuse'[w] = req[p].late
          BY <1>t, <2>1, <2>4, <4>1
        <5>. QED BY <2>0, <4>1, <5>1, <5>2 DEF Fresh
      <4>2. CASE w # u
        <5>1. cache'[w] = cache[w] /\ excuse'[w] = excuse[w]
          BY <1>t, <2>4, <4>2
        <5>. QED BY <2>0, <2>2, <5>1, ExcuseStands
      <4>. QED BY <4>1, <4>2
    <3>. QED BY <3>1, <3>2, <3>3 DEF IInv, StaleHasExcuse
  <2>. QED BY <1>5, <2>3, <2>4 DEF Fill
<1>6. ASSUME NEW p \in Procs, Abort(p) PROVE IInv'
  <2>1. /\ Goto(p, Idle(req[p].u)) /\ req[p].pc # "evict"
        /\ UNCHANGED <<row, cache, lost, excuse>>
    BY <1>6 DEF Abort
  <2>2. Idle(req[p].u) \in Request /\ Idle(req[p].u).pc # "fill"
    BY <1>t, RequestFields, IdleType
  <2>. QED BY <2>1, <2>2, MoveStep
<1>7. ASSUME NEW p \in Procs, NEW v \in Profiles, UpdateProfile(p, v) PROVE IInv'
  <2>0. req[p].pc = "write" /\ req[p].u \in Users
    BY <1>7, <1>t, RequestFields DEF UpdateProfile
  <2>1. CASE Change(p, req[p].u, SavedRow(row[req[p].u], v))
    <3>1. SavedRow(row[req[p].u], v) \in Rows
      BY <1>t, <2>0 DEF SavedRow, Rows
    <3>. QED BY <2>0, <2>1, <3>1, ChangeStep
  <2>2. CASE Goto(p, Idle(req[p].u)) /\ UNCHANGED <<row, cache, lost, excuse>>
    <3>1. Idle(req[p].u) \in Request /\ Idle(req[p].u).pc # "fill"
      BY <2>0, IdleType
    <3>. QED BY <2>0, <2>2, <3>1, MoveStep
  <2>. QED BY <1>7, <2>1, <2>2 DEF UpdateProfile
<1>8. ASSUME NEW p \in Procs, NEW u \in Users, NEW s \in Active, UpdateStatus(p, u, s)
      PROVE  IInv'
  <2>1. [status |-> s, profile |-> row[u].profile] \in Rows
    BY <1>t DEF Rows
  <2>. QED BY <1>8, <2>1, ChangeStep DEF UpdateStatus, Free
<1>9. ASSUME NEW p \in Procs, NEW u \in Users, Delete(p, u) PROVE IInv'
  <2>1. At("remove", "read", u, Nothing, 0) \in Request
        /\ At("remove", "read", u, Nothing, 0).pc # "fill"
    BY AtType, SpecialEntries
  <2>. QED BY <1>9, <2>1, MoveStep DEF Delete, Free
<1>10. ASSUME NEW p \in Procs, Remove(p) PROVE IInv'
  <2>0. req[p].pc = "remove" /\ req[p].u \in Users
    BY <1>10, <1>t, RequestFields DEF Remove
  <2>1. [status |-> "deleted", profile |-> row[req[p].u].profile] \in Rows
    BY <1>t, <2>0 DEF Rows
  <2>. QED BY <1>10, <2>0, <2>1, ChangeStep DEF Remove
<1>11. ASSUME NEW p \in Procs, Evict(p) \/ EvictLost(p) PROVE IInv'
  <2>. DEFINE u == req[p].u
  <2>0. req[p].pc = "evict" /\ Goto(p, Idle(u)) /\ UNCHANGED row
    BY <1>11 DEF Evict, EvictLost
  <2>1. u \in Users /\ Idle(u) \in Request /\ Idle(u).pc = "idle"
    BY <1>t, RequestFields, IdleType
  <2>2. req' \in [Procs -> Request] /\ SnapshotCurrent'
    BY <2>0, <2>1, QuietStep
  <2>3. /\ cache' \in [Users -> Entries] /\ excuse' \in [Users -> 0..1] /\ lost' \in 0..MaxLost
        /\ cache'[u] = Nothing \/ excuse'[u] = 1
        /\ \A w \in Users : w # u => cache'[w] = cache[w] /\ excuse'[w] = excuse[w]
    <3>1. CASE Evict(p)
      BY <1>t, <2>1, <3>1, SpecialEntries DEF Evict
    <3>2. CASE EvictLost(p)
      BY <1>t, <2>1, <3>2, LostAssumption DEF EvictLost
    <3>. QED BY <1>11, <3>1, <3>2
  <2>4. TypeOK'
    BY <1>t, <2>0, <2>2, <2>3 DEF TypeOK
  <2>5. ASSUME NEW w \in Users PROVE Fresh(w)' \/ Evicting(w)' \/ excuse'[w] = 1
    <3>1. CASE w = u
      BY <2>3, <3>1 DEF Fresh
    <3>2. CASE w # u
      <4>1. cache'[w] = cache[w] /\ excuse'[w] = excuse[w]
        BY <2>3, <3>2
      <4>2. Fresh(w) => Fresh(w)'
        BY <2>0, <4>1 DEF Fresh
      <4>3. ASSUME NEW x \in Procs, req[x].pc = "evict", req[x].u = w
            PROVE  Evicting(w)'
        <5>1. x # p /\ req'[x] = req[x]
          BY <1>t, <2>0, <3>2, <4>3 DEF Goto
        <5>. QED BY <4>3, <5>1 DEF Evicting
      <4>. QED BY <4>1, <4>2, <4>3 DEF IInv, StaleHasExcuse, Evicting
    <3>. QED BY <3>1, <3>2
  <2>. QED BY <2>2, <2>4, <2>5 DEF IInv, StaleHasExcuse
<1>12. CASE UNCHANGED vars
  BY <1>12 DEF IInv, TypeOK, SnapshotCurrent, StaleHasExcuse, Fresh, Evicting, vars
<1>. QED
  BY <1>1, <1>2, <1>3, <1>4, <1>5, <1>6, <1>7, <1>8, <1>9, <1>10, <1>11, <1>12 DEF Next

-----------------------------------------------------------------------------
\* A step of p alone keeps Known when it leaves the rows and asks for a known user.
LEMMA KnownMove ==
    ASSUME TypeOK, Known, NEW p \in Procs, NEW r, Goto(p, r), UNCHANGED row,
           r.pc # "idle" => row[r.u].status # "absent",
           \A u \in Users : row[u].status = "absent" => cache'[u] = Nothing
    PROVE  Known'
<1>1. req \in [Procs -> Request] /\ req' = [req EXCEPT ![p] = r]
  BY DEF TypeOK, Goto
<1>2. \A x \in Procs : req'[x] = IF x = p THEN r ELSE req[x]
  BY <1>1
<1>. QED BY <1>2 DEF Known

\* So does a change of the row of a known user.
LEMMA KnownChange ==
    ASSUME TypeOK, Known, NEW p \in Procs, NEW u \in Users, NEW r, Change(p, u, r),
           r.status # "absent"
    PROVE  Known'
<1>t. row \in [Users -> Rows] /\ req \in [Procs -> Request]
  BY DEF TypeOK
<1>. DEFINE e == At("evict", "read", u, Nothing, 0)
<1>1. e.u = u
  BY AtType, SpecialEntries
<1>. HIDE DEF e
<1>2. /\ req' = [x \in Procs |-> IF x = p THEN e ELSE Overtake(req[x], u)]
      /\ row' = [row EXCEPT ![u] = r] /\ cache' = cache
  BY DEF Change, e
<1>3. \A w \in Users : row'[w].status = "absent" => row[w].status = "absent" /\ w # u
  BY <1>t, <1>2
<1>4. ASSUME NEW x \in Procs, req'[x].pc # "idle"
      PROVE  row'[req'[x].u].status # "absent"
  <2>1. CASE x = p
    BY <1>1, <1>2, <1>3, <2>1
  <2>2. CASE x # p
    <3>1. req[x].pc # "idle" /\ req'[x].u = req[x].u /\ req[x].u \in Users
      BY <1>t, <1>2, <1>4, <2>2, OvertakeType, RequestFields
    <3>. QED BY <1>3, <3>1 DEF Known
  <2>. QED BY <2>1, <2>2
<1>5. \A w \in Users : row'[w].status = "absent" => cache'[w] = Nothing
  BY <1>2, <1>3 DEF Known
<1>. QED BY <1>4, <1>5 DEF Known

\* Only created users are ever asked for.
LEMMA KnownStep == TypeOK /\ Known /\ [Next]_vars => Known'
<1>. SUFFICES ASSUME TypeOK, Known, [Next]_vars PROVE Known'
  OBVIOUS
<1>t. row \in [Users -> Rows] /\ req \in [Procs -> Request] /\ cache \in [Users -> Entries]
  BY DEF TypeOK
<1>k. /\ \A u \in Users : row[u].status = "absent" => cache[u] = Nothing
      /\ \A p \in Procs : req[p].pc # "idle" => row[req[p].u].status # "absent"
      /\ \A p \in Procs : req[p].u \in Users /\ req[p].op \in {"read", "profile"}
                          /\ req[p].snap \in Entries
  BY <1>t, RequestFields DEF Known
<1>1. ASSUME NEW u \in Users, Create(u) PROVE Known'
  <2>1. row' = [row EXCEPT ![u] = [status |-> "active", profile |-> Blank]]
        /\ UNCHANGED <<cache, req>>
    BY <1>1 DEF Create
  <2>2. \A w \in Users : row'[w].status = "absent" => row[w].status = "absent"
    BY <1>t, <2>1
  <2>. QED BY <1>k, <2>1, <2>2 DEF Known
<1>2. ASSUME NEW u \in Users, Expire(u) PROVE Known'
  <2>1. cache' = [cache EXCEPT ![u] = Nothing] /\ UNCHANGED <<row, req>>
    BY <1>2 DEF Expire
  <2>2. \A w \in Users : cache'[w] = Nothing \/ cache'[w] = cache[w]
    BY <1>t, <2>1
  <2>. QED BY <1>k, <2>1, <2>2 DEF Known
<1>3. ASSUME NEW p \in Procs, NEW u \in Users, NEW op \in {"read", "profile"},
             FindByID(p, u, op)
      PROVE  Known'
  <2>0. row[u].status # "absent" /\ UNCHANGED <<row, cache>>
    BY <1>3 DEF FindByID
  <2>1. AfterFind(op, u, cache[u]).u = u /\ At("load", op, u, Nothing, 0).u = u
    BY AtType, IdleType, SpecialEntries DEF AfterFind
  <2>2. CASE Goto(p, AfterFind(op, u, cache[u]))
    BY <1>k, <2>0, <2>1, <2>2, KnownMove
  <2>3. CASE Goto(p, At("load", op, u, Nothing, 0))
    BY <1>k, <2>0, <2>1, <2>3, KnownMove
  <2>. QED BY <1>3, <2>2, <2>3 DEF FindByID
<1>4. ASSUME NEW p \in Procs, Load(p) PROVE Known'
  <2>. DEFINE u == req[p].u
              r == At("fill", req[p].op, u, View(row[u]), 0)
  <2>0. req[p].pc = "load" /\ Goto(p, r) /\ UNCHANGED <<row, cache>>
    BY <1>4 DEF Load
  <2>1. r.u = u
    <3>1. u \in Users /\ View(row[u]) \in Entries
      BY <1>t, <1>k, ViewType
    <3>. HIDE DEF u
    <3>. QED BY <1>k, <3>1, AtType
  <2>2. row[u].status # "absent"
    BY <1>k, <2>0
  <2>. QED BY <1>k, <2>0, <2>1, <2>2, KnownMove
<1>5. ASSUME NEW p \in Procs, Fill(p) PROVE Known'
  <2>. DEFINE u == req[p].u
              r == AfterFind(req[p].op, u, req[p].snap)
  <2>0. req[p].pc = "fill" /\ Goto(p, r) /\ UNCHANGED row
    BY <1>5 DEF Fill
  <2>1. r.u = u
    BY <1>k, AtType, IdleType, SpecialEntries DEF AfterFind
  <2>2. row[u].status # "absent"
    BY <1>k, <2>0
  <2>3. \A w \in Users : row[w].status = "absent" => cache'[w] = Nothing
    BY <1>t, <1>k, <1>5, <2>2 DEF Fill
  <2>. QED BY <2>0, <2>1, <2>2, <2>3, KnownMove
<1>6. ASSUME NEW p \in Procs, Abort(p) \/ Evict(p) \/ EvictLost(p) PROVE Known'
  <2>1. Goto(p, Idle(req[p].u)) /\ UNCHANGED row
    BY <1>6 DEF Abort, Evict, EvictLost
  <2>2. Idle(req[p].u).pc = "idle"
    BY <1>k, IdleType
  <2>3. \A w \in Users : cache'[w] = Nothing \/ cache'[w] = cache[w]
    BY <1>t, <1>k, <1>6 DEF Abort, Evict, EvictLost
  <2>. QED BY <1>k, <2>1, <2>2, <2>3, KnownMove
<1>7. ASSUME NEW p \in Procs, NEW v \in Profiles, UpdateProfile(p, v) PROVE Known'
  <2>1. CASE Found(row[req[p].u]) /\ Change(p, req[p].u, SavedRow(row[req[p].u], v))
    <3>1. SavedRow(row[req[p].u], v).status # "absent"
      BY <2>1 DEF SavedRow, Found, Active
    <3>. QED BY <1>k, <2>1, <3>1, KnownChange
  <2>2. CASE Goto(p, Idle(req[p].u)) /\ UNCHANGED <<row, cache>>
    <3>1. Idle(req[p].u).pc = "idle"
      BY <1>k, IdleType
    <3>. QED BY <1>k, <2>2, <3>1, KnownMove
  <2>. QED BY <1>7, <2>1, <2>2 DEF UpdateProfile
<1>8. ASSUME NEW p \in Procs, NEW u \in Users, NEW s \in Active, UpdateStatus(p, u, s)
      PROVE  Known'
  <2>1. [status |-> s, profile |-> row[u].profile].status # "absent"
    BY DEF Active
  <2>. QED BY <1>8, <2>1, KnownChange DEF UpdateStatus
<1>9. ASSUME NEW p \in Procs, NEW u \in Users, Delete(p, u) PROVE Known'
  <2>1. Goto(p, At("remove", "read", u, Nothing, 0)) /\ UNCHANGED <<row, cache>>
        /\ row[u].status # "absent"
    BY <1>9 DEF Delete, Found, Active
  <2>2. At("remove", "read", u, Nothing, 0).u = u
    BY AtType, SpecialEntries
  <2>. QED BY <1>k, <2>1, <2>2, KnownMove
<1>10. ASSUME NEW p \in Procs, Remove(p) PROVE Known'
  <2>1. [status |-> "deleted", profile |-> row[req[p].u].profile].status # "absent"
    OBVIOUS
  <2>. QED BY <1>k, <1>10, <2>1, KnownChange DEF Remove
<1>11. CASE UNCHANGED vars
  BY <1>11 DEF Known, vars
<1>. QED
  BY <1>1, <1>2, <1>3, <1>4, <1>5, <1>6, <1>7, <1>8, <1>9, <1>10, <1>11 DEF Next
-----------------------------------------------------------------------------
\* Every reachable state satisfies the strengthened invariant.
THEOREM Inductive == Spec => [](IInv /\ Known)
<1>1. Init => IInv /\ Known
  BY InductiveInit
<1>2. IInv /\ Known /\ [Next]_vars => (IInv /\ Known)'
  BY InductiveStep, KnownStep DEF IInv
<1>. QED BY <1>1, <1>2, PTL DEF Spec

\* The variables keep their types.
THEOREM TypeCorrect == Spec => []TypeOK
<1>1. IInv => TypeOK
  BY DEF IInv
<1>. QED BY <1>1, Inductive, PTL

\* Whatever the number of readers and writers, FindByID can be misled by its cache
\* only before an eviction, after a lost one, or by an overtaken load.
THEOREM StaleExcused == Spec => []StaleHasExcuse
<1>1. IInv => StaleHasExcuse
  BY DEF IInv
<1>. QED BY <1>1, Inductive, PTL

\* A profile update never revives a disabled or deleted account.
THEOREM RevivalByAdminOnly == Spec => OnlyAdminsRevive
<1>. DEFINE A(u) == row[u].status \notin {"active", "absent"} /\ row'[u].status = "active"
                    => \E p \in Procs : UpdateStatus(p, u, "active")
<1>1. TypeOK /\ [Next]_vars => [\A u \in Users : A(u)]_vars
  <2>. SUFFICES ASSUME TypeOK, Next, NEW u \in Users,
                       row[u].status \notin {"active", "absent"}, row'[u].status = "active"
                PROVE  \E p \in Procs : UpdateStatus(p, u, "active")
    BY Zenon
  <2>t. row \in [Users -> Rows] /\ req \in [Procs -> Request]
    BY DEF TypeOK
  <2>0. row'[u] # row[u]
    OBVIOUS
  <2>1. ASSUME NEW w \in Users, Create(w) \/ Expire(w) PROVE FALSE
    BY <2>t, <2>0, <2>1 DEF Create, Expire
  <2>2. ASSUME NEW p \in Procs, Load(p) \/ Fill(p) \/ Abort(p) \/ Evict(p) \/ EvictLost(p)
        PROVE  FALSE
    BY <2>0, <2>2 DEF Load, Fill, Abort, Evict, EvictLost
  <2>3. ASSUME NEW p \in Procs, Remove(p) PROVE FALSE
    BY <2>t, <2>0, <2>3, RequestFields DEF Remove, Change
  <2>4. ASSUME NEW p \in Procs, NEW v \in Profiles, UpdateProfile(p, v) PROVE FALSE
    BY <2>t, <2>0, <2>4, RequestFields DEF UpdateProfile, Change, SavedRow
  <2>5. ASSUME NEW p \in Procs, NEW w \in Users,
               Delete(p, w) \/ \E op \in {"read", "profile"} : FindByID(p, w, op)
        PROVE  FALSE
    BY <2>0, <2>5 DEF Delete, FindByID
  <2>6. ASSUME NEW p \in Procs, NEW w \in Users, NEW s \in Active, UpdateStatus(p, w, s)
        PROVE  UpdateStatus(p, u, "active")
    <3>1. row' = [row EXCEPT ![w] = [status |-> s, profile |-> row[w].profile]]
      BY <2>6 DEF UpdateStatus, Change
    <3>2. w = u
      BY <2>t, <2>0, <3>1
    <3>3. s = "active"
      BY <2>t, <3>1, <3>2
    <3>. QED BY <2>6, <3>2, <3>3
  <2>. QED BY <2>1, <2>2, <2>3, <2>4, <2>5, <2>6 DEF Next
<1>. QED BY <1>1, TypeCorrect, PTL DEF Spec, OnlyAdminsRevive
-----------------------------------------------------------------------------
(* Accounts: every step of it is a step of the repository, or none.        *)

LEMMA RepositoryStep == [AccountsNext]_allVars => [Next]_vars
<1>. SUFFICES ASSUME [AccountsNext]_allVars PROVE Next \/ UNCHANGED vars
  OBVIOUS
<1>1. CASE UNCHANGED allVars
  BY <1>1 DEF allVars
<1>2. ASSUME NEW u \in Users, Elapse(u) PROVE Next
  BY <1>2 DEF Elapse, Next
<1>3. ASSUME NEW p \in Procs, Manage(p) PROVE Next
  BY <1>3 DEF Manage, Next
<1>4. ASSUME NEW p \in Procs, RefreshLoads(p) PROVE Next
  BY <1>4 DEF RefreshLoads, Next
<1>5. ASSUME NEW p \in Procs, InsertFails(p) \/ Issue(p) PROVE UNCHANGED vars
  BY <1>5 DEF InsertFails, Issue
<1>6. ASSUME NEW p \in Procs, NEW u \in Users, Insert(p, u) \/ RefreshToken(p, u) PROVE Next
  <2>1. Create(u) \/ FindByID(p, u, "read")
    BY <1>6 DEF Insert, RefreshToken
  <2>. QED BY <2>1 DEF Next
<1>7. ASSUME NEW p \in Procs, NEW n \in Names,
             RegisterRefused(p, n) \/ \E w \in Passwords : Register(p, n, w) \/ Login(p, n, w)
      PROVE  UNCHANGED vars
  BY <1>7 DEF RegisterRefused, Register, Login
<1>. QED BY <1>1, <1>2, <1>3, <1>4, <1>5, <1>6, <1>7 DEF AccountsNext

\* The auth service uses the repository as UserCache describes it.
THEOREM AccountsUseRepository == AccountsSpec => Spec
<1>1. AccountsInit => Init
  BY DEF AccountsInit
<1>. QED BY <1>1, RepositoryStep, PTL DEF AccountsSpec, Spec

\* So what FindByID answers to RefreshToken is stale only with an excuse.
THEOREM AccountsStaleExcused == AccountsSpec => []StaleHasExcuse
  BY AccountsUseRepository, StaleExcused, PTL

\* And only an administrator revives an account, whatever registrations, logins and
\* refreshes go on.
THEOREM AccountsRevival == AccountsSpec => OnlyAdminsRevive
  BY AccountsUseRepository, RevivalByAdminOnly, PTL
-----------------------------------------------------------------------------
(* Accounts: names and pairs.                                              *)

\* What a call about accounts relies on, with q its lookup under way and r the rows: a
\* refresh that has loaded an active row saw it active.
SoundSession(s, q, r) ==
    /\ s.pc = "insert" => s.n \in Names /\ s.w \in Passwords
    /\ s.pc \in {"find", "issue"} => s.u \in Users /\ r[s.u].status # "absent"
    /\ s.pc = "find" => q.pc \in {"load", "fill"} /\ q.u = s.u
    /\ s.pc = "find" /\ q.pc = "fill" /\ q.snap.status = "active" => s.seen = 1
    /\ s.pc = "issue" => s.seen = 1 \/ s.excused = 1

SessionsSound == \A p \in Procs : SoundSession(sess[p], req[p], row)

AccountsInv == IInv /\ Known /\ NamesUnique /\ SessionsSound

LEMMA SessionFields ==
    ASSUME NEW s \in Session
    PROVE  /\ s.pc \in {"idle", "insert", "find", "issue"} /\ s.n \in Names \cup {NoOne}
           /\ s.w \in Passwords \cup {NoOne} /\ s.u \in Users \cup {NoOne}
           /\ s.seen \in 0..1 /\ s.excused \in 0..1
BY DEF Session

LEMMA DoingFacts ==
    ASSUME NEW pc \in {"idle", "insert", "find", "issue"}, NEW n \in Names \cup {NoOne},
           NEW w \in Passwords \cup {NoOne}, NEW u \in Users \cup {NoOne}
    PROVE  /\ Doing(pc, n, w, u) \in Session /\ Doing(pc, n, w, u).pc = pc
           /\ Doing(pc, n, w, u).n = n /\ Doing(pc, n, w, u).w = w /\ Doing(pc, n, w, u).u = u
           /\ Doing(pc, n, w, u).seen = 0 /\ Doing(pc, n, w, u).excused = 0
BY DEF Doing, Session

\* A call that has found its user.
LEMMA WithUserFacts ==
    ASSUME NEW pc \in {"find", "issue"}, NEW u \in Users
    PROVE  LET s == Doing(pc, NoOne, NoOne, u)
           IN  s \in Session /\ s.pc = pc /\ s.u = u
BY DEF Doing, Session

LEMMA RestingFacts == Resting \in Session /\ Resting.pc = "idle"
BY DoingFacts DEF Resting

\* Only the marks of a call are changed by seeing its user.
LEMMA SeeFacts ==
    ASSUME NEW s \in Session
    PROVE  /\ See(s) \in Session /\ See(s).pc = s.pc /\ See(s).n = s.n /\ See(s).w = s.w
           /\ See(s).u = s.u /\ See(s).excused = s.excused
           /\ s.seen = 1 => See(s).seen = 1
           /\ s.u \in Users /\ row[s.u].status = "active" => See(s).seen = 1
<1>. DEFINE r == [s EXCEPT !.seen = 1]
<1>1. /\ r \in Session /\ r.pc = s.pc /\ r.n = s.n /\ r.w = s.w /\ r.u = s.u
      /\ r.excused = s.excused /\ r.seen = 1
  BY DEF Session
<1>2. See(s) = IF s.u # NoOne /\ row[s.u].status = "active" THEN r ELSE s
  BY DEF See
<1>3. NoOne \notin Users
  BY AccountsAssumption
<1>. HIDE DEF r
<1>4. CASE s.u # NoOne /\ row[s.u].status = "active"
  BY <1>1, <1>2, <1>4
<1>5. CASE ~(s.u # NoOne /\ row[s.u].status = "active")
  BY <1>2, <1>3, <1>5
<1>. QED BY <1>4, <1>5

\* A call only comes closer to its end: it goes on to sign a pair, or is over.
LEMMA AnsweredFacts ==
    ASSUME NEW s \in Session, NEW e
    PROVE  /\ Answered(s, e) \in Session
           /\ Answered(s, e).pc \in {"idle", "issue"}
           /\ Answered(s, e).pc = "issue" =>
                 /\ e.status = "active" /\ Answered(s, e).u = s.u
                 /\ Answered(s, e).seen = s.seen /\ Answered(s, e).excused = s.excused
<1>. DEFINE r == [s EXCEPT !.pc = "issue"]
<1>1. /\ r \in Session /\ r.pc = "issue" /\ r.u = s.u /\ r.seen = s.seen /\ r.excused = s.excused
  BY DEF Session
<1>2. Answered(s, e) = IF MayRefresh(e) THEN r ELSE Resting
  BY DEF Answered
<1>. HIDE DEF r
<1>3. CASE MayRefresh(e)
  BY <1>1, <1>2, <1>3 DEF MayRefresh
<1>4. CASE ~MayRefresh(e)
  BY <1>2, <1>4, RestingFacts
<1>. QED BY <1>3, <1>4

\* Handlers other than p keep where they are and what they have read.
Undisturbed(p) ==
    \A x \in Procs \ {p} :
        req'[x].pc = req[x].pc /\ req'[x].u = req[x].u /\ req'[x].snap = req[x].snap

\* No account comes or goes.
SameAccounts == \A u \in Users : row'[u].status = "absent" <=> row[u].status = "absent"

LEMMA MovesAlone ==
    ASSUME TypeOK, NEW p \in Procs, NEW r, Goto(p, r) PROVE Undisturbed(p)
BY DEF TypeOK, Goto, Undisturbed

LEMMA ChangesAlone ==
    ASSUME TypeOK, NEW p \in Procs, NEW u \in Users, NEW r, Change(p, u, r),
           row[u].status # "absent", r.status # "absent"
    PROVE  Undisturbed(p) /\ SameAccounts
<1>1. row \in [Users -> Rows] /\ req \in [Procs -> Request]
  BY DEF TypeOK
<1>2. row' = [row EXCEPT ![u] = r] /\ \A x \in Procs \ {p} : req'[x] = Overtake(req[x], u)
  BY DEF Change
<1>3. Undisturbed(p)
  BY <1>1, <1>2, OvertakeType DEF Undisturbed
<1>4. SameAccounts
  BY <1>1, <1>2 DEF SameAccounts
<1>. QED BY <1>3, <1>4

LEMMA RepositoryEffect ==
    ASSUME TypeOK, Known, NEW p \in Procs,
           \/ Load(p) \/ Fill(p) \/ Abort(p) \/ Remove(p) \/ Evict(p) \/ EvictLost(p)
           \/ \E v \in Profiles : UpdateProfile(p, v)
           \/ \E u \in Users :
                 \/ \E op \in {"read", "profile"} : FindByID(p, u, op)
                 \/ \E s \in Active : UpdateStatus(p, u, s)
                 \/ Delete(p, u)
    PROVE  Undisturbed(p) /\ SameAccounts
<1>0. req[p].u \in Users
  BY RequestFields DEF TypeOK
<1>1. CASE UNCHANGED row /\ \E r : Goto(p, r)
  BY <1>1, MovesAlone DEF SameAccounts
<1>2. CASE Remove(p)
  <2>1. row[req[p].u].status # "absent"
    BY <1>2 DEF Remove, Known
  <2>2. [status |-> "deleted", profile |-> row[req[p].u].profile].status # "absent"
    OBVIOUS
  <2>. QED BY <1>0, <1>2, <2>1, <2>2, ChangesAlone DEF Remove
<1>3. ASSUME NEW v \in Profiles, UpdateProfile(p, v) PROVE Undisturbed(p) /\ SameAccounts
  <2>1. CASE Found(row[req[p].u]) /\ Change(p, req[p].u, SavedRow(row[req[p].u], v))
    <3>1. row[req[p].u].status # "absent" /\ SavedRow(row[req[p].u], v).status # "absent"
      BY <2>1 DEF SavedRow, Found, Active
    <3>. QED BY <1>0, <2>1, <3>1, ChangesAlone
  <2>. QED BY <1>1, <1>3, <2>1 DEF UpdateProfile
<1>4. ASSUME NEW u \in Users, NEW s \in Active, UpdateStatus(p, u, s)
      PROVE  Undisturbed(p) /\ SameAccounts
  <2>1. row[u].status # "absent" /\ [status |-> s, profile |-> row[u].profile].status # "absent"
    BY <1>4 DEF UpdateStatus, Found, Active
  <2>. QED BY <1>4, <2>1, ChangesAlone DEF UpdateStatus
<1>. QED BY <1>1, <1>2, <1>3, <1>4 DEF Load, Fill, Abort, Evict, EvictLost, FindByID, Delete

\* Handler p goes on to s, and the others see what there is to see.
LEMMA TurnSound ==
    ASSUME AccountsInv, NEW p \in Procs, NEW s \in Session, Turn(p, s), Undisturbed(p),
           \A u \in Users : row[u].status # "absent" => row'[u].status # "absent",
           SoundSession(See(s), req'[p], row')
    PROVE  sess' \in [Procs -> Session] /\ SessionsSound'
<1>1. sess \in [Procs -> Session]
  BY DEF AccountsInv, NamesUnique, AccountsTypeOK
<1>2. sess' = [x \in Procs |-> See(IF x = p THEN s ELSE sess[x])]
  BY DEF Turn
<1>3. sess'[p] = See(s) /\ \A x \in Procs \ {p} : sess'[x] = See(sess[x])
  BY <1>2
<1>4. sess' \in [Procs -> Session]
  BY <1>1, <1>2, SeeFacts
<1>5. ASSUME NEW x \in Procs PROVE SoundSession(sess'[x], req'[x], row')
  <2>1. CASE x = p
    BY <1>3, <2>1
  <2>2. CASE x # p
    <3>1. /\ req'[x].pc = req[x].pc /\ req'[x].u = req[x].u /\ req'[x].snap = req[x].snap
          /\ sess'[x] = See(sess[x]) /\ sess[x] \in Session
      BY <1>1, <1>3, <2>2 DEF Undisturbed
    <3>2. /\ sess'[x].pc = sess[x].pc /\ sess'[x].n = sess[x].n /\ sess'[x].w = sess[x].w
          /\ sess'[x].u = sess[x].u /\ sess'[x].excused = sess[x].excused
          /\ sess[x].seen = 1 => sess'[x].seen = 1
      BY <3>1, SeeFacts
    <3>3. SoundSession(sess[x], req[x], row)
      BY DEF AccountsInv, SessionsSound
    <3>. QED BY <3>1, <3>2, <3>3 DEF SoundSession
  <2>. QED BY <2>1, <2>2
<1>. QED BY <1>4, <1>5 DEF SessionsSound

\* A step that neither adds nor removes an account keeps the table of names.
LEMMA NamesKept ==
    ASSUME AccountsInv, TypeOK', sess' \in [Procs -> Session], acct' = acct, SameAccounts,
           held' \subseteq held \cup {u \in Users : row[u].status # "absent"}
    PROVE  NamesUnique'
<1>1. AccountsTypeOK'
  <2>1. /\ acct \in [Users -> Account \cup {NoAccount}]
        /\ \A u \in Users : acct[u] = NoAccount <=> row[u].status = "absent"
        /\ held \subseteq {u \in Users : acct[u] # NoAccount}
    BY DEF AccountsInv, NamesUnique, AccountsTypeOK
  <2>2. \A u \in Users : acct'[u] = NoAccount <=> row'[u].status = "absent"
    BY <2>1 DEF SameAccounts
  <2>3. held' \subseteq {u \in Users : acct'[u] # NoAccount}
    BY <2>1
  <2>. QED BY <2>1, <2>2, <2>3 DEF AccountsTypeOK
<1>. QED BY <1>1 DEF AccountsInv, NamesUnique

\* Steps that leave the names, and the calls of all handlers but p, as they are.
LEMMA TurnKeeps ==
    ASSUME AccountsInv, TypeOK', NEW p \in Procs, NEW s \in Session, Turn(p, s), Undisturbed(p),
           SameAccounts, SoundSession(See(s), req'[p], row'), acct' = acct,
           held' \subseteq held \cup {u \in Users : row[u].status # "absent"}
    PROVE  NamesUnique' /\ SessionsSound'
<1>1. \A u \in Users : row[u].status # "absent" => row'[u].status # "absent"
  BY DEF SameAccounts
<1>2. sess' \in [Procs -> Session] /\ SessionsSound'
  BY <1>1, TurnSound
<1>. QED BY <1>2, NamesKept

\* A handler that does nothing about accounts asks for nothing.
LEMMA RestSound ==
    ASSUME NEW s \in Session, s.pc = "idle", NEW q, NEW r
    PROVE  SoundSession(See(s), q, r)
BY SeeFacts DEF SoundSession

\* Nothing happens to the repository.
LEMMA RepositoryRests ==
    ASSUME AccountsInv, UNCHANGED vars
    PROVE  TypeOK' /\ SameAccounts /\ \A p \in Procs : Undisturbed(p)
BY DEF vars, AccountsInv, IInv, TypeOK, SameAccounts, Undisturbed

LEMMA RegisterKeeps ==
    ASSUME AccountsInv, NEW p \in Procs, NEW n \in Names, NEW w \in Passwords, Register(p, n, w)
    PROVE  NamesUnique' /\ SessionsSound'
<1>. DEFINE s == Doing("insert", n, w, NoOne)
<1>1. s \in Session /\ s.pc = "insert" /\ s.n = n /\ s.w = w
  BY DoingFacts
<1>2. Turn(p, s) /\ UNCHANGED vars /\ acct' = acct /\ held' = held
  BY DEF Register
<1>. HIDE DEF s
<1>3. SoundSession(See(s), req'[p], row')
  BY <1>1, SeeFacts DEF SoundSession
<1>. QED BY <1>1, <1>2, <1>3, RepositoryRests, TurnKeeps

LEMMA LoginKeeps ==
    ASSUME AccountsInv, NEW p \in Procs, NEW n \in Names, NEW w \in Passwords, Login(p, n, w)
    PROVE  NamesUnique' /\ SessionsSound'
<1>1. PICK u \in Users : row[u].status = "active" /\ Turn(p, Doing("issue", NoOne, NoOne, u))
  BY DEF Login, FindByAccount, Registered
<1>. DEFINE s == Doing("issue", NoOne, NoOne, u)
<1>2. s \in Session /\ s.pc = "issue" /\ s.u = u
  BY WithUserFacts
<1>3. Turn(p, s) /\ UNCHANGED vars /\ acct' = acct /\ held' = held /\ row' = row
  BY <1>1 DEF Login, vars
<1>. HIDE DEF s
<1>4. SoundSession(See(s), req'[p], row')
  BY <1>1, <1>2, <1>3, SeeFacts DEF SoundSession
<1>. QED BY <1>2, <1>3, <1>4, RepositoryRests, TurnKeeps

LEMMA EndsKeep ==
    ASSUME AccountsInv, NEW p \in Procs, InsertFails(p) \/ Issue(p)
    PROVE  NamesUnique' /\ SessionsSound'
<1>1. Turn(p, Resting) /\ UNCHANGED vars /\ acct' = acct
  BY DEF InsertFails, Issue
<1>2. held' \subseteq held \cup {u \in Users : row[u].status # "absent"}
  <2>1. SoundSession(sess[p], req[p], row)
    BY DEF AccountsInv, SessionsSound
  <2>. QED BY <2>1 DEF InsertFails, Issue, SoundSession
<1>3. SoundSession(See(Resting), req'[p], row')
  BY RestingFacts, RestSound
<1>. QED BY <1>1, <1>2, <1>3, RestingFacts, RepositoryRests, TurnKeeps

LEMMA ManageKeeps ==
    ASSUME AccountsInv, TypeOK', NEW p \in Procs, Manage(p)
    PROVE  NamesUnique' /\ SessionsSound'
<1>1. sess \in [Procs -> Session]
  BY DEF AccountsInv, NamesUnique, AccountsTypeOK
<1>2. Undisturbed(p) /\ SameAccounts
  <2>1. TypeOK /\ Known
    BY DEF AccountsInv, IInv
  <2>. QED BY <2>1, RepositoryEffect DEF Manage
<1>3. Turn(p, sess[p]) /\ acct' = acct /\ held' = held /\ sess[p].pc = "idle" /\ sess[p] \in Session
  <2>1. Watch /\ sess[p].pc = "idle"
    BY DEF Manage
  <2>2. sess' = [x \in Procs |-> See(IF x = p THEN sess[p] ELSE sess[x])]
    BY <2>1 DEF Watch
  <2>. QED BY <1>1, <2>1, <2>2 DEF Watch, Turn
<1>4. SoundSession(See(sess[p]), req'[p], row')
  BY <1>3, RestSound
<1>. QED BY <1>2, <1>3, <1>4, TurnKeeps

LEMMA ElapseKeeps ==
    ASSUME AccountsInv, TypeOK', NEW u \in Users, Elapse(u)
    PROVE  NamesUnique' /\ SessionsSound'
<1>1. sess \in [Procs -> Session]
  BY DEF AccountsInv, NamesUnique, AccountsTypeOK
<1>2. /\ UNCHANGED <<row, req, acct, held>> /\ sess' = [x \in Procs |-> See(sess[x])]
  BY DEF Elapse, Expire, Watch
<1>3. sess' \in [Procs -> Session] /\ SameAccounts
  BY <1>1, <1>2, SeeFacts DEF SameAccounts
<1>4. ASSUME NEW x \in Procs PROVE SoundSession(sess'[x], req'[x], row')
  <2>1. sess[x] \in Session /\ sess'[x] = See(sess[x]) /\ SoundSession(sess[x], req[x], row)
    BY <1>1, <1>2 DEF AccountsInv, SessionsSound
  <2>. QED BY <1>2, <2>1, SeeFacts DEF SoundSession
<1>. QED BY <1>2, <1>3, <1>4, NamesKept DEF SessionsSound

\* A refresh whose lookup is under way.
LEMMA RefreshLoadsKeeps ==
    ASSUME AccountsInv, TypeOK', NEW p \in Procs, RefreshLoads(p)
    PROVE  NamesUnique' /\ SessionsSound'
<1>. DEFINE u == req[p].u
<1>1. /\ sess[p] \in Session /\ sess[p].pc = "find" /\ SoundSession(sess[p], req[p], row)
      /\ TypeOK /\ Known
  BY DEF AccountsInv, IInv, NamesUnique, AccountsTypeOK, SessionsSound, RefreshLoads
<1>2. /\ sess[p].u = u /\ u \in Users /\ row[u].status # "absent"
      /\ req[p].pc = "fill" /\ req[p].snap.status = "active" => sess[p].seen = 1
  BY <1>1 DEF SoundSession
<1>3. Undisturbed(p) /\ SameAccounts /\ acct' = acct /\ held' = held
  BY <1>1, RepositoryEffect DEF RefreshLoads, Watch
<1>4. CASE Load(p) /\ Watch
  <2>0. row[u] \in Rows /\ req[p].op \in {"read", "profile"} /\ View(row[u]) \in Entries
    BY <1>1, <1>2, RequestFields, ViewType DEF TypeOK
  <2>1. req'[p] = At("fill", req[p].op, u, View(row[u]), 0) /\ row' = row
    BY <1>1, <1>4 DEF Load, Goto, TypeOK
  <2>2. req'[p].pc = "fill" /\ req'[p].u = u /\ req'[p].snap = View(row[u])
    <3>1. 0 \in 0..1
      OBVIOUS
    <3>. HIDE DEF u
    <3>. QED BY <1>2, <2>0, <2>1, <3>1, AtType
  <2>3. View(row[u]).status = "active" => row[u].status = "active"
    BY DEF View, Null
  <2>4. Turn(p, sess[p])
    BY <1>4 DEF Watch, Turn
  <2>5. SoundSession(See(sess[p]), req'[p], row')
    BY <1>1, <1>2, <2>1, <2>2, <2>3, SeeFacts DEF SoundSession
  <2>. QED BY <1>1, <1>3, <2>4, <2>5, TurnKeeps
<1>5. CASE Fill(p) /\ Turn(p, Answered(sess[p], req[p].snap))
  <2>. DEFINE s == Answered(sess[p], req[p].snap)
  <2>1. /\ s \in Session /\ s.pc \in {"idle", "issue"}
        /\ s.pc = "issue" => req[p].snap.status = "active" /\ s.u = u /\ s.seen = sess[p].seen
    BY <1>1, <1>2, AnsweredFacts
  <2>2. row' = row /\ req[p].pc = "fill"
    BY <1>5 DEF Fill
  <2>. HIDE DEF s
  <2>3. SoundSession(See(s), req'[p], row')
    BY <1>2, <2>1, <2>2, SeeFacts DEF SoundSession
  <2>4. Turn(p, s)
    BY <1>5 DEF s
  <2>. QED BY <1>3, <2>1, <2>3, <2>4, TurnKeeps
<1>6. CASE Abort(p) /\ Turn(p, Resting)
  <2>1. SoundSession(See(Resting), req'[p], row')
    BY RestingFacts, RestSound
  <2>. QED BY <1>3, <1>6, <2>1, RestingFacts, TurnKeeps
<1>. QED BY <1>4, <1>5, <1>6 DEF RefreshLoads

\* RefreshToken asks FindByID: an entry without an excuse tells the truth.
LEMMA RefreshKeeps ==
    ASSUME AccountsInv, TypeOK', NEW p \in Procs, NEW u \in Users, RefreshToken(p, u)
    PROVE  NamesUnique' /\ SessionsSound'
<1>. DEFINE s == Doing("find", NoOne, NoOne, u)
            n == IF Evicting(u) \/ excuse[u] = 1 THEN 1 ELSE 0
            m == [s EXCEPT !.excused = n]
<1>1. TypeOK /\ Known /\ StaleHasExcuse /\ row[u].status # "absent" /\ FindByID(p, u, "read")
  BY DEF AccountsInv, IInv, RefreshToken, FindByID
<1>2. UNCHANGED <<row, cache, acct, held>>
  BY DEF RefreshToken, FindByID
<1>3. Undisturbed(p) /\ SameAccounts
  BY <1>1, RepositoryEffect
<1>4. s \in Session /\ s.pc = "find" /\ s.u = u
  BY WithUserFacts
<1>5. Turn(p, IF req'[p].pc = "load" THEN s ELSE Answered(m, cache[u]))
  BY DEF RefreshToken
<1>6. n \in 0..1 /\ (n = 1 <=> Evicting(u) \/ excuse[u] = 1)
  OBVIOUS
<1>. HIDE DEF s, n
<1>7. m \in Session /\ m.u = u /\ m.excused = n
  BY <1>4, <1>6 DEF Session
<1>. HIDE DEF m
<1>8. CASE req'[p].pc = "load"
  <2>1. req'[p].u = u
    <3>1. req \in [Procs -> Request]
      BY <1>1 DEF TypeOK
    <3>2. "read" \in {"read", "profile"} /\ Nothing \in Entries /\ 0 \in 0..1
      BY SpecialEntries
    <3>3. AfterFind("read", u, cache[u]).u = u /\ At("load", "read", u, Nothing, 0).u = u
      BY <3>2, AtType, IdleType DEF AfterFind
    <3>. QED BY <1>1, <3>1, <3>3 DEF FindByID, Goto
  <2>2. SoundSession(See(s), req'[p], row')
    BY <1>1, <1>2, <1>4, <1>8, <2>1, SeeFacts DEF SoundSession
  <2>. QED BY <1>2, <1>3, <1>4, <1>5, <1>8, <2>2, TurnKeeps
<1>9. CASE req'[p].pc # "load"
  <2>. DEFINE t == Answered(m, cache[u])
  <2>1. /\ t \in Session /\ t.pc \in {"idle", "issue"}
        /\ t.pc = "issue" => cache[u].status = "active" /\ t.u = u /\ t.excused = n
    BY <1>7, AnsweredFacts
  <2>2. cache[u].status = "active" /\ n # 1 => row[u].status = "active"
    <3>1. Nothing.status # "active" /\ Null.status # "active"
      BY DEF Nothing, Null
    <3>. QED BY <1>1, <1>6, <3>1 DEF StaleHasExcuse, Fresh, View
  <2>3. Turn(p, t)
    BY <1>5, <1>9
  <2>. HIDE DEF t
  <2>4. SoundSession(See(t), req'[p], row')
    BY <1>1, <1>2, <2>1, <2>2, SeeFacts DEF SoundSession
  <2>. QED BY <1>2, <1>3, <2>1, <2>3, <2>4, TurnKeeps
<1>. QED BY <1>8, <1>9

\* userRepo.Create: the unique index keeps the names apart.
LEMMA InsertKeeps ==
    ASSUME AccountsInv, TypeOK', NEW p \in Procs, NEW u \in Users, Insert(p, u)
    PROVE  NamesUnique' /\ SessionsSound'
<1>. DEFINE a == [name |-> sess[p].n, password |-> sess[p].w]
            d == Doing("issue", NoOne, NoOne, u)
            s == [d EXCEPT !.seen = 1]
<1>1. /\ row \in [Users -> Rows] /\ acct \in [Users -> Account \cup {NoAccount}]
      /\ \A v \in Users : acct[v] = NoAccount <=> row[v].status = "absent"
      /\ held \subseteq {v \in Users : acct[v] # NoAccount}
  BY DEF AccountsInv, NamesUnique, AccountsTypeOK, TypeOK
<1>2. /\ row' = [row EXCEPT ![u] = [status |-> "active", profile |-> Blank]]
      /\ acct' = [acct EXCEPT ![u] = a] /\ Turn(p, s) /\ held' = held /\ req' = req
      /\ row[u].status = "absent" /\ sess[p].pc = "insert"
      /\ \A v \in Users : acct[v].name # sess[p].n
  BY DEF Insert, Create, Indexed
<1>3. sess[p].n \in Names /\ sess[p].w \in Passwords
  <2>1. SoundSession(sess[p], req[p], row)
    BY DEF AccountsInv, SessionsSound
  <2>. QED BY <1>2, <2>1 DEF SoundSession
<1>4. a \in Account /\ a # NoAccount /\ a.name = sess[p].n
  <2>1. a.name # NoOne /\ NoAccount.name = NoOne
    BY <1>3, AccountsAssumption DEF NoAccount
  <2>2. a \in Account /\ a.name = sess[p].n
    BY <1>3 DEF Account
  <2>. QED BY <2>1, <2>2
<1>5. s \in Session /\ s.pc = "issue" /\ s.u = u /\ s.seen = 1
  <2>1. d \in Session /\ d.pc = "issue" /\ d.u = u
    BY WithUserFacts
  <2>. HIDE DEF d
  <2>. QED BY <2>1 DEF Session
<1>. HIDE DEF a, s
<1>6. /\ row'[u].status = "active" /\ acct'[u] = a
      /\ \A v \in Users \ {u} : row'[v] = row[v] /\ acct'[v] = acct[v]
      /\ acct' \in [Users -> Account \cup {NoAccount}]
  BY <1>1, <1>2, <1>4
<1>7. sess' \in [Procs -> Session] /\ SessionsSound'
  <2>1. \A v \in Users : row[v].status # "absent" => row'[v].status # "absent"
    BY <1>1, <1>6
  <2>2. SoundSession(See(s), req'[p], row')
    BY <1>5, <1>6, SeeFacts DEF SoundSession
  <2>3. Undisturbed(p)
    BY <1>2 DEF Undisturbed
  <2>. QED BY <1>2, <1>5, <2>1, <2>2, <2>3, TurnSound
<1>8. AccountsTypeOK'
  <2>1. \A v \in Users : acct'[v] = NoAccount <=> row'[v].status = "absent"
    BY <1>1, <1>4, <1>6
  <2>2. held' \subseteq {v \in Users : acct'[v] # NoAccount}
    BY <1>1, <1>2, <1>4, <1>6
  <2>. QED BY <1>6, <1>7, <2>1, <2>2 DEF AccountsTypeOK
<1>9. ASSUME NEW v \in Users, NEW w \in Users, v # w, acct'[v] # NoAccount
      PROVE  acct'[v].name # acct'[w].name
  <2>1. CASE v = u
    BY <1>2, <1>4, <1>6, <1>9, <2>1
  <2>2. CASE w = u
    BY <1>2, <1>4, <1>6, <1>9, <2>2
  <2>3. CASE v # u /\ w # u
    BY <1>6, <1>9, <2>3 DEF AccountsInv, NamesUnique
  <2>. QED BY <2>1, <2>2, <2>3
<1>. QED BY <1>7, <1>8, <1>9 DEF NamesUnique

LEMMA AccountsStart == AccountsInit => AccountsInv
<1>. SUFFICES ASSUME AccountsInit PROVE AccountsInv
  OBVIOUS
<1>1. IInv /\ Known /\ Init
  BY InductiveInit DEF AccountsInit
<1>2. \A u \in Users : row[u].status = "absent" /\ acct[u] = NoAccount
  <2>1. row = [u \in Users |-> [status |-> "absent", profile |-> Blank]]
    BY <1>1 DEF Init
  <2>2. acct = [u \in Users |-> NoAccount]
    BY DEF AccountsInit
  <2>. QED BY <2>1, <2>2
<1>3. sess = [p \in Procs |-> Resting] /\ held = {} /\ acct = [u \in Users |-> NoAccount]
  BY DEF AccountsInit
<1>4. AccountsTypeOK
  <2>1. sess \in [Procs -> Session] /\ acct \in [Users -> Account \cup {NoAccount}]
    BY <1>3, RestingFacts
  <2>. QED BY <1>1, <1>2, <1>3, <2>1 DEF AccountsTypeOK, IInv
<1>5. SessionsSound
  BY <1>3, RestingFacts DEF SessionsSound, SoundSession
<1>. QED BY <1>1, <1>2, <1>4, <1>5 DEF AccountsInv, NamesUnique

LEMMA AccountsStep == AccountsInv /\ [AccountsNext]_allVars => AccountsInv'
<1>. SUFFICES ASSUME AccountsInv, [AccountsNext]_allVars PROVE AccountsInv'
  OBVIOUS
<1>1. IInv' /\ Known' /\ TypeOK'
  BY RepositoryStep, InductiveStep, KnownStep DEF AccountsInv, IInv
<1>2. CASE UNCHANGED <<vars, accountVars>>
  <2>1. NamesUnique'
    BY <1>1, <1>2 DEF vars, accountVars, AccountsInv, NamesUnique, AccountsTypeOK
  <2>2. SessionsSound'
    BY <1>2 DEF vars, accountVars, AccountsInv, SessionsSound
  <2>. QED BY <1>1, <2>1, <2>2 DEF AccountsInv
<1>3. CASE UNCHANGED allVars
  BY <1>2, <1>3 DEF allVars
<1>4. CASE AccountsNext
  <2>1. ASSUME NEW p \in Procs, NEW n \in Names, RegisterRefused(p, n) PROVE AccountsInv'
    BY <1>2, <2>1 DEF RegisterRefused
  <2>2. CASE NamesUnique' /\ SessionsSound'
    BY <1>1, <2>2 DEF AccountsInv
  <2>. QED
    BY <1>1, <1>4, <2>1, <2>2, ElapseKeeps, ManageKeeps, EndsKeep, RefreshLoadsKeeps, InsertKeeps,
       RefreshKeeps, RegisterKeeps, LoginKeeps DEF AccountsNext
<1>. QED BY <1>3, <1>4

\* Every reachable state of the accounts satisfies the strengthened invariant.
THEOREM AccountsInductive == AccountsSpec => []AccountsInv
  BY AccountsStart, AccountsStep, PTL DEF AccountsSpec

\* Two accounts never have the same name, deleted ones included: registrations that race
\* are kept apart by the unique index alone (Register, userRepo.Create).
THEOREM NamesStayUnique == AccountsSpec => []NamesUnique
<1>1. AccountsInv => NamesUnique
  BY DEF AccountsInv
<1>. QED BY <1>1, AccountsInductive, PTL

\* Nobody gets a pair whose account was not active at some moment of the call, unless
\* RefreshToken was answered from an entry with an excuse to be stale.
THEOREM PairsOnlyForActive == AccountsSpec => []PairsForActive
<1>1. AccountsInv => PairsForActive
  BY DEF AccountsInv, SessionsSound, SoundSession, PairsForActive
<1>. QED BY <1>1, AccountsInductive, PTL
=============================================================================
