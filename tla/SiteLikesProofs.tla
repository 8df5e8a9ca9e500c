--------------------------- MODULE SiteLikesProofs ---------------------------
(***************************************************************************)
(* Proofs about the site configuration and the likes, for any articles,    *)
(* users and handlers: the likes implement LikeSet, no field of the        *)
(* configuration is lost unless a save went over a change it had not seen, *)
(* and likes go through the two gates of LikeArticle.                      *)
(***************************************************************************)
EXTENDS SiteLikes, FiniteSetTheorems, TLAPS

\* What UpdateConfig or UpdatePlaylist saves when the configuration in force is c.
Outcome(q, c) ==
    IF q.op = "list" THEN [c EXCEPT !.list = q.new.list] ELSE MergeConfig(c, FromSiteConfig(q.new))

\* What a handler knows at each place, with c in force and st the status of the articles:
\* as long as nothing made it late, what it decided and computed still stands.
Sound(q, c, st) ==
    /\ q.pc \in {"get", "select"} => q.late = 0 /\ q.over = 0
    /\ q.pc = "fill" => q.late = q.over /\ (q.late = 0 => q.base = c)
    /\ q.pc = "save" => q.op \in {"update", "list"} /\ (q.late = 0 => q.base = Outcome(q, c))
    /\ q.pc \in {"find", "insert"} => (q.late = 0 => IsLikesEnabled(c))
    /\ q.pc = "insert" => (q.late = 0 => st[q.a] = "published")
    /\ q.pc \in {"get", "select", "fill"} => q.op # "none"
    /\ q.pc \in {"find", "insert", "remove"} \/ q.op = "like" => q.a \in Articles /\ q.u \in Users
    /\ q.op = "update" => q.new.list = 0

AllSound == \A p \in Procs : Sound(req[p], InForce, status)

\* An entry without an excuse is the configuration in force.
CacheSound == cached = Null \/ Excused \/ cached = InForce

Kept ==
    lost = 0 => /\ InForce.title = want.title /\ InForce.list = want.list
                /\ InForce.likes = IF omitted = 1 THEN "off" ELSE want.likes

Live(a) == {u \in Users : like[a][u] = "live"}

\* like_count is the number of rows of articles_likes until the article is deleted.
Counts == \A a \in Articles : status[a] # "deleted" => count[a] = Cardinality(Live(a))

IInv == TypeOK /\ AllSound /\ CacheSound /\ Kept /\ Counts

LEMMA RequestFields ==
    ASSUME NEW q \in Request
    PROVE  /\ q.pc \in {"idle", "get", "select", "fill", "find", "insert", "remove", "save", "evict"}
           /\ q.op \in {"none", "read", "like", "update", "list"}
           /\ q.a \in Articles \cup {Null} /\ q.u \in Users \cup {Null}
           /\ q.new \in Config /\ q.base \in Config /\ q.late \in 0..1 /\ q.over \in 0..1
  BY DEF Request

LEMMA ConfigFacts ==
    /\ Empty \in Config /\ Null \notin Config /\ Empty.likes = "nil"
    /\ \A c \in Config : c.title \in 0..1 /\ c.likes \in {"nil", "on", "off"} /\ c.list \in 0..1
  BY SiteLikesAssumption DEF Config, Empty

LEMMA InForceType == ASSUME TypeOK PROVE InForce \in Config
  BY ConfigFacts DEF TypeOK, InForce

LEMMA IdleFacts ==
    /\ Idle \in Request /\ Idle.pc = "idle" /\ Idle.op = "none" /\ Idle.late = 0 /\ Idle.over = 0
    /\ Idle.a = Null /\ Idle.u = Null /\ Idle.new = Empty /\ Idle.base = Empty
  BY ConfigFacts DEF Idle, Request

LEMMA OutcomeType ==
    ASSUME NEW q \in Request, NEW c \in Config
    PROVE  /\ MergeConfig(c, FromSiteConfig(q.new)) \in Config
           /\ [c EXCEPT !.list = q.new.list] \in Config
<1>1. q.new \in Config /\ FromSiteConfig(q.new) \in Config
  BY RequestFields DEF FromSiteConfig, Config
<1>2. MergeConfig(c, FromSiteConfig(q.new)) \in Config
  BY <1>1 DEF MergeConfig, Config
<1>3. [c EXCEPT !.list = q.new.list] \in Config
  BY <1>1 DEF Config
<1> QED
  BY <1>2, <1>3

\* Two states of a handler agree but for their places, bases and marks.
SameCall(r, q) == r.op = q.op /\ r.a = q.a /\ r.u = q.u /\ r.new = q.new

Places == {"idle", "get", "select", "fill", "find", "insert", "remove", "save", "evict"}

LEMMA SetPlace ==
    ASSUME NEW q \in Request, NEW pc \in Places
    PROVE  LET r == [q EXCEPT !.pc = pc]
           IN  /\ r \in Request /\ r.pc = pc /\ SameCall(r, q)
               /\ r.base = q.base /\ r.late = q.late /\ r.over = q.over
  BY DEF Request, Places, SameCall

LEMMA SetBase ==
    ASSUME NEW q \in Request, NEW b \in Config
    PROVE  LET r == [q EXCEPT !.base = b]
           IN  /\ r \in Request /\ r.base = b /\ SameCall(r, q)
               /\ r.pc = q.pc /\ r.late = q.late /\ r.over = q.over
  BY DEF Request, SameCall

LEMMA SetOver ==
    ASSUME NEW q \in Request, NEW n \in 0..1
    PROVE  LET r == [q EXCEPT !.over = n]
           IN  /\ r \in Request /\ r.over = n /\ SameCall(r, q)
               /\ r.pc = q.pc /\ r.late = q.late /\ r.base = q.base
  BY DEF Request, SameCall

LEMMA SetLate ==
    ASSUME NEW q \in Request, NEW n \in 0..1
    PROVE  LET r == [q EXCEPT !.late = n]
           IN  /\ r \in Request /\ r.late = n /\ SameCall(r, q)
               /\ r.pc = q.pc /\ r.over = q.over /\ r.base = q.base
  BY DEF Request, SameCall

\* The state of a handler that goes on to pc with the base it has read or computed.
LEMMA OnwardFacts ==
    ASSUME NEW q \in Request, NEW pc \in Places, NEW b \in Config
    PROVE  /\ Onward(q, pc, b) \in Request /\ Onward(q, pc, b).pc = pc
           /\ Onward(q, pc, b).base = b /\ Onward(q, pc, b).over = 0
           /\ SameCall(Onward(q, pc, b), q) /\ Onward(q, pc, b).late = q.late
<1> DEFINE r1 == [q EXCEPT !.pc = pc]
           r2 == [r1 EXCEPT !.base = b]
           r3 == [r2 EXCEPT !.over = 0]
<1>1. r1 \in Request /\ r1.pc = pc /\ SameCall(r1, q) /\ r1.late = q.late
  BY SetPlace
<1>2. r2 \in Request /\ r2.pc = pc /\ SameCall(r2, q) /\ r2.base = b /\ r2.late = q.late
  <2> HIDE DEF r1
  <2> QED BY <1>1, SetBase DEF SameCall
<1>3. r3 \in Request /\ r3.pc = pc /\ SameCall(r3, q) /\ r3.base = b /\ r3.late = q.late /\ r3.over = 0
  <2>0. 0 \in 0..1 /\ r2 \in Request
    BY <1>2
  <2> HIDE DEF r2
  <2>1. /\ r3 \in Request /\ r3.over = 0 /\ SameCall(r3, r2)
        /\ r3.pc = r2.pc /\ r3.late = r2.late /\ r3.base = r2.base
    BY <2>0, SetOver
  <2> QED BY <1>2, <2>1 DEF SameCall
<1>4. r3 = Onward(q, pc, b)
  BY DEF Onward
<1> QED
  BY <1>3, <1>4
-----------------------------------------------------------------------------
(* What the handlers know.                                                 *)

LEMMA IdleSound == ASSUME NEW c, NEW st PROVE Sound(Idle, c, st)
  BY IdleFacts DEF Sound

\* Going on with the configuration c is sound when c is the one in force.
LEMMA WithConfigSound ==
    ASSUME NEW q \in Request, NEW c \in Config, NEW v \in Config, NEW st,
           q.op # "none", q.late = 0 => c = v,
           q.op = "like" => q.a \in Articles /\ q.u \in Users,
           q.op = "update" => q.new.list = 0
    PROVE  /\ WithConfig(q, c) \in Request /\ Sound(WithConfig(q, c), v, st)
           /\ WithConfig(q, c).pc # "evict"
<1>1. CASE q.op = "read"
  BY <1>1, IdleFacts, IdleSound DEF WithConfig
<1>2. CASE q.op = "like" /\ ~IsLikesEnabled(c)
  BY <1>2, IdleFacts, IdleSound DEF WithConfig
<1>3. CASE q.op = "like" /\ IsLikesEnabled(c)
  <2> DEFINE r == Onward(q, "find", Empty)
  <2>1. WithConfig(q, c) = r
    BY <1>3 DEF WithConfig
  <2>2. "find" \in Places /\ Empty \in Config
    BY ConfigFacts DEF Places
  <2>3. r \in Request /\ r.pc = "find" /\ SameCall(r, q) /\ r.late = q.late
    BY <2>2, OnwardFacts
  <2> HIDE DEF r
  <2>4. Sound(r, v, st)
    BY <1>3, <2>3 DEF Sound, SameCall
  <2> QED
    BY <2>1, <2>3, <2>4
<1>4. CASE q.op = "update"
  <2> DEFINE r == Onward(q, "save", MergeConfig(c, FromSiteConfig(q.new)))
  <2>1. WithConfig(q, c) = r
    BY <1>4 DEF WithConfig
  <2>2. "save" \in Places /\ MergeConfig(c, FromSiteConfig(q.new)) \in Config
    BY OutcomeType DEF Places
  <2>3. /\ r \in Request /\ r.pc = "save" /\ SameCall(r, q) /\ r.late = q.late
        /\ r.base = MergeConfig(c, FromSiteConfig(q.new))
    BY <2>2, OnwardFacts
  <2> HIDE DEF r
  <2>4. Sound(r, v, st)
    BY <1>4, <2>3 DEF Sound, SameCall, Outcome
  <2> QED
    BY <2>1, <2>3, <2>4
<1>5. CASE q.op = "list"
  <2> DEFINE r == Onward(q, "save", [c EXCEPT !.list = q.new.list])
  <2>1. WithConfig(q, c) = r
    BY <1>5 DEF WithConfig
  <2>2. "save" \in Places /\ [c EXCEPT !.list = q.new.list] \in Config
    BY OutcomeType DEF Places
  <2>3. /\ r \in Request /\ r.pc = "save" /\ SameCall(r, q) /\ r.late = q.late
        /\ r.base = [c EXCEPT !.list = q.new.list]
    BY <2>2, OnwardFacts
  <2> HIDE DEF r
  <2>4. Sound(r, v, st)
    BY <1>5, <2>3 DEF Sound, SameCall, Outcome
  <2> QED
    BY <2>1, <2>3, <2>4
<1> QED
  BY <1>1, <1>2, <1>3, <1>4, <1>5, RequestFields

\* Save marks the handlers that have read a configuration; the others know nothing of it.
LEMMA MarkedBySave ==
    ASSUME NEW q \in Request, NEW c, NEW v, NEW st, Sound(q, c, st)
    PROVE  Overtaken(q) \in Request /\ Overtaken(q).pc = q.pc /\ Sound(Overtaken(q), v, st)
<1>1. CASE q.pc \notin {"fill", "save", "find", "insert"}
  BY <1>1 DEF Sound, Overtaken
<1>2. CASE q.pc \in {"fill", "save", "find", "insert"}
  <2> DEFINE n == IF q.pc = "fill" THEN 1 ELSE 0
             r1 == [q EXCEPT !.late = 1]
             r == [r1 EXCEPT !.over = n]
  <2>0. 1 \in 0..1 /\ n \in 0..1 /\ (q.pc = "fill" => n = 1)
    OBVIOUS
  <2>1. r1 \in Request /\ r1.late = 1 /\ SameCall(r1, q) /\ r1.pc = q.pc
    BY <2>0, SetLate
  <2>2. Overtaken(q) = r
    BY <1>2 DEF Overtaken
  <2> HIDE DEF r1, n
  <2>3. r \in Request /\ r.over = n /\ r.late = r1.late /\ SameCall(r, r1) /\ r.pc = r1.pc
    BY <2>0, <2>1, SetOver
  <2> HIDE DEF r
  <2>4. Sound(r, v, st)
    BY <1>2, <2>0, <2>1, <2>3 DEF Sound, SameCall
  <2> QED
    BY <1>2, <2>1, <2>2, <2>3, <2>4
<1> QED
  BY <1>1, <1>2

\* A change of status marks the handlers that have seen the old one.
LEMMA MarkedByStatus ==
    ASSUME NEW q \in Request, NEW c, NEW st, NEW st2, NEW b, Sound(q, c, st),
           \A a \in Articles \ {b} : st2[a] = st[a]
    PROVE  /\ Unsettled(q, b) \in Request /\ Unsettled(q, b).pc = q.pc
           /\ Sound(Unsettled(q, b), c, st2)
<1>1. CASE ~(q.pc = "insert" /\ q.a = b)
  BY <1>1 DEF Sound, Unsettled
<1>2. CASE q.pc = "insert" /\ q.a = b
  <2> DEFINE r == [q EXCEPT !.late = 1]
  <2>1. 1 \in 0..1
    OBVIOUS
  <2>2. r \in Request /\ r.late = 1 /\ SameCall(r, q) /\ r.pc = q.pc
    BY <2>1, SetLate
  <2>3. Sound(r, c, st2)
    BY <1>2, <2>2 DEF Sound, SameCall
  <2> QED
    BY <1>2, <2>2, <2>3 DEF r, Unsettled
<1> QED
  BY <1>1, <1>2
-----------------------------------------------------------------------------
(* The steps.                                                              *)

LEMMA OneMoves ==
    ASSUME IInv, NEW p \in Procs, NEW q \in Request, Goto(p, q), UNCHANGED <<cfg, status>>,
           Sound(q, InForce, status)
    PROVE  /\ req' \in [Procs -> Request] /\ AllSound' /\ InForce' = InForce
           /\ req'[p] = q /\ \A x \in Procs \ {p} : req'[x] = req[x]
<1>1. req \in [Procs -> Request] /\ req' = [req EXCEPT ![p] = q]
  BY DEF IInv, TypeOK, Goto
<1>2. req' \in [Procs -> Request] /\ req'[p] = q /\ \A x \in Procs \ {p} : req'[x] = req[x]
  BY <1>1
<1>3. InForce' = InForce
  BY DEF InForce
<1>4. ASSUME NEW x \in Procs PROVE Sound(req'[x], InForce', status')
  <2>1. CASE x = p
    BY <1>2, <1>3, <2>1
  <2>2. CASE x # p
    <3>1. Sound(req[x], InForce, status) /\ req'[x] = req[x]
      BY <1>2, <2>2 DEF IInv, AllSound
    <3> QED
      BY <1>3, <3>1
  <2> QED
    BY <2>1, <2>2
<1> QED
  BY <1>2, <1>3, <1>4 DEF AllSound

\* A step that only moves a handler, and not past its eviction.
LEMMA QuietMove ==
    ASSUME IInv, NEW p \in Procs, NEW q \in Request, Only(p, q), req[p].pc # "evict",
           started' \in 0..MaxRequests, Sound(q, InForce, status)
    PROVE  IInv'
<1>1. Goto(p, q) /\ UNCHANGED <<status, like, count, cfg, cached, faults, want, omitted, lost, excuse>>
  BY DEF Only, site, blog
<1>2. /\ req' \in [Procs -> Request] /\ AllSound' /\ InForce' = InForce
      /\ req'[p] = q /\ \A x \in Procs \ {p} : req'[x] = req[x]
  BY <1>1, OneMoves
<1>3. TypeOK'
  BY <1>1, <1>2 DEF IInv, TypeOK
<1>4. Excused => Excused'
  BY <1>1, <1>2 DEF Excused
<1>5. CacheSound' /\ Kept'
  BY <1>1, <1>2, <1>4 DEF IInv, CacheSound, Kept
<1>6. Counts'
  BY <1>1 DEF IInv, Counts, Live
<1> QED
  BY <1>2, <1>3, <1>5, <1>6 DEF IInv

LEMMA StartsKeep ==
    ASSUME IInv, NEW p \in Procs,
           \/ GetConfig(p)
           \/ \E l \in 0..1 : UpdatePlaylist(p, l)
           \/ \E t \in 0..1, e \in {"nil", "on", "off"} : UpdateConfig(p, t, e)
           \/ \E a \in Articles, u \in Users : LikeArticle(p, a, u) \/ UnlikeArticle(p, a, u)
    PROVE  IInv'
<1>1. req[p].pc = "idle" /\ started' \in 0..MaxRequests
  <2>1. Start(p)
    BY DEF GetConfig, UpdatePlaylist, UpdateConfig, LikeArticle, UnlikeArticle
  <2>2. started \in 0..MaxRequests /\ MaxRequests \in Nat
    BY SiteLikesAssumption DEF IInv, TypeOK
  <2> QED
    BY <2>1, <2>2 DEF Start
<1>2. req[p].pc # "evict"
  BY <1>1
<1> SUFFICES \E q \in Request : Only(p, q) /\ Sound(q, InForce, status)
  BY <1>1, <1>2, QuietMove
<1>3. CASE GetConfig(p)
  <2> DEFINE q == [Idle EXCEPT !.pc = "get", !.op = "read"]
  <2>1. q \in Request /\ q.pc = "get" /\ q.op = "read" /\ q.late = 0 /\ q.over = 0
    <3>1. Empty \in Config
      BY ConfigFacts
    <3>2. 0 \in 0..1
      OBVIOUS
    <3> QED
      BY <3>1, <3>2 DEF Idle, Request
  <2>2. Only(p, q)
    BY <1>3 DEF GetConfig
  <2> HIDE DEF q
  <2>3. Sound(q, InForce, status)
    BY <2>1 DEF Sound
  <2> QED
    BY <2>1, <2>2, <2>3
<1>4. ASSUME NEW l \in 0..1, UpdatePlaylist(p, l)
      PROVE  \E q \in Request : Only(p, q) /\ Sound(q, InForce, status)
  <2> DEFINE q == [Idle EXCEPT !.pc = "get", !.op = "list", !.new.list = l]
  <2>1. q \in Request /\ q.pc = "get" /\ q.op = "list" /\ q.late = 0 /\ q.over = 0
    BY ConfigFacts DEF Idle, Request, Empty, Config
  <2>2. Only(p, q)
    BY <1>4 DEF UpdatePlaylist
  <2> HIDE DEF q
  <2>3. Sound(q, InForce, status)
    BY <2>1 DEF Sound
  <2> QED
    BY <2>1, <2>2, <2>3
<1>5. ASSUME NEW t \in 0..1, NEW e \in {"nil", "on", "off"}, UpdateConfig(p, t, e)
      PROVE  \E q \in Request : Only(p, q) /\ Sound(q, InForce, status)
  <2> DEFINE new == [title |-> t, likes |-> e, list |-> 0]
             q == [Idle EXCEPT !.pc = "get", !.op = "update", !.new = new]
  <2>1. new \in Config /\ new.list = 0
    BY DEF Config
  <2>2. Only(p, q)
    BY <1>5 DEF UpdateConfig
  <2> HIDE DEF new
  <2>3. q \in Request /\ q.pc = "get" /\ q.op = "update" /\ q.late = 0 /\ q.over = 0 /\ q.new = new
    BY <2>1, ConfigFacts DEF Idle, Request
  <2> HIDE DEF q
  <2>4. Sound(q, InForce, status)
    BY <2>1, <2>3 DEF Sound
  <2> QED
    BY <2>2, <2>3, <2>4
<1>6. ASSUME NEW a \in Articles, NEW u \in Users, LikeArticle(p, a, u)
      PROVE  \E q \in Request : Only(p, q) /\ Sound(q, InForce, status)
  <2> DEFINE q == [Idle EXCEPT !.pc = "get", !.op = "like", !.a = a, !.u = u]
  <2>1. /\ q \in Request /\ q.pc = "get" /\ q.op = "like" /\ q.late = 0 /\ q.over = 0
        /\ q.a = a /\ q.u = u
    <3>1. Empty \in Config
      BY ConfigFacts
    <3>2. 0 \in 0..1
      OBVIOUS
    <3> QED
      BY <3>1, <3>2 DEF Idle, Request
  <2>2. Only(p, q)
    BY <1>6 DEF LikeArticle
  <2> HIDE DEF q
  <2>3. Sound(q, InForce, status)
    BY <2>1 DEF Sound
  <2> QED
    BY <2>1, <2>2, <2>3
<1>7. ASSUME NEW a \in Articles, NEW u \in Users, UnlikeArticle(p, a, u)
      PROVE  \E q \in Request : Only(p, q) /\ Sound(q, InForce, status)
  <2> DEFINE q == [Idle EXCEPT !.pc = "remove", !.a = a, !.u = u]
  <2>1. q \in Request /\ q.pc = "remove" /\ q.op = "none" /\ q.a = a /\ q.u = u
    <3>1. Empty \in Config
      BY ConfigFacts
    <3>2. 0 \in 0..1
      OBVIOUS
    <3> QED
      BY <3>1, <3>2 DEF Idle, Request
  <2>2. Only(p, q)
    BY <1>7 DEF UnlikeArticle
  <2> HIDE DEF q
  <2>3. Sound(q, InForce, status)
    BY <2>1 DEF Sound
  <2> QED
    BY <2>1, <2>2, <2>3
<1> QED
  BY <1>3, <1>4, <1>5, <1>6, <1>7

\* A handler has got a configuration: from the cache, from the table, or none yet.
LEMMA ReadsKeep ==
    ASSUME IInv, NEW p \in Procs, CacheGet(p) \/ Select(p)
    PROVE  IInv'
<1> DEFINE q == req[p]
<1>1. q \in Request /\ Sound(q, InForce, status) /\ started' \in 0..MaxRequests
      /\ q.pc \in {"get", "select"}
  BY DEF IInv, TypeOK, AllSound, CacheGet, Select, At
<1>2. /\ q.late = 0 /\ q.over = 0 /\ q.op # "none"
      /\ q.op = "like" => q.a \in Articles /\ q.u \in Users
      /\ q.op = "update" => q.new.list = 0
  BY <1>1 DEF Sound
<1>3. InForce \in Config /\ Empty \in Config
  BY InForceType, ConfigFacts DEF IInv
<1>4. q.pc # "evict"
  BY <1>1
<1> SUFFICES \E r \in Request : Only(p, r) /\ Sound(r, InForce, status)
  BY <1>1, <1>4, QuietMove
<1>5. CASE CacheGet(p) /\ cached = Null
  <2> DEFINE r == [q EXCEPT !.pc = "select"]
  <2>1. Only(p, r)
    BY <1>5 DEF CacheGet
  <2>2. "select" \in Places
    BY DEF Places
  <2>3. r \in Request /\ r.pc = "select" /\ SameCall(r, q) /\ r.late = q.late /\ r.over = q.over
    BY <1>1, <2>2, SetPlace
  <2> HIDE DEF r
  <2>4. Sound(r, InForce, status)
    BY <1>2, <2>3 DEF Sound, SameCall
  <2> QED
    BY <2>1, <2>3, <2>4
<1>6. CASE CacheGet(p) /\ cached # Null
  <2> DEFINE n == IF Excused THEN 1 ELSE 0
             m == [q EXCEPT !.late = n]
  <2>1. Only(p, WithConfig(m, cached))
    BY <1>6 DEF CacheGet
  <2>2. n \in 0..1 /\ (n = 0 => ~Excused)
    OBVIOUS
  <2> HIDE DEF n
  <2>3. m \in Request /\ m.late = n /\ SameCall(m, q)
    BY <1>1, <2>2, SetLate
  <2> HIDE DEF m
  <2>4. cached \in Config /\ (m.late = 0 => cached = InForce)
    BY <1>6, <2>2, <2>3 DEF IInv, TypeOK, CacheSound
  <2>5. /\ m.op # "none" /\ (m.op = "like" => m.a \in Articles /\ m.u \in Users)
        /\ m.op = "update" => m.new.list = 0
    BY <1>2, <2>3 DEF SameCall
  <2>6. WithConfig(m, cached) \in Request /\ Sound(WithConfig(m, cached), InForce, status)
    BY <1>3, <2>3, <2>4, <2>5, WithConfigSound
  <2> QED
    BY <2>1, <2>6
<1>7. CASE Select(p) /\ cfg = Null
  <2>1. Only(p, WithConfig(q, Empty))
    BY <1>7 DEF Select
  <2>2. InForce = Empty
    BY <1>7 DEF InForce
  <2>3. WithConfig(q, Empty) \in Request /\ Sound(WithConfig(q, Empty), InForce, status)
    BY <1>1, <1>2, <1>3, <2>2, WithConfigSound
  <2> QED
    BY <2>1, <2>3
<1>8. CASE Select(p) /\ cfg # Null
  <2> DEFINE m == [q EXCEPT !.pc = "fill"]
             r == [m EXCEPT !.base = cfg]
  <2>1. Only(p, r)
    BY <1>8 DEF Select
  <2>2. "fill" \in Places /\ cfg \in Config /\ InForce = cfg
    BY <1>8 DEF Places, IInv, TypeOK, InForce
  <2>3. m \in Request /\ m.pc = "fill" /\ SameCall(m, q) /\ m.late = q.late /\ m.over = q.over
    BY <1>1, <2>2, SetPlace
  <2> HIDE DEF m
  <2>4. /\ r \in Request /\ r.base = cfg /\ SameCall(r, m) /\ r.pc = m.pc /\ r.late = m.late
        /\ r.over = m.over
    BY <2>2, <2>3, SetBase
  <2> HIDE DEF r
  <2>5. Sound(r, InForce, status)
    BY <1>2, <2>2, <2>3, <2>4 DEF Sound, SameCall
  <2> QED
    BY <2>1, <2>4, <2>5
<1> QED
  BY <1>5, <1>6, <1>7, <1>8

LEMMA FillKeeps ==
    ASSUME IInv, NEW p \in Procs, Fill(p)
    PROVE  IInv'
<1> DEFINE q == req[p]
           r == WithConfig(q, q.base)
<1>1. q \in Request /\ Sound(q, InForce, status) /\ q.pc = "fill"
  BY DEF IInv, TypeOK, AllSound, Fill, At
<1>2. /\ q.late = q.over /\ (q.late = 0 => q.base = InForce) /\ q.op # "none"
      /\ q.op = "like" => q.a \in Articles /\ q.u \in Users
      /\ q.op = "update" => q.new.list = 0
  BY <1>1 DEF Sound
<1>3. q.base \in Config /\ q.over \in 0..1 /\ InForce \in Config
  BY <1>1, RequestFields, InForceType DEF IInv
<1>4. r \in Request /\ Sound(r, InForce, status)
  BY <1>1, <1>2, <1>3, WithConfigSound
<1>5. /\ cached' = q.base /\ excuse' = q.over /\ Goto(p, r)
      /\ UNCHANGED <<cfg, faults, want, omitted, lost, status, like, count, started>>
  BY DEF Fill, At, blog
<1> HIDE DEF q, r
<1>6. req' \in [Procs -> Request] /\ AllSound' /\ InForce' = InForce
  BY <1>4, <1>5, OneMoves
<1>7. TypeOK'
  BY <1>3, <1>5, <1>6 DEF IInv, TypeOK
<1>8. CacheSound'
  BY <1>2, <1>3, <1>5, <1>6 DEF CacheSound, Excused
<1>9. Kept' /\ Counts'
  BY <1>5, <1>6 DEF IInv, Kept, Counts, Live
<1> QED
  BY <1>6, <1>7, <1>8, <1>9 DEF IInv

\* What is saved is what was given, when the handler is not late and the configuration c
\* in force had all that was given before.
LEMMA OutcomeIsGiven ==
    ASSUME NEW q \in Request, q.op \in {"update", "list"}, want \in Config, omitted \in 0..1,
           q.op = "update" => q.new.list = 0, NEW c \in Config
    PROVE  /\ Given(q) \in Config /\ Omits(q) \in 0..1
           /\ c.title = want.title => Outcome(q, c).title = Given(q).title
           /\ c.list = want.list => Outcome(q, c).list = Given(q).list
           /\ c.likes = (IF omitted = 1 THEN "off" ELSE want.likes)
                => Outcome(q, c).likes = IF Omits(q) = 1 THEN "off" ELSE Given(q).likes
<1>1. q.new \in Config
  BY RequestFields
<1>2. CASE q.op = "list"
  BY <1>1, <1>2 DEF Given, Omits, Outcome, Config
<1>3. CASE q.op = "update"
  <2>1. /\ Given(q) = MergeConfig(want, q.new) /\ Omits(q) = IF q.new.likes = "nil" THEN 1 ELSE 0
        /\ Outcome(q, c) = MergeConfig(c, FromSiteConfig(q.new)) /\ q.new.list = 0
    BY <1>3 DEF Given, Omits, Outcome
  <2>2. /\ FromSiteConfig(q.new).title = q.new.title /\ FromSiteConfig(q.new).list = q.new.list
        /\ FromSiteConfig(q.new).likes = IF q.new.likes = "nil" THEN "off" ELSE q.new.likes
    BY <1>1 DEF FromSiteConfig, Config
  <2> QED
    BY <1>1, <2>1, <2>2 DEF MergeConfig, Config
<1> QED
  BY <1>2, <1>3

LEMMA SaveKeeps ==
    ASSUME IInv, NEW p \in Procs, Save(p)
    PROVE  IInv'
<1> DEFINE q == req[p]
           e == [Idle EXCEPT !.pc = "evict"]
<1>1. q \in Request /\ Sound(q, InForce, status) /\ q.pc = "save" /\ want \in Config
  BY DEF IInv, TypeOK, AllSound, Save, At
<1>2. /\ q.op \in {"update", "list"} /\ (q.late = 0 => q.base = Outcome(q, InForce))
      /\ q.op = "update" => q.new.list = 0
  BY <1>1 DEF Sound
<1>3. q.base \in Config /\ q.late \in 0..1
  BY <1>1, RequestFields
<1>4. /\ Given(q) \in Config /\ Omits(q) \in 0..1
      /\ InForce.title = want.title => Outcome(q, InForce).title = Given(q).title
      /\ InForce.list = want.list => Outcome(q, InForce).list = Given(q).list
      /\ InForce.likes = (IF omitted = 1 THEN "off" ELSE want.likes)
           => Outcome(q, InForce).likes = IF Omits(q) = 1 THEN "off" ELSE Given(q).likes
  BY <1>1, <1>2, InForceType, OutcomeIsGiven DEF IInv, TypeOK
<1>5. "evict" \in Places
  BY DEF Places
<1>6. e \in Request /\ e.pc = "evict" /\ e.op = "none"
  BY <1>5, IdleFacts, SetPlace DEF SameCall
<1>7. /\ cfg' = q.base /\ want' = Given(q) /\ omitted' = Omits(q) /\ lost' = IF q.late = 1 THEN 1 ELSE lost
      /\ req' = [x \in Procs |-> IF x = p THEN e ELSE Overtaken(req[x])]
      /\ UNCHANGED <<cached, faults, excuse, status, like, count, started>>
  BY DEF Save, At, blog
<1> HIDE DEF q, e
<1>8. InForce' = q.base
  BY <1>3, <1>7, ConfigFacts DEF InForce
<1>9. ASSUME NEW x \in Procs PROVE req'[x] \in Request /\ Sound(req'[x], q.base, status)
  <2>1. CASE x = p
    BY <1>6, <1>7, <2>1 DEF Sound
  <2>2. CASE x # p
    <3>1. req[x] \in Request /\ Sound(req[x], InForce, status)
      BY DEF IInv, TypeOK, AllSound
    <3>2. Overtaken(req[x]) \in Request /\ Sound(Overtaken(req[x]), q.base, status)
      BY <3>1, MarkedBySave
    <3> QED
      BY <1>7, <2>2, <3>2
  <2> QED
    BY <2>1, <2>2
<1>10. AllSound'
  BY <1>7, <1>8, <1>9 DEF AllSound
<1>11. TypeOK'
  <2>1. req' \in [Procs -> Request]
    BY <1>7, <1>9
  <2> QED
    BY <1>3, <1>4, <1>7, <2>1 DEF IInv, TypeOK
<1>12. CacheSound'
  <2>1. req'[p].pc = "evict"
    BY <1>6, <1>7
  <2> QED
    BY <2>1 DEF CacheSound, Excused
<1>13. Kept'
  BY <1>2, <1>3, <1>4, <1>7, <1>8 DEF IInv, Kept
<1>14. Counts'
  BY <1>7 DEF IInv, Counts, Live
<1> QED
  BY <1>10, <1>11, <1>12, <1>13, <1>14 DEF IInv

LEMMA EvictsKeep ==
    ASSUME IInv, NEW p \in Procs, Evict(p) \/ EvictLost(p)
    PROVE  IInv'
<1>1. /\ Goto(p, Idle) /\ UNCHANGED <<cfg, want, omitted, lost, status, like, count, started>>
      /\ faults' \in 0..MaxFaults
      /\ (cached' = Null /\ excuse' = 0) \/ (cached' = cached /\ excuse' = 1)
  BY SiteLikesAssumption DEF Evict, EvictLost, At, blog, IInv, TypeOK
<1>2. req' \in [Procs -> Request] /\ AllSound' /\ InForce' = InForce
  BY <1>1, IdleFacts, IdleSound, OneMoves
<1>3. TypeOK'
  BY <1>1, <1>2 DEF IInv, TypeOK
<1>4. CacheSound' /\ Kept' /\ Counts'
  BY <1>1, <1>2 DEF IInv, CacheSound, Excused, Kept, Counts, Live
<1> QED
  BY <1>2, <1>3, <1>4 DEF IInv

LEMMA ExpireKeeps == ASSUME IInv, Expire PROVE IInv'
  BY DEF Expire, blog, IInv, TypeOK, AllSound, CacheSound, Kept, Counts, Live, InForce

LEMMA GivesUp ==
    ASSUME IInv, NEW p \in Procs, Fails(p) \/ FindPublished(p)
    PROVE  IInv'
<1> DEFINE q == req[p]
           r == [q EXCEPT !.pc = "insert"]
<1>1. /\ q \in Request /\ Sound(q, InForce, status) /\ started' \in 0..MaxRequests
      /\ q.pc # "evict"
  BY DEF IInv, TypeOK, AllSound, Fails, FindPublished, At
<1>2. CASE Only(p, Idle)
  BY <1>1, <1>2, IdleFacts, IdleSound, QuietMove
<1>3. CASE FindPublished(p) /\ status[q.a] = "published"
  <2>1. "insert" \in Places
    BY DEF Places
  <2>2. r \in Request /\ r.pc = "insert" /\ SameCall(r, q) /\ r.late = q.late
    BY <1>1, <2>1, SetPlace
  <2>3. Only(p, r) /\ q.pc = "find"
    BY <1>3 DEF FindPublished, At
  <2> HIDE DEF r
  <2>4. Sound(r, InForce, status)
    BY <1>1, <1>3, <2>2, <2>3 DEF Sound, SameCall
  <2> QED
    BY <1>1, <2>2, <2>3, <2>4, QuietMove
<1> QED
  BY <1>2, <1>3 DEF Fails, FindPublished
-----------------------------------------------------------------------------
(* The likes.                                                              *)

LEMMA LiveBounds ==
    ASSUME NEW a \in Articles
    PROVE  Cardinality(Live(a)) \in 0..Cardinality(Users) /\ Cardinality(Users) \in Nat
<1>1. Live(a) \subseteq Users /\ IsFiniteSet(Users)
  BY SiteLikesAssumption DEF Live
<1> QED
  BY <1>1, FS_Subset, FS_CardinalityType

\* What one request or one row adds to a count.
Bit(b) == IF b THEN 1 ELSE 0

\* One row of articles_likes changes.
LEMMA RowChange ==
    ASSUME TypeOK, NEW a \in Articles, NEW u \in Users, NEW r \in {"live", "dead"},
           like' = [like EXCEPT ![a][u] = r]
    PROVE  /\ like' \in [Articles -> [Users -> {"none", "live", "dead"}]]
           /\ like'[a][u] = r /\ \A v \in Users \ {u} : like'[a][v] = like[a][v]
           /\ \A b \in Articles \ {a} : like'[b] = like[b]
           /\ Cardinality(Live(a)') = Cardinality(Live(a)) + Bit(r = "live")
                                                          - Bit(like[a][u] = "live")
           /\ \A b \in Articles \ {a} : Live(b)' = Live(b)
           /\ Cardinality(Live(a)') <= Cardinality(Users)
<1>1. like \in [Articles -> [Users -> {"none", "live", "dead"}]]
  BY DEF TypeOK
<1>2. /\ like' \in [Articles -> [Users -> {"none", "live", "dead"}]]
      /\ like'[a][u] = r /\ \A v \in Users \ {u} : like'[a][v] = like[a][v]
      /\ \A b \in Articles \ {a} : like'[b] = like[b]
  BY <1>1
<1>3. \A b \in Articles \ {a} : Live(b)' = Live(b)
  BY <1>2 DEF Live
<1>4. /\ Live(a) \in SUBSET Users /\ Live(a)' \in SUBSET Users /\ IsFiniteSet(Users)
      /\ \A v \in Users \ {u} : v \in Live(a) <=> v \in Live(a)'
  BY <1>2, SiteLikesAssumption DEF Live
<1>5. Cardinality(Live(a)') = Cardinality(Live(a)) + Bit(u \in Live(a)') - Bit(u \in Live(a))
  <2> DEFINE T == Live(a)
             U == Live(a)'
  <2>1. T = U \/ (u \notin T /\ U = T \cup {u}) \/ (u \notin U /\ T = U \cup {u})
    BY <1>4
  <2>2. IsFiniteSet(T) /\ IsFiniteSet(U) /\ Cardinality(T) \in Nat /\ Cardinality(U) \in Nat
    BY <1>4, FS_Subset, FS_CardinalityType
  <2> HIDE DEF T, U
  <2>3. Cardinality(U) = Cardinality(T) + Bit(u \in U) - Bit(u \in T)
    BY <2>1, <2>2, FS_AddElement DEF Bit
  <2> QED
    BY <2>3 DEF T, U
<1>6. (u \in Live(a) <=> like[a][u] = "live") /\ (u \in Live(a)' <=> r = "live")
  BY <1>2 DEF Live
<1>7. Bit(u \in Live(a)) = Bit(like[a][u] = "live") /\ Bit(u \in Live(a)') = Bit(r = "live")
  BY <1>6 DEF Bit
<1>8. Cardinality(Live(a)') <= Cardinality(Users)
  BY <1>4, FS_Subset
<1> QED
  BY <1>2, <1>3, <1>5, <1>7, <1>8

\* What InsertLike and DeleteLike do to the rows and the counter.
Gives(a, u) ==
    /\ like[a][u] = "none"
    /\ like' = [like EXCEPT ![a][u] = "live"]
    /\ count' = [count EXCEPT ![a] = Counted(a, @ + 1)]
Takes(a, u) ==
    /\ like[a][u] = "live"
    /\ like' = [like EXCEPT ![a][u] = "dead"]
    /\ count' = [count EXCEPT ![a] = Counted(a, IF @ > 0 THEN @ - 1 ELSE 0)]

LEMMA LikeEffect ==
    ASSUME IInv, NEW p \in Procs, InsertLike(p) \/ DeleteLike(p)
    PROVE  /\ req[p].a \in Articles /\ req[p].u \in Users
           /\ \/ UNCHANGED <<like, count>>
              \/ Gives(req[p].a, req[p].u)
              \/ Takes(req[p].a, req[p].u)
<1>1. Sound(req[p], InForce, status) /\ req[p].pc \in {"insert", "remove"}
  BY DEF IInv, AllSound, InsertLike, DeleteLike, At
<1>2. req[p].a \in Articles /\ req[p].u \in Users
  BY <1>1 DEF Sound
<1> QED
  BY <1>2 DEF InsertLike, DeleteLike, Inserted, Deletes, Gives, Takes

\* The counter moves with the rows of an article that is not deleted.
LEMMA CounterMoves ==
    ASSUME IInv, NEW a \in Articles, NEW u \in Users, Gives(a, u) \/ Takes(a, u)
    PROVE  /\ \A b \in Articles \ {a} : count'[b] = count[b]
           /\ count' \in [Articles -> 0..Cardinality(Users)]
           /\ status[a] = "deleted" => count'[a] = count[a]
           /\ status[a] # "deleted" => count'[a] = Cardinality(Live(a)')
           /\ status[a] # "deleted" /\ Gives(a, u) => count'[a] = count[a] + 1
           /\ status[a] # "deleted" /\ Takes(a, u) => count'[a] = count[a] - 1
<1>1. ~(Gives(a, u) /\ Takes(a, u))
  BY DEF Gives, Takes
<1>2. count \in [Articles -> 0..Cardinality(Users)] /\ TypeOK
  BY DEF IInv, TypeOK
<1>3. /\ Cardinality(Live(a)) \in 0..Cardinality(Users) /\ Cardinality(Users) \in Nat
      /\ status[a] # "deleted" => count[a] = Cardinality(Live(a))
  BY LiveBounds DEF IInv, Counts
<1>4. CASE Gives(a, u)
  <2>1. like' = [like EXCEPT ![a][u] = "live"] /\ count' = [count EXCEPT ![a] = Counted(a, count[a] + 1)]
    BY <1>4 DEF Gives
  <2>2. /\ Cardinality(Live(a)') = Cardinality(Live(a)) + Bit("live" = "live") - Bit(like[a][u] = "live")
        /\ Cardinality(Live(a)') <= Cardinality(Users)
    BY <1>2, <2>1, RowChange
  <2>3. Bit("live" = "live") = 1 /\ Bit(like[a][u] = "live") = 0
    BY <1>4 DEF Bit, Gives
  <2>4. Cardinality(Live(a)') = Cardinality(Live(a)) + 1
    BY <1>3, <2>2, <2>3
  <2>5. Counted(a, count[a] + 1) \in 0..Cardinality(Users)
    BY <1>2, <1>3, <2>2, <2>4 DEF Counted
  <2> QED
    BY <1>1, <1>2, <1>3, <1>4, <2>1, <2>4, <2>5 DEF Counted
<1>5. CASE Takes(a, u)
  <2> DEFINE n == IF count[a] > 0 THEN count[a] - 1 ELSE 0
  <2>1. like' = [like EXCEPT ![a][u] = "dead"] /\ count' = [count EXCEPT ![a] = Counted(a, n)]
    BY <1>5 DEF Takes
  <2>2. Cardinality(Live(a)') = Cardinality(Live(a)) + Bit("dead" = "live") - Bit(like[a][u] = "live")
    BY <1>2, <2>1, RowChange
  <2>3. Bit("dead" = "live") = 0 /\ Bit(like[a][u] = "live") = 1
    BY <1>5 DEF Bit, Takes
  <2>4. Cardinality(Live(a)') \in Nat
    <3>1. Live(a)' \subseteq Users /\ IsFiniteSet(Users)
      BY SiteLikesAssumption DEF Live
    <3> QED
      BY <3>1, FS_Subset, FS_CardinalityType
  <2>5. Cardinality(Live(a)') = Cardinality(Live(a)) - 1 /\ Cardinality(Live(a)) > 0
    BY <1>3, <2>2, <2>3, <2>4
  <2>6. n \in 0..Cardinality(Users) /\ (status[a] # "deleted" => n = count[a] - 1)
    BY <1>2, <1>3, <2>5
  <2> HIDE DEF n
  <2>7. Counted(a, n) \in 0..Cardinality(Users)
    BY <1>2, <2>6 DEF Counted
  <2> QED
    BY <1>1, <1>2, <1>3, <1>5, <2>1, <2>5, <2>6, <2>7 DEF Counted
<1> QED
  BY <1>4, <1>5

LEMMA LikesKeep ==
    ASSUME IInv, NEW p \in Procs, InsertLike(p) \/ DeleteLike(p)
    PROVE  IInv'
<1>1. /\ Goto(p, Idle) /\ UNCHANGED <<status, cfg, cached, faults, want, omitted, lost, excuse, started>>
      /\ req[p].pc # "evict"
  BY DEF InsertLike, DeleteLike, At, site
<1>2. /\ req' \in [Procs -> Request] /\ AllSound' /\ InForce' = InForce
      /\ \A x \in Procs \ {p} : req'[x] = req[x]
  BY <1>1, IdleFacts, IdleSound, OneMoves
<1>3. CacheSound' /\ Kept'
  <2>1. Excused => Excused'
    BY <1>1, <1>2 DEF Excused
  <2> QED
    BY <1>1, <1>2, <2>1 DEF IInv, CacheSound, Kept
<1>4. PICK a \in Articles, u \in Users : UNCHANGED <<like, count>> \/ Gives(a, u) \/ Takes(a, u)
  BY LikeEffect
<1>5. CASE UNCHANGED <<like, count>>
  BY <1>1, <1>2, <1>3, <1>5 DEF IInv, TypeOK, Counts, Live
<1>6. CASE Gives(a, u) \/ Takes(a, u)
  <2>1. /\ \A b \in Articles \ {a} : count'[b] = count[b]
        /\ count' \in [Articles -> 0..Cardinality(Users)]
        /\ status[a] # "deleted" => count'[a] = Cardinality(Live(a)')
    BY <1>4, <1>6, CounterMoves
  <2>2. /\ like' \in [Articles -> [Users -> {"none", "live", "dead"}]]
        /\ \A b \in Articles \ {a} : Live(b)' = Live(b)
    BY <1>4, <1>6, RowChange DEF Gives, Takes, IInv
  <2>3. TypeOK'
    BY <1>1, <1>2, <2>1, <2>2 DEF IInv, TypeOK
  <2>4. Counts'
    BY <1>1, <2>1, <2>2 DEF IInv, Counts
  <2> QED
    BY <1>2, <1>3, <2>3, <2>4 DEF IInv
<1> QED
  BY <1>4, <1>5, <1>6

LEMMA StatusKeeps ==
    ASSUME IInv, NEW a \in Articles, NEW s \in {"published", "draft", "deleted"}, SetStatus(a, s)
    PROVE  IInv'
<1>1. /\ status' = [status EXCEPT ![a] = s] /\ status[a] # "deleted"
      /\ req' = [x \in Procs |-> Unsettled(req[x], a)] /\ started' \in 0..MaxRequests
      /\ UNCHANGED <<like, count, cfg, cached, faults, want, omitted, lost, excuse>>
  <2>1. started \in 0..MaxRequests /\ MaxRequests \in Nat
    BY SiteLikesAssumption DEF IInv, TypeOK
  <2>2. started' = started + 1 /\ started < MaxRequests
    BY DEF SetStatus
  <2>3. started' \in 0..MaxRequests
    BY <2>1, <2>2
  <2> QED
    BY <2>3 DEF SetStatus, site
<1>2. /\ status' \in [Articles -> {"published", "draft", "deleted"}]
      /\ \A b \in Articles \ {a} : status'[b] = status[b]
  BY <1>1 DEF IInv, TypeOK
<1>3. InForce' = InForce
  BY <1>1 DEF InForce
<1>4. ASSUME NEW x \in Procs
      PROVE  req'[x] \in Request /\ req'[x].pc = req[x].pc /\ Sound(req'[x], InForce, status')
  <2>1. req[x] \in Request /\ Sound(req[x], InForce, status) /\ req'[x] = Unsettled(req[x], a)
    BY <1>1 DEF IInv, TypeOK, AllSound
  <2>2. \A b \in Articles \ {a} : status'[b] = status[b]
    BY <1>2
  <2>3. /\ Unsettled(req[x], a) \in Request /\ Unsettled(req[x], a).pc = req[x].pc
        /\ Sound(Unsettled(req[x], a), InForce, status')
    BY <2>1, <2>2, MarkedByStatus
  <2> QED
    BY <2>1, <2>3
<1>5. AllSound'
  BY <1>3, <1>4 DEF AllSound
<1>6. TypeOK'
  <2>1. req' \in [Procs -> Request]
    BY <1>1, <1>4
  <2> QED
    BY <1>1, <1>2, <2>1 DEF IInv, TypeOK
<1>7. CacheSound' /\ Kept'
  BY <1>1, <1>3, <1>4 DEF IInv, CacheSound, Excused, Kept
<1>8. Counts'
  BY <1>1, <1>2 DEF IInv, Counts, Live
<1> QED
  BY <1>5, <1>6, <1>7, <1>8 DEF IInv

LEMMA InductiveStep == IInv /\ [Next]_vars => IInv'
<1> SUFFICES ASSUME IInv, [Next]_vars PROVE IInv'
  OBVIOUS
<1>1. CASE UNCHANGED vars
  BY <1>1 DEF vars, IInv, TypeOK, AllSound, CacheSound, Excused, Kept, Counts, Live, InForce
<1>2. CASE Next
  BY <1>2, ExpireKeeps, StatusKeeps, StartsKeep, ReadsKeep, FillKeeps, SaveKeeps, EvictsKeep,
     GivesUp, LikesKeep DEF Next
<1> QED
  BY <1>1, <1>2

LEMMA InductiveInit == Init => IInv
<1> SUFFICES ASSUME Init PROVE IInv
  OBVIOUS
<1>1. InForce = Empty
  BY DEF Init, InForce
<1>2. AllSound
  BY <1>1, IdleSound DEF Init, AllSound
<1>3. Cardinality(Users) \in Nat
  BY SiteLikesAssumption, FS_CardinalityType
<1>4. TypeOK
  <2>1. req \in [Procs -> Request] /\ want \in Config
    BY IdleFacts, ConfigFacts DEF Init
  <2>2. MaxFaults \in Nat /\ MaxRequests \in Nat
    BY SiteLikesAssumption
  <2>3. count \in [Articles -> 0..Cardinality(Users)]
    BY <1>3 DEF Init
  <2> QED
    BY <2>1, <2>2, <2>3 DEF Init, TypeOK
<1>5. Counts
  <2>1. ASSUME NEW a \in Articles PROVE Live(a) = {}
    BY DEF Init, Live
  <2> QED
    BY <2>1, FS_EmptySet DEF Init, Counts
<1> QED
  BY <1>1, <1>2, <1>4, <1>5 DEF Init, IInv, CacheSound, Kept

\* The inductive invariant holds in every reachable state.
THEOREM Inductive == Spec => []IInv
  BY InductiveInit, InductiveStep, PTL DEF Spec

\* The saved configuration has the last value given for every field, unless a save went
\* over a change it had not seen (UpdateConfig, UpdatePlaylist, SaveConfig); enable_likes
\* is off after an UpdateConfig that does not give it.
THEOREM NoFieldLost == Spec => []FieldsKept
<1>1. IInv => FieldsKept
  BY DEF IInv, Kept, InForce, FieldsKept
<1> QED
  BY <1>1, Inductive, PTL

\* A like is recorded only through the two gates of LikeArticle.
THEOREM GateHolds == Spec => LikedThroughGate
<1>1. ASSUME IInv
      PROVE  \A p \in Procs : LET q == req[p] IN
               InsertLike(p) /\ like' # like
                 => q.late = 1 \/ (status[q.a] = "published" /\ (cfg = Null \/ cfg.likes # "off"))
  <2> SUFFICES ASSUME NEW p \in Procs, InsertLike(p), req[p].late # 1
               PROVE  status[req[p].a] = "published" /\ (cfg = Null \/ cfg.likes # "off")
    OBVIOUS
  <2>1. req[p] \in Request /\ Sound(req[p], InForce, status) /\ req[p].pc = "insert"
    BY <1>1 DEF IInv, TypeOK, AllSound, InsertLike, At
  <2>2. req[p].late = 0
    BY <2>1, RequestFields
  <2> QED
    BY <2>1, <2>2 DEF Sound, InForce, IsLikesEnabled
<1> QED
  BY <1>1, Inductive, PTL DEF Spec, LikedThroughGate
-----------------------------------------------------------------------------
(* The likes implement LikeSet.                                            *)

LEMMA AbstractInit == Init => Likes!Init
<1> SUFFICES ASSUME Init PROVE Likes!Init
  OBVIOUS
<1>1. Deleted = {}
  BY DEF Init, Deleted
<1>2. Liking = [a \in Articles |-> {}]
  BY <1>1 DEF Init, Liking
<1>3. Shown = [a \in Articles |-> 0]
  BY <1>1 DEF Init, Shown
<1> QED
  BY <1>1, <1>2, <1>3 DEF Likes!Init

\* A step that changes neither rows, counters nor states of articles.
LEMMA AbstractStutter ==
    ASSUME UNCHANGED <<status, like, count>>
    PROVE  UNCHANGED Likes!vars
  BY DEF Likes!vars, Liking, Shown, Deleted

\* A row that is inserted is a like given, one that is deleted a like withdrawn; for
\* an article deleted meanwhile nothing is shown.
LEMMA AbstractLike ==
    ASSUME IInv, NEW a \in Articles, NEW u \in Users, Gives(a, u) \/ Takes(a, u), status' = status
    PROVE  \/ Likes!Like(a, u) \/ Likes!Withdraw(a, u)
           \/ UNCHANGED Likes!vars
<1>1. /\ like \in [Articles -> [Users -> {"none", "live", "dead"}]]
      /\ count \in [Articles -> 0..Cardinality(Users)]
  BY DEF IInv, TypeOK
<1>2. Deleted' = Deleted /\ (a \in Deleted <=> status[a] = "deleted")
  BY DEF Deleted
<1>3. /\ \A b \in Articles \ {a} : count'[b] = count[b]
      /\ status[a] = "deleted" => count'[a] = count[a]
      /\ status[a] # "deleted" /\ Gives(a, u) => count'[a] = count[a] + 1
      /\ status[a] # "deleted" /\ Takes(a, u) => count'[a] = count[a] - 1
  BY CounterMoves
<1>4. /\ \A b \in Articles \ {a} : like'[b] = like[b]
      /\ \A v \in Users \ {u} : like'[a][v] = like[a][v]
      /\ Gives(a, u) => like[a][u] = "none" /\ like'[a][u] = "live"
      /\ Takes(a, u) => like[a][u] = "live" /\ like'[a][u] = "dead"
  BY <1>1 DEF Gives, Takes
<1>5. CASE status[a] = "deleted"
  <2>1. Shown' = Shown
    BY <1>2, <1>3, <1>5 DEF Shown
  <2>2. Liking' = Liking
    BY <1>2, <1>4, <1>5 DEF Liking
  <2> QED
    BY <1>2, <2>1, <2>2 DEF Likes!vars
<1>6. CASE status[a] # "deleted" /\ Gives(a, u)
  <2>1. Shown' = [Shown EXCEPT ![a] = @ + 1]
    BY <1>2, <1>3, <1>6 DEF Shown
  <2>2. Liking' = [Liking EXCEPT ![a] = @ \cup {u}] /\ u \notin Liking[a]
    <3>1. u \notin Liking[a] /\ Liking'[a] = Liking[a] \cup {u}
      BY <1>2, <1>4, <1>6 DEF Liking
    <3>2. \A b \in Articles \ {a} : Liking'[b] = Liking[b]
      BY <1>2, <1>4 DEF Liking
    <3>3. Liking = [b \in Articles |-> Liking[b]] /\ Liking' = [b \in Articles |-> Liking'[b]]
      BY DEF Liking
    <3> QED
      BY <3>1, <3>2, <3>3
  <2> QED
    BY <1>2, <1>6, <2>1, <2>2 DEF Likes!Like
<1>7. CASE status[a] # "deleted" /\ Takes(a, u)
  <2>1. Shown' = [Shown EXCEPT ![a] = @ - 1]
    BY <1>2, <1>3, <1>7 DEF Shown
  <2>2. Liking' = [Liking EXCEPT ![a] = @ \ {u}] /\ u \in Liking[a]
    <3>1. u \in Liking[a] /\ Liking'[a] = Liking[a] \ {u}
      BY <1>2, <1>4, <1>7 DEF Liking
    <3>2. \A b \in Articles \ {a} : Liking'[b] = Liking[b]
      BY <1>2, <1>4 DEF Liking
    <3>3. Liking = [b \in Articles |-> Liking[b]] /\ Liking' = [b \in Articles |-> Liking'[b]]
      BY DEF Liking
    <3> QED
      BY <3>1, <3>2, <3>3
  <2> QED
    BY <1>2, <1>7, <2>1, <2>2 DEF Likes!Withdraw
<1> QED
  BY <1>5, <1>6, <1>7

LEMMA AbstractStatus ==
    ASSUME IInv, NEW a \in Articles, NEW s \in {"published", "draft", "deleted"}, SetStatus(a, s)
    PROVE  Likes!Remove(a) \/ UNCHANGED Likes!vars
<1>1. status \in [Articles -> {"published", "draft", "deleted"}]
  BY DEF IInv, TypeOK
<1>2. /\ status' = [status EXCEPT ![a] = s] /\ status[a] # "deleted" /\ UNCHANGED <<like, count>>
  BY DEF SetStatus
<1>3. CASE s = "deleted"
  <2>1. Deleted' = Deleted \cup {a} /\ a \notin Deleted
    BY <1>1, <1>2, <1>3 DEF Deleted
  <2>2. Liking' = [Liking EXCEPT ![a] = {}]
    BY <1>2, <2>1 DEF Liking
  <2>3. Shown' = [Shown EXCEPT ![a] = 0]
    BY <1>2, <2>1 DEF Shown
  <2> QED
    BY <2>1, <2>2, <2>3 DEF Likes!Remove
<1>4. CASE s # "deleted"
  <2>1. Deleted' = Deleted
    BY <1>1, <1>2, <1>4 DEF Deleted
  <2> QED
    BY <1>2, <2>1 DEF Liking, Shown, Likes!vars
<1> QED
  BY <1>3, <1>4

LEMMA AbstractStep == IInv /\ [Next]_vars => [Likes!Next]_(Likes!vars)
<1> SUFFICES ASSUME IInv, [Next]_vars PROVE Likes!Next \/ UNCHANGED Likes!vars
  OBVIOUS
<1>1. CASE UNCHANGED <<status, like, count>>
  BY <1>1, AbstractStutter
<1>2. ASSUME NEW a \in Articles, NEW s \in {"published", "draft", "deleted"}, SetStatus(a, s)
      PROVE  Likes!Next \/ UNCHANGED Likes!vars
  BY <1>2, AbstractStatus DEF Likes!Next
<1>3. ASSUME NEW p \in Procs, InsertLike(p) \/ DeleteLike(p)
      PROVE  Likes!Next \/ UNCHANGED Likes!vars
  <2>1. PICK a \in Articles, u \in Users : UNCHANGED <<like, count>> \/ Gives(a, u) \/ Takes(a, u)
    BY <1>3, LikeEffect
  <2>2. status' = status
    BY <1>3 DEF InsertLike, DeleteLike
  <2>3. CASE UNCHANGED <<like, count>>
    BY <2>2, <2>3, AbstractStutter
  <2>4. CASE Gives(a, u) \/ Takes(a, u)
    BY <2>2, <2>4, AbstractLike DEF Likes!Next
  <2> QED
    BY <2>1, <2>3, <2>4
<1>4. ASSUME Next
      PROVE  \/ UNCHANGED <<status, like, count>>
             \/ \E a \in Articles, s \in {"published", "draft", "deleted"} : SetStatus(a, s)
             \/ \E p \in Procs : InsertLike(p) \/ DeleteLike(p)
  BY <1>4
  DEF Next, Expire, GetConfig, CacheGet, Select, Fill, Save, Evict, EvictLost, Fails, FindPublished,
      UpdatePlaylist, UpdateConfig, LikeArticle, UnlikeArticle, Only, blog
<1>5. UNCHANGED vars => UNCHANGED <<status, like, count>>
  BY DEF vars
<1> QED
  BY <1>1, <1>2, <1>3, <1>4, <1>5

\* LikeArticle and UnlikeArticle implement the likes as LikeSet describes them: a user
\* who likes an article counts once in its like_count, and no other user does.
THEOREM LikesRefine == Spec => CountsLikes
  BY AbstractInit, AbstractStep, Inductive, PTL DEF Spec, CountsLikes, Likes!Spec
=============================================================================
