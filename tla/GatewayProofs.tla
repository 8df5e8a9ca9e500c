---------------------------- MODULE GatewayProofs ----------------------------
(***************************************************************************)
(* Proofs about the gateway: the configuration it holds, the table of its  *)
(* rate limiter, its route classes and its blacklist, for any sets of      *)
(* configurations, addresses and tokens and for all bounds.                *)
(***************************************************************************)
EXTENDS Gateway, FiniteSetTheorems, TLAPS

-----------------------------------------------------------------------------
(* The remote configuration.                                               *)

\* Revisions go up on their way from etcd through the watch and the channel to the
\* holder; before the watch there is only the first GET.
Ordered ==
    /\ boot \in {"load", "get"} => watch = "off" /\ ch = 0 /\ taken = 0
    /\ boot = "load" => holder = 0
    /\ boot \notin {"load", "get"} => holder <= seen /\ taken <= seen /\ ch <= seen
    /\ ch # 0 => holder <= ch /\ taken <= ch
    /\ taken # 0 => holder <= taken

\* The last configuration the watch knows of is in the channel, with the holder's
\* goroutine, with the holder, or was written while nothing was subscribed.
Followed ==
    watch # "off" =>
        /\ seen >= 1
        /\ hist[seen] \in Configs =>
              \/ ch = seen \/ seen \in lost
              \/ ch = 0 /\ (taken = seen \/ (taken = 0 /\ holder = seen))

ConfigInv == ConfigTypeOK /\ Ordered /\ Followed

LEMMA ConfigStart == ConfigInit => ConfigInv
<1> SUFFICES ASSUME ConfigInit PROVE ConfigInv
  OBVIOUS
<1>1. PICK v \in Configs \cup {Garbled, Gone} : hist = <<v>>
  BY DEF ConfigInit
<1>2. hist \in Seq(Configs \cup {Garbled, Gone}) /\ Len(hist) = 1
  BY <1>1
<1>3. snap \in [Parts -> 0..1]
  BY DEF ConfigInit
<1>4. MaxWrites \in Nat /\ MaxFaults \in Nat
  BY RemoteConfigAssumption
<1>5. /\ boot = "load" /\ watch = "off"
      /\ seen = 0 /\ ch = 0 /\ taken = 0 /\ holder = 0 /\ broken = 0 /\ lost = {}
  BY DEF ConfigInit
<1>6. listed \in BOOLEAN
  BY DEF ConfigInit
<1>7. ConfigTypeOK
  BY <1>2, <1>3, <1>4, <1>5, <1>6 DEF ConfigTypeOK, Revision, Stages
<1> QED
  BY <1>5, <1>7 DEF ConfigInv, Ordered, Followed

\* A step that leaves everything but the fault counter alone.
LEMMA ConfigFrame ==
    ASSUME ConfigInv, broken' = broken \/ Fault,
           UNCHANGED <<hist, boot, watch, seen, ch, taken, holder, snap, listed, lost>>
    PROVE  ConfigInv'
  BY RemoteConfigAssumption
  DEF ConfigInv, ConfigTypeOK, Ordered, Followed, Revision, Fault

LEMMA WriteKeeps ==
    ASSUME ConfigInv, NEW v \in Configs \cup {Garbled, Gone}, Write(v)
    PROVE  ConfigInv'
<1> USE DEF ConfigInv, Revision
<1>1. /\ hist' \in Seq(Configs \cup {Garbled, Gone}) /\ Len(hist') = Len(hist) + 1
      /\ \A i \in 1..Len(hist) : hist'[i] = hist[i]
  BY DEF Write, ConfigTypeOK
<1>2. ConfigTypeOK'
  BY <1>1, RemoteConfigAssumption DEF Write, ConfigTypeOK
<1>3. Ordered'
  BY DEF Write, Ordered
<1>4. Followed'
  BY <1>1 DEF Write, Followed, ConfigTypeOK
<1> QED
  BY <1>2, <1>3, <1>4

LEMMA ConfigStepKeeps ==
    ASSUME ConfigInv, ConfigNext
    PROVE  ConfigInv' /\ holder' >= holder
<1> USE RemoteConfigAssumption DEF ConfigInv, Revision, Current
<1>1. ASSUME NEW v \in Configs \cup {Garbled, Gone}, Write(v)
      PROVE  ConfigInv' /\ holder' >= holder
  BY <1>1, WriteKeeps DEF Write, ConfigTypeOK
<1>2. CASE Load
  BY <1>2 DEF Load, GetsConfig, GetsNothing, GetFails, Fault, ConfigTypeOK, Ordered, Followed, Stages
<1>3. CASE WatchRemoteConfig
  BY <1>3 DEF WatchRemoteConfig, GetsConfig, GetsNothing, GetFails, Fault, ConfigTypeOK,
              Ordered, Followed, Stages
<1>4. CASE Subscribe
  <2>1. UNCHANGED <<hist, boot, ch, taken, holder, snap, listed, broken>> /\ watch' = "on"
        /\ seen' = Len(hist) /\ lost' = lost \cup (seen + 1)..Len(hist)
    BY <1>4 DEF Subscribe
  <2>2. Len(hist) \in Nat /\ seen \in 0..Len(hist) /\ lost \subseteq 1..Len(hist)
    BY DEF ConfigTypeOK
  <2>3. lost' \subseteq 1..Len(hist)
    <3> SUFFICES ASSUME NEW x \in lost' PROVE x \in 1..Len(hist)
      OBVIOUS
    <3>1. CASE x \in lost
      BY <2>2, <3>1
    <3>2. CASE x \in (seen + 1)..Len(hist)
      BY <2>2, <3>2
    <3> QED
      BY <2>1, <3>1, <3>2
  <2>4. ConfigTypeOK'
    BY <2>1, <2>2, <2>3 DEF ConfigTypeOK
  <2>5. Ordered'
    BY <1>4, <2>1, <2>2 DEF Ordered, Subscribe, ConfigTypeOK
  <2>6. CASE seen = Len(hist)
    BY <1>4, <2>1, <2>4, <2>5, <2>6 DEF Followed, Subscribe, ConfigTypeOK
  <2>7. CASE seen # Len(hist)
    <3>1. Len(hist) \in lost'
      BY <2>1, <2>2, <2>7
    <3> QED
      BY <2>1, <2>2, <2>4, <2>5, <3>1 DEF Followed, ConfigTypeOK
  <2> QED
    BY <2>6, <2>7
<1>5. CASE WatchBreaks
  BY <1>5 DEF WatchBreaks, Fault, ConfigTypeOK, Ordered, Followed
<1>6. CASE Receive
  BY <1>6 DEF Receive, Deliver, ConfigTypeOK, Ordered, Followed
<1>7. CASE Consume
  BY <1>7 DEF Consume, ConfigTypeOK, Ordered, Followed
<1>11. CASE Store
  BY <1>11 DEF Store, ConfigTypeOK, Ordered, Followed
<1>8. CASE NewJWT
  BY <1>8 DEF NewJWT, Built, ConfigTypeOK, Ordered, Followed, Stages, Parts
<1>9. CASE NewBlacklistCache
  <2>1. listed' \in BOOLEAN
    <3>1. holder # 0 => hist[holder].redis \in BOOLEAN
      BY DEF ConfigTypeOK
    <3> QED
      BY <1>9, <3>1 DEF NewBlacklistCache, Empty
  <2>2. Built("redis", "chain") /\ (broken' = broken \/ Fault)
    BY <1>9 DEF NewBlacklistCache
  <2>3. snap' \in [Parts -> 0..Len(hist)]
    BY <2>2 DEF Built, ConfigTypeOK
  <2> QED
    BY <2>1, <2>2, <2>3 DEF Built, Fault, ConfigTypeOK, Ordered, Followed, Stages
<1>10. CASE Register
  BY <1>10 DEF Register, Built, ConfigTypeOK, Ordered, Followed, Stages, Parts
<1> QED
  BY <1>1, <1>2, <1>3, <1>4, <1>5, <1>6, <1>7, <1>8, <1>9, <1>10, <1>11 DEF ConfigNext
-----------------------------------------------------------------------------
(* The rate limiter.                                                       *)

\* A bucket that is never dropped has been filling all the time since its address was
\* last seen, however often the real one was made anew before.
Filled == \A ip \in DOMAIN buckets : ideal[ip] >= AtMost(Burst, Rate * idle[ip])

LimiterInv == LimiterTypeOK /\ Filled /\ SweepIsHarmless /\ TableBounded

LEMMA Product ==
    ASSUME NEW r \in Nat, NEW n \in Nat
    PROVE  r * n \in Nat /\ r * (n + 1) = r * n + r
  OBVIOUS

LEMMA ProductMonotonic ==
    ASSUME NEW r \in Nat, NEW m \in Nat, NEW n \in Nat, m <= n
    PROVE  r * m <= r * n
<1>1. PICK d \in Nat : n = m + d
  BY n - m \in Nat
<1>2. r * n = r * m + r * d /\ r * d \in Nat /\ r * m \in Nat
  BY <1>1
<1> QED
  BY <1>2

\* What a sweep can give away.
LEMMA IdleIsFilled ==
    ASSUME LimiterTypeOK, Filled, NEW ip \in DOMAIN buckets, idle[ip] >= IdleTimeout
    PROVE  Burst - ideal[ip] <= AtLeast(0, Burst - Rate * IdleTimeout)
<1>1. /\ idle[ip] \in Nat /\ IdleTimeout \in Nat /\ Rate \in Nat /\ Burst \in Nat
      /\ ideal[ip] \in 0..Burst
  BY RateLimiterAssumption DEF LimiterTypeOK
<1>2. Rate * IdleTimeout <= Rate * idle[ip] /\ Rate * idle[ip] \in Nat /\ Rate * IdleTimeout \in Nat
  BY <1>1, ProductMonotonic, Product
<1>3. ideal[ip] >= AtMost(Burst, Rate * idle[ip])
  BY DEF Filled
<1> QED
  BY <1>1, <1>2, <1>3 DEF AtMost, AtLeast

\* The bound of SweepIsHarmless.
LEMMA GiftType == AtLeast(0, Burst - Rate * IdleTimeout) \in Nat
<1>1. Burst \in Nat /\ Rate * IdleTimeout \in Nat
  BY RateLimiterAssumption, Product
<1> QED
  BY <1>1 DEF AtLeast

LEMMA LimiterStart == LimiterInit => LimiterInv
<1> SUFFICES ASSUME LimiterInit PROVE LimiterInv
  OBVIOUS
<1>1. DOMAIN buckets = {} /\ DOMAIN idle = {} /\ ideal = [ip \in IPs |-> Burst] /\ crowd = 0
  BY DEF LimiterInit
<1>2. Cardinality({}) = 0 /\ Cardinality(IPs) \in Nat
  BY FS_EmptySet, FS_CardinalityType, RateLimiterAssumption
<1>3. SweepIsHarmless
  <2> SUFFICES ASSUME NEW ip \in IPs
               PROVE  BucketOf(ip) - ideal[ip] \in 0..AtLeast(0, Burst - Rate * IdleTimeout)
    BY DEF SweepIsHarmless
  <2>1. BucketOf(ip) - ideal[ip] = 0
    BY <1>1, RateLimiterAssumption DEF BucketOf
  <2> QED
    BY <2>1, GiftType
<1>4. TableBounded
  BY <1>1, <1>2, RateLimiterAssumption DEF TableBounded, AtLeast
<1> QED
  BY <1>1, <1>2, <1>3, <1>4, RateLimiterAssumption DEF LimiterInv, LimiterTypeOK, Filled

LEMMA ElapseKeeps ==
    ASSUME LimiterInv, Elapse
    PROVE  LimiterInv'
<1> USE RateLimiterAssumption DEF LimiterInv
<1>1. DOMAIN buckets' = DOMAIN buckets /\ DOMAIN idle' = DOMAIN idle /\ DOMAIN idle = DOMAIN buckets
  BY DEF Elapse, LimiterTypeOK
<1>2. ASSUME NEW ip \in DOMAIN buckets
      PROVE  /\ buckets'[ip] \in 0..Burst /\ idle'[ip] \in 0..(IdleTimeout + 1)
             /\ buckets'[ip] = AtMost(Burst, buckets[ip] + Rate)
             /\ idle'[ip] = AtMost(IdleTimeout + 1, idle[ip] + 1)
  BY <1>1, <1>2 DEF Elapse, LimiterTypeOK, Refill, AtMost
<1>3. ideal' \in [IPs -> 0..Burst] /\ \A ip \in IPs : ideal'[ip] = AtMost(Burst, ideal[ip] + Rate)
  BY DEF Elapse, LimiterTypeOK, AtMost
<1>4. LimiterTypeOK'
  BY <1>1, <1>2, <1>3 DEF Elapse, LimiterTypeOK
<1>5. Filled'
  <2> SUFFICES ASSUME NEW ip \in DOMAIN buckets
               PROVE  ideal'[ip] >= AtMost(Burst, Rate * idle'[ip])
    BY <1>1 DEF Filled
  <2>1. /\ ip \in IPs /\ ideal[ip] \in 0..Burst /\ idle[ip] \in Nat /\ idle'[ip] \in Nat
        /\ idle'[ip] <= idle[ip] + 1
    BY <1>2 DEF LimiterTypeOK, AtMost
  <2>2. /\ Rate * (idle[ip] + 1) = Rate * idle[ip] + Rate /\ Rate * idle[ip] \in Nat
        /\ Rate * idle'[ip] \in Nat
    BY <2>1, Product
  <2>3. Rate * idle'[ip] <= Rate * (idle[ip] + 1)
    BY <2>1, ProductMonotonic
  <2>4. ideal[ip] >= AtMost(Burst, Rate * idle[ip])
    BY DEF Filled
  <2> QED
    BY <1>3, <2>1, <2>2, <2>3, <2>4 DEF AtMost
<1>6. SweepIsHarmless'
  <2> DEFINE gift == AtLeast(0, Burst - Rate * IdleTimeout)
  <2>1. gift \in Nat
    BY GiftType
  <2> HIDE DEF gift
  <2> SUFFICES ASSUME NEW ip \in IPs PROVE BucketOf(ip)' - ideal'[ip] \in 0..gift
    BY DEF SweepIsHarmless, gift
  <2>2. /\ BucketOf(ip) \in 0..Burst /\ ideal[ip] \in 0..Burst
        /\ BucketOf(ip) - ideal[ip] \in 0..gift
    BY DEF SweepIsHarmless, BucketOf, LimiterTypeOK, gift
  <2>3. BucketOf(ip)' = AtMost(Burst, BucketOf(ip) + Rate)
    BY <1>1, <1>2 DEF BucketOf, AtMost
  <2> QED
    BY <1>3, <2>1, <2>2, <2>3 DEF AtMost
<1>7. TableBounded'
  BY <1>1 DEF TableBounded, Elapse
<1> QED
  BY <1>4, <1>5, <1>6, <1>7

LEMMA TakeKeeps ==
    ASSUME LimiterInv, NEW ip \in IPs, NEW allowed, Take(ip, allowed)
    PROVE  LimiterInv'
<1> DEFINE kept == KeptFor(ip)
           left == IF BucketOf(ip) > 0 THEN BucketOf(ip) - 1 ELSE 0
           active == {i \in DOMAIN idle' : idle'[i] <= IdleTimeout}
<1> USE RateLimiterAssumption DEF LimiterInv
<1>1. kept \subseteq DOMAIN buckets /\ kept \subseteq IPs /\ DOMAIN idle = DOMAIN buckets
  BY DEF KeptFor, SweepIdle, LimiterTypeOK
<1>2. /\ BucketOf(ip) \in 0..Burst /\ left \in 0..Burst
      /\ ideal \in [IPs -> 0..Burst] /\ ideal[ip] \in 0..Burst
  BY DEF BucketOf, LimiterTypeOK
<1>3. /\ DOMAIN buckets' = kept \cup {ip} /\ buckets'[ip] = left
      /\ \A i \in kept \ {ip} : buckets'[i] = buckets[i]
  BY DEF Take, Put
<1>4. /\ DOMAIN idle' = kept \cup {ip} /\ idle'[ip] = 0
      /\ \A i \in kept \ {ip} : idle'[i] = idle[i]
  BY DEF Take, Put
<1>5. /\ ideal' \in [IPs -> 0..Burst] /\ \A i \in IPs \ {ip} : ideal'[i] = ideal[i]
      /\ ideal'[ip] = IF ideal[ip] > 0 THEN ideal[ip] - 1 ELSE 0
  BY <1>2 DEF Take
<1>6. /\ IsFiniteSet(active) /\ Cardinality(active) \in 0..Cardinality(IPs)
      /\ Cardinality(IPs) \in Nat
  BY <1>1, <1>4, FS_Subset, FS_CardinalityType
<1>7. crowd' = AtLeast(crowd, Cardinality(active)) /\ crowd \in 0..Cardinality(IPs)
  BY DEF Take, LimiterTypeOK
<1>8. LimiterTypeOK'
  <2>1. crowd' \in 0..Cardinality(IPs)
    BY <1>6, <1>7 DEF AtLeast
  <2>2. ASSUME NEW i \in DOMAIN buckets'
        PROVE  buckets'[i] \in 0..Burst /\ idle'[i] \in 0..(IdleTimeout + 1)
    BY <1>1, <1>2, <1>3, <1>4, <2>2 DEF LimiterTypeOK
  <2> QED
    BY <1>1, <1>3, <1>4, <1>5, <2>1, <2>2 DEF LimiterTypeOK
<1>9. Filled'
  <2> SUFFICES ASSUME NEW i \in DOMAIN buckets'
               PROVE  ideal'[i] >= AtMost(Burst, Rate * idle'[i])
    BY DEF Filled
  <2>1. CASE i = ip
    <3>1. Rate * 0 = 0
      OBVIOUS
    <3> QED
      BY <1>2, <1>4, <1>5, <2>1, <3>1 DEF AtMost
  <2>2. CASE i # ip
    BY <1>1, <1>3, <1>4, <1>5, <2>2 DEF Filled
  <2> QED
    BY <2>1, <2>2
<1>10. SweepIsHarmless'
  <2> DEFINE gift == AtLeast(0, Burst - Rate * IdleTimeout)
  <2>1. gift \in Nat
    BY GiftType
  <2>2. \A i \in IPs : BucketOf(i) - ideal[i] \in 0..gift
    BY DEF SweepIsHarmless
  <2>3. ASSUME NEW i \in DOMAIN buckets, i \notin kept PROVE Burst - ideal[i] <= gift
    <3>1. idle[i] >= IdleTimeout
      BY <1>1, <2>3 DEF KeptFor, SweepIdle, LimiterTypeOK
    <3> QED
      BY <3>1, IdleIsFilled
  <2> HIDE DEF gift
  <2> SUFFICES ASSUME NEW i \in IPs PROVE BucketOf(i)' - ideal'[i] \in 0..gift
    BY DEF SweepIsHarmless, gift
  <2>4. CASE i = ip
    <3>1. BucketOf(i)' = left
      BY <1>3, <2>4 DEF BucketOf
    <3>2. BucketOf(ip) - ideal[ip] \in 0..gift
      BY <2>2
    <3> QED
      BY <1>2, <1>5, <2>1, <2>4, <3>1, <3>2
  <2>5. CASE i # ip /\ i \in kept
    BY <1>1, <1>3, <1>5, <2>2, <2>5 DEF BucketOf
  <2>6. CASE i # ip /\ i \notin kept /\ i \notin DOMAIN buckets
    BY <1>3, <1>5, <2>2, <2>6 DEF BucketOf
  <2>7. CASE i # ip /\ i \notin kept /\ i \in DOMAIN buckets
    <3>1. BucketOf(i)' = Burst /\ ideal'[i] = ideal[i] /\ ideal[i] \in 0..Burst
      BY <1>2, <1>3, <1>5, <2>7 DEF BucketOf
    <3> QED
      BY <2>1, <2>3, <2>7, <3>1
  <2> QED
    BY <2>4, <2>5, <2>6, <2>7
<1>11. TableBounded'
  <2>1. /\ IsFiniteSet(DOMAIN buckets) /\ Cardinality(DOMAIN buckets) \in Nat
        /\ Cardinality(DOMAIN buckets) <= AtLeast(MaxBuckets, crowd)
    BY FS_Subset, FS_CardinalityType DEF LimiterTypeOK, TableBounded
  <2>2. crowd' \in Nat /\ crowd' >= crowd /\ crowd' >= Cardinality(active)
    BY <1>6, <1>7 DEF AtLeast
  <2>3. CASE ip \in DOMAIN buckets
    <3>1. DOMAIN buckets' = DOMAIN buckets
      BY <1>3, <2>3 DEF KeptFor
    <3> QED
      BY <1>7, <2>1, <2>2, <3>1 DEF TableBounded, AtLeast
  <2>4. CASE ip \notin DOMAIN buckets /\ ~(Cardinality(DOMAIN buckets) >= MaxBuckets)
    <3>1. DOMAIN buckets' = DOMAIN buckets \cup {ip}
      BY <1>3, <2>4 DEF KeptFor
    <3>2. Cardinality(DOMAIN buckets') = Cardinality(DOMAIN buckets) + 1
      BY <2>1, <2>4, <3>1, FS_AddElement
    <3> QED
      BY <1>7, <2>1, <2>2, <2>4, <3>2 DEF TableBounded, AtLeast
  <2>5. CASE ip \notin DOMAIN buckets /\ Cardinality(DOMAIN buckets) >= MaxBuckets
    <3>1. kept = SweepIdle
      BY <2>5 DEF KeptFor
    <3>2. DOMAIN buckets' = active
      BY <1>3, <1>4, <3>1 DEF SweepIdle
    <3> QED
      BY <1>6, <1>7, <2>2, <3>2 DEF TableBounded, AtLeast
  <2> QED
    BY <2>3, <2>4, <2>5
<1> QED
  BY <1>8, <1>9, <1>10, <1>11
-----------------------------------------------------------------------------
(* The route classes.                                                      *)

\* What each class of the gateway's table asks for and what the use cases behind it
\* ask for.
LEMMA NeedsFitClasses ==
    \A x \in Needs :
        \/ ClassOf(x[1]) = "public" /\ x[2] \in {"none", "owner"}
        \/ ClassOf(x[1]) = "auth" /\ x[2] \in {"none", "user"}
        \/ ClassOf(x[1]) = "admin" /\ x[2] = "admin"
<1> DEFINE Fits(x) == \/ ClassOf(x[1]) = "public" /\ x[2] \in {"none", "owner"}
                      \/ ClassOf(x[1]) = "auth" /\ x[2] \in {"none", "user"}
                      \/ ClassOf(x[1]) = "admin" /\ x[2] = "admin"
<1>1. ASSUME NEW x \in ArticleNeeds PROVE Fits(x)
  BY <1>1 DEF ArticleNeeds, ClassOf, Public, Auth
<1>2. ASSUME NEW x \in CatalogNeeds PROVE Fits(x)
  BY <1>2 DEF CatalogNeeds, ClassOf, Public, Auth
<1>3. ASSUME NEW x \in FileNeeds PROVE Fits(x)
  <2>1. DOMAIN FileHandler \subseteq Auth /\ Auth \cap Public = {}
    BY DEF FileHandler, Auth, Public
  <2> QED
    BY <1>3, <2>1 DEF FileNeeds, ClassOf
<1>4. ASSUME NEW x \in SiteNeeds PROVE Fits(x)
  BY <1>4 DEF SiteNeeds, ClassOf, Public, Auth
<1>5. ASSUME NEW x \in AuthNeeds PROVE Fits(x)
  BY <1>5 DEF AuthNeeds, ClassOf, Public, Auth
<1> QED
  BY <1>1, <1>2, <1>3, <1>4, <1>5 DEF Needs

LEMMA KindsFit ==
    ASSUME NEW k \in Kinds
    PROVE  \/ k.class = "public" /\ k.need \in {"none", "owner"}
           \/ k.class = "auth" /\ k.need \in {"none", "user"}
           \/ k.class = "admin" /\ k.need = "admin"
<1>1. PICK x \in Needs : k = [class |-> ClassOf(x[1]), need |-> x[2], parses |-> Parses(x[1])]
  BY DEF Kinds
<1>2. k.class = ClassOf(x[1]) /\ k.need = x[2]
  BY <1>1
<1> QED
  BY <1>2, NeedsFitClasses
-----------------------------------------------------------------------------
(* The gateway.                                                            *)

RequestTypeOK ==
    /\ revoked \subseteq Tokens /\ expired \subseteq Tokens
    /\ req \in [Handlers -> [pc: {"idle", "checked", "down"}, need: {"none", "user", "owner", "admin"},
                             header: Headers, id: Tokens \cup {Nobody}, slipped: BOOLEAN]]

RequestInv == RequestTypeOK /\ NothingLetThrough /\ RevokedStaysOut

GatewayInv == ConfigInv /\ LimiterInv /\ RequestInv

\* Whom a step of the gateway leaves alone: the configuration but for a fault of
\* Redis, and the limiter but for a request or for time.
LEMMA StepParts ==
    ASSUME Next
    PROVE  /\ \/ ConfigNext
              \/ /\ broken' = broken \/ Fault
                 /\ UNCHANGED <<hist, boot, watch, seen, ch, taken, holder, snap, listed, lost>>
           /\ \/ UNCHANGED limiterVars
              \/ Elapse
              \/ \E ip \in IPs : \E allowed \in BOOLEAN : Take(ip, allowed)
<1>1. ASSUME NEW ip \in IPs, NEW allowed \in BOOLEAN, Limited(ip, allowed)
      PROVE  UNCHANGED limiterVars \/ Take(ip, allowed)
  BY <1>1 DEF Limited
<1>2. CASE Configure
  BY <1>2 DEF Configure
<1>3. CASE Tick
  BY <1>3 DEF Tick, configVars
<1>4. ASSUME NEW t \in Tokens, Revoke(t) \/ Expire(t)
      PROVE  UNCHANGED limiterVars /\ UNCHANGED configVars
  BY <1>4 DEF Revoke, Expire
<1>5. ASSUME NEW ip \in IPs, ServeOther(ip)
      PROVE  UNCHANGED configVars /\ \E allowed \in BOOLEAN : Limited(ip, allowed)
  BY <1>5 DEF ServeOther
<1>6. ASSUME NEW ip \in IPs, NEW h \in Headers, Revoked(h, ip) \/ \E p \in Handlers : Check(p, h, ip)
      PROVE  /\ broken' = broken \/ Fault
             /\ UNCHANGED <<hist, boot, watch, seen, ch, taken, holder, snap, listed, lost>>
             /\ \E allowed \in BOOLEAN : Limited(ip, allowed)
  BY <1>6 DEF Revoked, Check, BlackListed, NotBlackListed
<1>7. ASSUME NEW p \in Handlers, NEW need, TurnAway(p) \/ Answer(p) \/ Forward(p, need)
      PROVE  UNCHANGED limiterVars /\ UNCHANGED configVars
  BY <1>7 DEF TurnAway, Answer, Forward
<1>8. UNCHANGED configVars =>
         broken' = broken /\ UNCHANGED <<hist, boot, watch, seen, ch, taken, holder, snap, listed, lost>>
  BY DEF configVars
<1> QED
  BY <1>1, <1>2, <1>3, <1>4, <1>5, <1>6, <1>7, <1>8 DEF Next, Serve

LEMMA IdentityKnown ==
    ASSUME NEW h
    PROVE  Identity(h) \in Tokens \cup {Nobody}
  BY DEF Identity, ParsesAsAccess

\* A token names a user, and an identity without a token names nobody.
LEMMA IdentityFacts ==
    /\ \A t \in Tokens : t.user # 0 /\ t # Nobody
    /\ Nobody.user = 0 /\ Nobody.role # "admin"
<1>1. Nobody.user = 0 /\ Nobody.role = ""
  BY DEF Nobody
<1>2. "" # "admin"
  OBVIOUS
<1>3. \A t \in Tokens : t.user # 0
  BY GatewayAssumption
<1> QED
  BY <1>1, <1>2, <1>3

\* What the gateway admits meets what the use case behind the route asks for.
LEMMA AdmittedMeets ==
    ASSUME NEW k \in Kinds, NEW id \in Tokens \cup {Nobody}, Admits(k.class, id)
    PROVE  Meets(k.need, id) \/ k.need = "owner"
  BY KindsFit, IdentityFacts DEF Admits, Optional, RoleAllowed, Meets

\* And whom it refuses, the use case would refuse, but for ViewArticle.
LEMMA RefusedWouldBe ==
    ASSUME NEW k \in Kinds, NEW id \in Tokens \cup {Nobody}, ~Admits(k.class, id)
    PROVE  ~Meets(k.need, id) \/ (k.class = "auth" /\ k.need = "none")
  BY KindsFit, IdentityFacts DEF Admits, Optional, RoleAllowed, Meets

\* A request that moves on keeps the invariant if it does so by itself.
LEMMA RequestMoves ==
    ASSUME RequestInv, UNCHANGED <<revoked, expired>>, NEW p \in Handlers,
           NEW pc \in {"idle", "checked", "down"}, NEW need \in {"none", "user", "owner", "admin"},
           NEW h \in Headers, NEW id \in Tokens \cup {Nobody}, NEW slipped \in BOOLEAN,
           req' = [req EXCEPT ![p] = At(pc, need, h, id, slipped)],
           pc = "down" => Meets(need, id) \/ need = "owner",
           (pc # "idle" /\ h \in revoked) => slipped
    PROVE  RequestInv'
<1> DEFINE r == [pc |-> pc, need |-> need, header |-> h, id |-> id, slipped |-> slipped]
<1>1. req' = [req EXCEPT ![p] = r]
  BY DEF At
<1>2. RequestTypeOK /\ NothingLetThrough /\ RevokedStaysOut
  BY DEF RequestInv
<1>3. RequestTypeOK'
  BY <1>1, <1>2 DEF RequestTypeOK
<1>4. req'[p] = r /\ \A q \in Handlers \ {p} : req'[q] = req[q]
  BY <1>1, <1>2 DEF RequestTypeOK
<1>5. r.pc = pc /\ r.need = need /\ r.header = h /\ r.id = id /\ r.slipped = slipped
  OBVIOUS
<1> HIDE DEF r
<1>6. NothingLetThrough'
  <2> SUFFICES ASSUME NEW q \in Handlers, req'[q].pc = "down"
               PROVE  Meets(req'[q].need, req'[q].id) \/ req'[q].need = "owner"
    BY DEF NothingLetThrough
  <2>1. CASE q = p
    BY <1>4, <1>5, <2>1
  <2>2. CASE q # p
    <3>1. req'[q] = req[q]
      BY <1>4, <2>2
    <3> QED
      BY <1>2, <3>1 DEF NothingLetThrough
  <2> QED
    BY <2>1, <2>2
<1>7. RevokedStaysOut'
  BY <1>2, <1>4, <1>5 DEF RevokedStaysOut
<1> QED
  BY <1>3, <1>6, <1>7 DEF RequestInv

\* A revocation marks the requests whose lookup it comes after.
LEMMA RevokeKeeps ==
    ASSUME RequestInv, NEW t \in Tokens, Revoke(t)
    PROVE  RequestInv'
<1>1. RequestTypeOK /\ NothingLetThrough /\ RevokedStaysOut
  BY DEF RequestInv
<1>2. revoked' = revoked \cup {t} /\ expired' = expired
  BY DEF Revoke
<1>3. ASSUME NEW q \in Handlers
      PROVE  /\ req'[q] \in [pc: {"idle", "checked", "down"}, need: {"none", "user", "owner", "admin"},
                             header: Headers, id: Tokens \cup {Nobody}, slipped: BOOLEAN]
             /\ req'[q].pc = req[q].pc /\ req'[q].need = req[q].need /\ req'[q].id = req[q].id
             /\ req'[q].header = req[q].header
             /\ req'[q].slipped = (req[q].header = t \/ req[q].slipped)
  <2>1. req[q] \in [pc: {"idle", "checked", "down"}, need: {"none", "user", "owner", "admin"},
                    header: Headers, id: Tokens \cup {Nobody}, slipped: BOOLEAN]
    BY <1>1 DEF RequestTypeOK
  <2>2. req'[q] = IF req[q].header = t THEN [req[q] EXCEPT !.slipped = TRUE] ELSE req[q]
    BY DEF Revoke
  <2>3. CASE req[q].header = t
    BY <2>1, <2>2, <2>3
  <2>4. CASE req[q].header # t
    BY <2>1, <2>2, <2>4
  <2> QED
    BY <2>3, <2>4
<1>4. RequestTypeOK'
  <2>1. req' = [q \in Handlers |-> req'[q]]
    BY DEF Revoke
  <2> QED
    BY <1>1, <1>2, <1>3, <2>1 DEF RequestTypeOK
<1>5. NothingLetThrough'
  <2> SUFFICES ASSUME NEW q \in Handlers, req'[q].pc = "down"
               PROVE  Meets(req'[q].need, req'[q].id) \/ req'[q].need = "owner"
    BY DEF NothingLetThrough
  <2> QED
    BY <1>1, <1>3 DEF NothingLetThrough
<1>6. RevokedStaysOut'
  BY <1>1, <1>2, <1>3 DEF RevokedStaysOut
<1> QED
  BY <1>4, <1>5, <1>6 DEF RequestInv

LEMMA RequestsKeep ==
    ASSUME GatewayInv, [Next]_vars
    PROVE  RequestInv'
<1>1. RequestInv /\ RequestTypeOK /\ NothingLetThrough /\ RevokedStaysOut
  BY DEF GatewayInv, RequestInv
<1>2. CASE UNCHANGED <<req, revoked, expired>>
  BY <1>1, <1>2 DEF RequestInv, RequestTypeOK, NothingLetThrough, RevokedStaysOut
<1>3. ASSUME NEW t \in Tokens, Expire(t) PROVE RequestInv'
  BY <1>1, <1>3 DEF Expire, RequestInv, RequestTypeOK, NothingLetThrough, RevokedStaysOut
<1>4. ASSUME NEW p \in Handlers, NEW h \in Headers, NEW ip \in IPs, Check(p, h, ip)
      PROVE  RequestInv'
  <2> DEFINE slipped == ~listed \/ broken' # broken
  <2>1. /\ req' = [req EXCEPT ![p] = At("checked", "none", h, Nobody, slipped)]
        /\ UNCHANGED <<revoked, expired>>
    BY <1>4 DEF Check
  <2>2. broken \in Nat
    BY DEF GatewayInv, ConfigInv, ConfigTypeOK
  <2>3. h \in revoked => slipped
    BY <1>4, <2>2 DEF Check, NotBlackListed, Asks, Fault
  <2>4. slipped \in BOOLEAN
    OBVIOUS
  <2> HIDE DEF slipped
  <2> QED
    BY <1>1, <2>1, <2>3, <2>4, RequestMoves
<1>5. ASSUME NEW p \in Handlers, TurnAway(p) \/ Answer(p)
      PROVE  RequestInv'
  <2>1. /\ req' = [req EXCEPT ![p] = At("idle", "none", Nobody, Nobody, FALSE)]
        /\ UNCHANGED <<revoked, expired>>
    BY <1>5 DEF TurnAway, Answer, Idle
  <2>2. Nobody \in Headers
    BY DEF Headers
  <2> QED
    BY <1>1, <2>1, <2>2, RequestMoves
<1>6. ASSUME NEW p \in Handlers, NEW need, Forward(p, need)
      PROVE  RequestInv'
  <2>1. PICK h \in Headers, s \in BOOLEAN :
           req[p].pc = "checked" /\ h = req[p].header /\ s = req[p].slipped
    BY <1>1, <1>6 DEF Forward, RequestTypeOK
  <2>2. PICK id : id = Identity(h)
    OBVIOUS
  <2>3. id \in Tokens \cup {Nobody}
    BY <2>2, IdentityKnown
  <2>4. PICK k \in Kinds : k.need = need /\ Admits(k.class, id)
    BY <1>6, <2>1, <2>2 DEF Forward, Admitted
  <2>5. need \in {"none", "user", "owner", "admin"} /\ (Meets(need, id) \/ need = "owner")
    BY <2>3, <2>4, KindsFit, AdmittedMeets
  <2>6. req' = [req EXCEPT ![p] = At("down", need, h, id, s)] /\ UNCHANGED <<revoked, expired>>
    BY <1>6, <2>1, <2>2 DEF Forward
  <2>7. h \in revoked => s
    BY <1>1, <2>1 DEF RevokedStaysOut
  <2> QED
    BY <1>1, <2>3, <2>5, <2>6, <2>7, RequestMoves
<1>7. ASSUME Next
      PROVE  \/ UNCHANGED <<req, revoked, expired>>
             \/ \E t \in Tokens : Revoke(t) \/ Expire(t)
             \/ \E p \in Handlers, h \in Headers, ip \in IPs : Check(p, h, ip)
             \/ \E p \in Handlers : TurnAway(p) \/ Answer(p)
             \/ \E p \in Handlers : \E need : Forward(p, need)
  BY <1>7 DEF Next, Serve, Configure, Tick, ServeOther, Revoked
<1>8. UNCHANGED vars => UNCHANGED <<req, revoked, expired>>
  BY DEF vars
<1> QED
  BY <1>1, <1>2, <1>3, <1>4, <1>5, <1>6, <1>7, <1>8, RevokeKeeps

LEMMA GatewayStart == Init => GatewayInv
<1> SUFFICES ASSUME Init PROVE GatewayInv
  OBVIOUS
<1>1. ConfigInv /\ LimiterInv
  BY ConfigStart, LimiterStart DEF Init
<1>2. req = [p \in Handlers |-> [pc |-> "idle", need |-> "none", header |-> Nobody, id |-> Nobody,
                                 slipped |-> FALSE]]
  BY DEF Init, Idle, At
<1>3. Nobody \in Headers
  BY DEF Headers
<1>4. RequestTypeOK
  <2>1. revoked = {} /\ expired = {}
    BY DEF Init
  <2>2. [pc |-> "idle", need |-> "none", header |-> Nobody, id |-> Nobody, slipped |-> FALSE]
        \in [pc: {"idle", "checked", "down"}, need: {"none", "user", "owner", "admin"},
             header: Headers, id: Tokens \cup {Nobody}, slipped: BOOLEAN]
    BY <1>3
  <2> QED
    BY <1>2, <2>1, <2>2 DEF RequestTypeOK
<1>5. NothingLetThrough /\ RevokedStaysOut
  BY <1>2 DEF NothingLetThrough, RevokedStaysOut
<1> QED
  BY <1>1, <1>4, <1>5 DEF GatewayInv, RequestInv

LEMMA GatewayStep == GatewayInv /\ [Next]_vars => GatewayInv'
<1> SUFFICES ASSUME GatewayInv, [Next]_vars PROVE GatewayInv'
  OBVIOUS
<1>1. ConfigInv'
  <2>1. CASE Next
    BY <2>1, StepParts, ConfigStepKeeps, ConfigFrame DEF GatewayInv
  <2>2. CASE UNCHANGED vars
    BY <2>2, ConfigFrame DEF GatewayInv, vars, configVars
  <2> QED
    BY <2>1, <2>2
<1>2. LimiterInv'
  <2>1. UNCHANGED limiterVars => LimiterInv'
    BY DEF limiterVars, GatewayInv, LimiterInv, LimiterTypeOK, Filled, SweepIsHarmless,
           TableBounded, BucketOf
  <2>2. CASE Next
    BY <2>1, <2>2, StepParts, ElapseKeeps, TakeKeeps DEF GatewayInv
  <2>3. CASE UNCHANGED vars
    BY <2>1, <2>3 DEF vars
  <2> QED
    BY <2>2, <2>3
<1> QED
  BY <1>1, <1>2, RequestsKeep DEF GatewayInv

\* The inductive invariant holds in every state the gateway reaches.
THEOREM GatewayInvariant == Spec => []GatewayInv
  BY GatewayStart, GatewayStep, PTL DEF Spec

\* The route table of the gateway and the identity checks of the use cases draw the
\* same line, whatever tokens there are and whatever configuration the process has
\* started from (routes.go, classMiddleWires, getCurrentUserID, requireAdmin).
THEOREM RoutesAgree == Spec => []ClassesAgree
<1>1. ASSUME GatewayInv PROVE ClassesAgree
  <2>1. TypeOK
    BY <1>1 DEF GatewayInv, ConfigInv, LimiterInv, RequestInv, RequestTypeOK, TypeOK
  <2>2. NothingShutOut
    BY IdentityKnown, RefusedWouldBe DEF NothingShutOut
  <2> QED
    BY <1>1, <2>1, <2>2 DEF ClassesAgree, GatewayInv, RequestInv
<1> QED
  BY <1>1, GatewayInvariant, PTL

\* A holder whose watch has nothing left to do has the configuration that is in etcd,
\* or one was written while nothing was subscribed (watchLoop, deliver).
THEOREM HolderCatchesUp == Spec => []QuietIsCurrent
<1>1. ASSUME GatewayInv PROVE QuietIsCurrent
  BY <1>1 DEF GatewayInv, ConfigInv, ConfigTypeOK, Followed, QuietIsCurrent, Revision, Current
<1> QED
  BY <1>1, GatewayInvariant, PTL

\* The holder never goes back to an older revision of the key.
THEOREM HolderNeverGoesBack == Spec => HolderGoesForward
<1>1. ASSUME GatewayInv, [Next]_vars PROVE [holder' >= holder]_configVars
  <2>1. holder \in Nat
    BY <1>1 DEF GatewayInv, ConfigInv, ConfigTypeOK, Revision
  <2>2. CASE Next
    BY <1>1, <2>1, <2>2, StepParts, ConfigStepKeeps DEF GatewayInv
  <2>3. CASE UNCHANGED vars
    BY <2>3 DEF vars
  <2> QED
    BY <1>1, <2>2, <2>3
<1> QED
  BY <1>1, GatewayInvariant, PTL DEF Spec, HolderGoesForward

\* Dropping idle buckets (sweepIdle) gives an address at most the part of the burst that
\* IdleTimeout does not fill, however often it happens, and never takes anything.
THEOREM SweepGivesLittleAway == Spec => []SweepIsHarmless
  BY GatewayInvariant, PTL DEF GatewayInv, LimiterInv

\* The table of buckets grows past maxIPBuckets only by addresses that are active.
THEOREM TableStaysBounded == Spec => []TableBounded
  BY GatewayInvariant, PTL DEF GatewayInv, LimiterInv

\* No service works for a request with a revoked token, not even as an anonymous one,
\* unless the revocation fell between the request's lookup and the call or the lookup
\* did not take place (NewJWTAuth).
THEOREM RevokedTokensStayOut == Spec => []RevokedStaysOut
  BY GatewayInvariant, PTL DEF GatewayInv, RequestInv
=============================================================================
