----------------------------- MODULE RateLimiter -----------------------------
(***************************************************************************)
(* The gateway's limiter: a token bucket for each client address, made on  *)
(* its first request.  When the table is full, making another bucket first *)
(* drops the ones that were idle too long; the address then starts again   *)
(* with a full bucket.  Time runs in units in which Rate tokens flow in.   *)
(***************************************************************************)
EXTENDS Integers, FiniteSets

CONSTANTS
    IPs,          \* client addresses
    MaxBuckets,   \* maxIPBuckets
    Burst,        \* capacity of a bucket
    Rate,         \* tokens a bucket gains in a unit of time
    IdleTimeout   \* ipIdleTimeout, in units of time

ASSUME RateLimiterAssumption ==
    /\ IsFiniteSet(IPs)
    /\ MaxBuckets \in Nat \ {0} /\ Burst \in Nat
    /\ Rate \in Nat \ {0} /\ IdleTimeout \in Nat

VARIABLES
    buckets,  \* tokens in the bucket of each address that has one
    idle,     \* time since lastSeen, as far as it matters
    ideal,    \* history: tokens in a bucket that is never dropped
    crowd     \* history: most addresses seen within one IdleTimeout

limiterVars == <<buckets, idle, ideal, crowd>>

AtMost(a, b) == IF a < b THEN a ELSE b
AtLeast(a, b) == IF a > b THEN a ELSE b

LimiterTypeOK ==
    /\ DOMAIN buckets \subseteq IPs /\ DOMAIN idle = DOMAIN buckets
    /\ \A ip \in DOMAIN buckets : buckets[ip] \in 0..Burst /\ idle[ip] \in 0..(IdleTimeout + 1)
    /\ ideal \in [IPs -> 0..Burst]
    /\ crowd \in 0..Cardinality(IPs)

LimiterInit ==
    /\ buckets = [ip \in {} |-> 0] /\ idle = [ip \in {} |-> 0]
    /\ ideal = [ip \in IPs |-> Burst]
    /\ crowd = 0

\* The addresses in S keep their value of f, and ip has v.
Put(f, S, ip, v) == [i \in S \cup {ip} |-> IF i = ip THEN v ELSE f[i]]

\* sweepIdle: the addresses that stay.
SweepIdleAll == {}
SweepIdle == {ip \in DOMAIN idle : idle[ip] <= IdleTimeout}

\* bucketFor: the addresses that keep their bucket when ip makes a request.
KeptForLate(ip) ==
    IF ip \notin DOMAIN buckets /\ Cardinality(DOMAIN buckets) > MaxBuckets
    THEN SweepIdle ELSE DOMAIN buckets
KeptFor(ip) ==
    IF ip \notin DOMAIN buckets /\ Cardinality(DOMAIN buckets) >= MaxBuckets
    THEN SweepIdle ELSE DOMAIN buckets

BucketOf(ip) == IF ip \in DOMAIN buckets THEN buckets[ip] ELSE Burst

\* The middleware: bucketFor, then Allow, which takes a token if there is one.
Take(ip, allowed) ==
    LET left == IF BucketOf(ip) > 0 THEN BucketOf(ip) - 1 ELSE 0
        seenNow == Put(idle, KeptFor(ip), ip, 0)
    IN
    /\ allowed = (BucketOf(ip) > 0)
    /\ buckets' = Put(buckets, KeptFor(ip), ip, left)
    /\ idle' = seenNow
    /\ ideal' = [ideal EXCEPT ![ip] = IF @ > 0 THEN @ - 1 ELSE 0]
    /\ crowd' = AtLeast(crowd, Cardinality({i \in DOMAIN seenNow : seenNow[i] <= IdleTimeout}))

\* A unit of time passes; a bucket holds no more than the burst.
Refill(n) == AtMost(Burst, n + Rate)

Elapse ==
    /\ buckets' = [ip \in DOMAIN buckets |-> Refill(buckets[ip])]
    /\ idle' = [ip \in DOMAIN idle |-> AtMost(IdleTimeout + 1, idle[ip] + 1)]
    /\ ideal' = [ip \in IPs |-> AtMost(Burst, ideal[ip] + Rate)]
    /\ UNCHANGED crowd
-----------------------------------------------------------------------------
(* Properties.                                                             *)

\* sweepIdle gives no address more than what an idle time does not fill: the bucket it
\* has, or would be made for it, is never below one that is never dropped and exceeds
\* it by Burst - Rate * IdleTimeout at most, however often it is swept.  That is
\* nothing when ten minutes fill a bucket; NewRateLimiter asks for no such relation.
SweepIsHarmless ==
    \A ip \in IPs :
        BucketOf(ip) - ideal[ip] \in 0..AtLeast(0, Burst - Rate * IdleTimeout)

\* The table outgrows maxIPBuckets only by addresses that are all active: it never
\* holds more than the limit or the busiest IdleTimeout so far brought.
TableBounded == Cardinality(DOMAIN buckets) <= AtLeast(MaxBuckets, crowd)
=============================================================================
