---------------------------- MODULE RemoteConfig ----------------------------
(***************************************************************************)
(* The remote business configuration of the gateway.  The holder reads the *)
(* key from etcd once, a second time when it begins to watch, and then     *)
(* follows the watch through a channel of one place.  While the process    *)
(* starts, its parts take what the holder has at the moment each of them   *)
(* is built; nothing rebuilds them later.  A configuration is known by the *)
(* revision of the key it was written at, 0 being the empty one.           *)
(***************************************************************************)
EXTENDS Integers, Sequences

CONSTANTS
    Configs,    \* values of the key that decode: records with key, redis, rps
    Garbled,    \* a value that does not decode
    Gone,       \* the key is not there
    MaxWrites,  \* bound on the changes of the key
    MaxFaults   \* bound on failing reads, broken watches, unreachable Redis

ASSUME RemoteConfigAssumption ==
    /\ \A c \in Configs : /\ c.redis \in BOOLEAN
                          /\ c.rps \in Nat
    /\ Garbled \notin Configs /\ Gone \notin Configs
    /\ MaxWrites \in Nat /\ MaxFaults \in Nat

VARIABLES
    hist,    \* the values of the key, by revision
    boot,    \* how far the process has started
    watch,   \* watchLoop: "off", "starting" (about to subscribe), "on"
    seen,    \* the last revision watchLoop knows of
    ch,      \* the channel to the holder: a revision, 0 when empty
    taken,   \* what the holder's goroutine has received and not stored yet, or 0
    holder,  \* RemoteConfigHolder.cfg
    snap,    \* the revision each part of the process was built from
    listed,  \* the blacklist was built with a Redis connection
    broken,  \* faults so far
    lost     \* history: revisions written while nothing was subscribed

configVars == <<hist, boot, watch, seen, ch, taken, holder, snap, listed, broken, lost>>

Parts == {"jwt", "redis", "chain"}
Stages == {"load", "get", "jwt", "redis", "chain", "up"}
Revision == Len(hist)
Current == hist[Revision]
Empty == [key |-> 0, redis |-> FALSE, rps |-> 0]

\* Get, for the part built from what the holder had.
ConfigOf(part) == IF snap[part] = 0 THEN Empty ELSE hist[snap[part]]

ConfigTypeOK ==
    /\ hist \in Seq(Configs \cup {Garbled, Gone}) /\ Revision \in 1..(MaxWrites + 1)
    /\ boot \in Stages
    /\ watch \in {"off", "starting", "on"}
    /\ seen \in 0..Revision
    /\ ch \in 0..Revision /\ (ch # 0 => hist[ch] \in Configs)
    /\ taken \in 0..Revision /\ (taken # 0 => hist[taken] \in Configs)
    /\ holder \in 0..Revision /\ (holder # 0 => hist[holder] \in Configs)
    /\ snap \in [Parts -> 0..Revision]
    /\ listed \in BOOLEAN
    /\ broken \in 0..MaxFaults
    /\ lost \subseteq 1..Revision

ConfigInit ==
    /\ \E v \in Configs \cup {Garbled, Gone} : hist = <<v>>
    /\ boot = "load" /\ watch = "off"
    /\ seen = 0 /\ ch = 0 /\ taken = 0 /\ holder = 0 /\ broken = 0
    /\ snap = [p \in Parts |-> 0]
    /\ listed = FALSE
    /\ lost = {}

\* The operator writes or deletes the key.
Write(v) ==
    /\ Revision <= MaxWrites
    /\ v = Gone => Current # Gone
    /\ hist' = Append(hist, v)
    /\ UNCHANGED <<boot, watch, seen, ch, taken, holder, snap, listed, broken, lost>>

Fault == broken < MaxFaults /\ broken' = broken + 1

\* loadRemoteConfig: what a GET answers.
GetsConfig == Current \in Configs /\ UNCHANGED broken
GetsNothing == Current = Gone /\ UNCHANGED broken
GetFails == (Current = Garbled /\ UNCHANGED broken) \/ Fault
-----------------------------------------------------------------------------
(* NewRemoteConfigHolder.                                                  *)

Load ==
    /\ boot = "load" /\ boot' = "get"
    /\ \/ GetsConfig /\ holder' = Revision
       \/ (GetsNothing \/ GetFails) /\ UNCHANGED holder
    /\ UNCHANGED <<hist, watch, seen, ch, taken, snap, listed, lost>>

\* watchRemoteConfig.  An error other than "not found" means no watch at all.
WatchRemoteConfig ==
    /\ boot = "get" /\ boot' = "jwt"
    /\ seen' = Revision
    /\ \/ GetsConfig /\ ch' = Revision /\ watch' = "starting"
       \/ GetsNothing /\ UNCHANGED ch /\ watch' = "starting"
       \/ GetFails /\ UNCHANGED <<ch, watch>>
    /\ UNCHANGED <<hist, taken, holder, snap, listed, lost>>

\* watchLoop subscribes from the present revision on, whatever it knew before.
SubscribeFromStart ==
    /\ watch = "starting" /\ watch' = "on"
    /\ seen' = 0
    /\ UNCHANGED <<hist, boot, ch, taken, holder, snap, listed, broken, lost>>

Subscribe ==
    /\ watch = "starting" /\ watch' = "on"
    /\ seen' = Revision
    /\ lost' = lost \cup (seen + 1)..Revision
    /\ UNCHANGED <<hist, boot, ch, taken, holder, snap, listed, broken>>

\* The watch channel is closed under it; the loop subscribes again.
WatchBreaks ==
    /\ watch = "on" /\ watch' = "starting"
    /\ Fault
    /\ UNCHANGED <<hist, boot, seen, ch, taken, holder, snap, listed, lost>>

\* deliver: the newest configuration takes the place of one not consumed yet.
DeliverIfRoom(r) == IF ch = 0 THEN r ELSE ch
Deliver(r) == r

\* One event: a deletion or a value that does not decode leaves things as they are.
Receive ==
    LET r == seen + 1 IN
    /\ watch = "on" /\ seen < Revision
    /\ seen' = r
    /\ ch' = IF hist[r] \in Configs THEN Deliver(r) ELSE ch
    /\ UNCHANGED <<hist, boot, watch, taken, holder, snap, listed, broken, lost>>

\* The goroutine of the holder receives a configuration and then stores it; in between
\* the channel may be filled again.
Consume ==
    /\ ch # 0 /\ taken = 0
    /\ taken' = ch /\ ch' = 0
    /\ UNCHANGED <<hist, boot, watch, seen, holder, snap, listed, broken, lost>>

Store ==
    /\ taken # 0
    /\ holder' = taken /\ taken' = 0
    /\ UNCHANGED <<hist, boot, watch, seen, ch, snap, listed, broken, lost>>
-----------------------------------------------------------------------------
(* The rest of the start.                                                  *)

Built(part, next) ==
    /\ boot = part /\ boot' = next
    /\ snap' = [snap EXCEPT ![part] = holder]
    /\ UNCHANGED <<hist, watch, seen, ch, taken, holder, lost>>

NewJWT == Built("jwt", "redis") /\ UNCHANGED <<listed, broken>>

\* ProvideRedisSnapshot and NewBlacklistCache: no address, or no answer to the
\* probe, means that no token is ever looked up.
NewBlacklistCache ==
    /\ Built("redis", "chain")
    /\ \/ listed' = (IF holder = 0 THEN Empty ELSE hist[holder]).redis /\ UNCHANGED broken
       \/ listed' = FALSE /\ Fault

\* RegisteredMiddleWire.Register fixes the chain of middleware; then the server starts.
Register == Built("chain", "up") /\ UNCHANGED <<listed, broken>>

Started == boot = "up"

ConfigNext ==
    \/ \E v \in Configs \cup {Garbled, Gone} : Write(v)
    \/ Load \/ WatchRemoteConfig \/ Subscribe \/ WatchBreaks \/ Receive \/ Consume \/ Store
    \/ NewJWT \/ NewBlacklistCache \/ Register
-----------------------------------------------------------------------------
(* Properties.                                                             *)

\* "The consumer always gets the newest configuration" (deliver) across the two reads,
\* the channel that drops and every new subscription: the holder never goes back to
\* an older revision of the key.
HolderGoesForward == [][holder' >= holder]_configVars

\* Once watchLoop has handled all it was told and nothing is on its way, the holder has
\* the configuration that is in etcd, unless it was written while nothing was
\* subscribed: between the GET and the Watch, or between two Watches.
QuietIsCurrent ==
    (watch = "on" /\ seen = Revision /\ ch = 0 /\ taken = 0 /\ Current \in Configs)
        => (holder = Revision \/ Revision \in lost)
=============================================================================
