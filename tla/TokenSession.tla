---------------------------- MODULE TokenSession ----------------------------
(***************************************************************************)
(* Sessions: the auth service issues pairs of an access and a refresh      *)
(* token, rotates them, and revokes them by a Redis blacklist whose keys   *)
(* live as long as the token; the gateway admits requests by the same      *)
(* blacklist.  Handlers interleave at every Redis command and the clock    *)
(* runs between them.  Time is counted in fractions of a second: tokens    *)
(* expire on whole seconds, and so do the TTLs that Redis is given.        *)
(***************************************************************************)
EXTENDS Integers, FiniteSets

CONSTANTS
    Servers,      \* handlers of the auth service and of the gateway
    Second,       \* clock ticks of a second
    AccessLife,   \* Config.ExpiredTime, in ticks
    RefreshLife,  \* Config.RefreshExpiredTime, in ticks
    MaxPairs,     \* bound on the number of token pairs issued
    MaxTime,      \* bound on the clock
    MaxFaults     \* bound on failing Redis commands

ASSUME SessionAssumption ==
    /\ Second \in Nat \ {0}
    /\ AccessLife \in Nat /\ RefreshLife \in Nat
    /\ MaxPairs \in Nat /\ MaxTime \in Nat /\ MaxFaults \in Nat

VARIABLES
    now,     \* the clock
    pairs,   \* token pairs issued so far
    exp,     \* exp claim of each token, 0 when it is not issued yet
    black,   \* jwt:blacklist:{token}: when Redis drops the key, 0 if never set
    call,    \* handlers under way
    faults   \* failing Redis commands so far

sessionVars == <<now, pairs, exp, black, call, faults>>

Kinds == {"access", "refresh"}
Tokens == (1..MaxPairs) \X Kinds
KindOf(t) == t[2]
NoToken == <<0, "none">>

\* A handler after its blacklist check ("find": RefreshToken, "admit": gateway) or
\* about to add t to the blacklist for ttl ("set"); Logout revokes "rest" next.
At(pc, t, rest, ttl) == [pc |-> pc, t |-> t, rest |-> rest, ttl |-> ttl]
NoCall == At("idle", NoToken, NoToken, 0)
Call == [pc: {"idle", "find", "admit", "set"},
            t: Tokens \cup {NoToken}, rest: Tokens \cup {NoToken}, ttl: Nat]

SessionTypeOK ==
    /\ now \in 0..MaxTime
    /\ pairs \in 0..MaxPairs
    /\ exp \in [Tokens -> Nat]
    /\ black \in [Tokens -> Nat]
    /\ call \in [Servers -> Call]
    /\ faults \in 0..MaxFaults

SessionInit ==
    /\ now = 0 /\ pairs = 0 /\ faults = 0
    /\ exp = [t \in Tokens |-> 0]
    /\ black = [t \in Tokens |-> 0]
    /\ call = [p \in Servers |-> NoCall]
-----------------------------------------------------------------------------
(* pkg/jwt                                                                 *)

\* Whole seconds of a duration.
Whole(d) == d - (d % Second)

\* GenerateTokenPair; NumericDate keeps whole seconds.
Issue ==
    LET i == pairs + 1 IN
    /\ pairs < MaxPairs
    /\ pairs' = i
    /\ exp' = [exp EXCEPT ![<<i, "access">>] = Whole(now + AccessLife),
                          ![<<i, "refresh">>] = Whole(now + RefreshLife)]

\* ParseAccessToken, ParseRefreshToken: a token, its signature (only issued
\* tokens have one), expiry and type.
Valid(t, kind) == t # NoToken /\ now < exp[t] /\ KindOf(t) = kind

\* IsTokenBlackListed.  An error of Redis reads as "not blacklisted".
ListedNever(t) == FALSE
Listed(t) == now < black[t]
QueryFails == faults < MaxFaults /\ faults' = faults + 1

\* tokenRemainingTTL, and SETEX, which takes whole seconds and at least one.
RemainingTTLUnclamped(t) == Whole(exp[t] - now)
RemainingTTL(t) ==
    LET d == IF exp[t] - now > 0 THEN exp[t] - now ELSE Second
    IN  IF d < Second THEN Second ELSE Whole(d)
-----------------------------------------------------------------------------
(* Login and Register end in a new pair.                                   *)
Login ==
    /\ Issue
    /\ UNCHANGED <<now, black, call, faults>>

-----------------------------------------------------------------------------
(* The gateway and RefreshToken ask the blacklist.  Parsing reads only the  *)
(* token and the clock, so it belongs to the same step as the query.        *)

Pass(p, t, pc) ==
    /\ \/ ~Listed(t) /\ UNCHANGED faults
       \/ QueryFails
    /\ call' = [call EXCEPT ![p] = At(pc, t, NoToken, 0)]
    /\ UNCHANGED <<now, pairs, exp, black>>

\* NewJWTAuth asks the blacklist before it parses.
Gateway(p, t) == call[p].pc = "idle" /\ exp[t] # 0 /\ Pass(p, t, "admit")

\* ParseAccessToken: a token that parses gives the request its identity; one that
\* does not leaves it anonymous on an optional route and is a 401 elsewhere.
Admit(p) ==
    /\ call[p].pc = "admit"
    /\ call' = [call EXCEPT ![p] = NoCall]
    /\ UNCHANGED <<now, pairs, exp, black, faults>>

\* RefreshToken parses before it asks.
RefreshToken(p, t) == call[p].pc = "idle" /\ Valid(t, "refresh") /\ Pass(p, t, "find")

\* The user is gone or disabled (UserCache models what FindByID reads).
RefreshRefused(p) ==
    /\ call[p].pc = "find"
    /\ call' = [call EXCEPT ![p] = NoCall]
    /\ UNCHANGED <<now, pairs, exp, black, faults>>

RefreshIssue(p) ==
    LET t == call[p].t IN
    /\ call[p].pc = "find"
    /\ Issue
    /\ call' = [call EXCEPT ![p] = At("set", t, NoToken, RemainingTTL(t))]
    /\ UNCHANGED <<now, black, faults>>
-----------------------------------------------------------------------------
(* Revocation                                                              *)

\* Logout revokes the access and the refresh token it is given; a token that is
\* missing or does not parse is skipped.
Logout(p, a, r) ==
    /\ call[p].pc = "idle"
    /\ \/ /\ Valid(a, "access")
          /\ call' = [call EXCEPT ![p] = At("set", a, r, RemainingTTL(a))]
       \/ /\ ~Valid(a, "access") /\ Valid(r, "refresh")
          /\ call' = [call EXCEPT ![p] = At("set", r, NoToken, RemainingTTL(r))]
    /\ UNCHANGED <<now, pairs, exp, black, faults>>

AfterSet(p) ==
    LET r == call[p].rest IN
    call' = [call EXCEPT ![p] = IF Valid(r, "refresh")
                              THEN At("set", r, NoToken, RemainingTTL(r))
                              ELSE NoCall]

AddWithTTL(p) ==
    /\ call[p].pc = "set"
    /\ black' = [black EXCEPT ![call[p].t] = now + call[p].ttl]
    /\ AfterSet(p)
    /\ UNCHANGED <<now, pairs, exp, faults>>

\* A failure is logged and the handler goes on.
AddFails(p) ==
    /\ call[p].pc = "set"
    /\ QueryFails
    /\ AfterSet(p)
    /\ UNCHANGED <<now, pairs, exp, black>>

Tick ==
    /\ now < MaxTime
    /\ now' = now + 1
    /\ UNCHANGED <<pairs, exp, black, call, faults>>

SessionNext ==
    \/ Login \/ Tick
    \/ \E p \in Servers :
          \/ Admit(p) \/ RefreshRefused(p) \/ RefreshIssue(p)
          \/ AddWithTTL(p) \/ AddFails(p)
          \/ \E t \in Tokens : RefreshToken(p, t) \/ Gateway(p, t)
          \/ \E i, j \in 0..pairs :
                Logout(p, IF i = 0 THEN NoToken ELSE <<i, "access">>,
                          IF j = 0 THEN NoToken ELSE <<j, "refresh">>)

SessionSpec == SessionInit /\ [][SessionNext]_sessionVars
-----------------------------------------------------------------------------
(* Properties.                                                             *)

\* A token whose AddWithTTL succeeded.
Revoked(t) == black[t] # 0

\* Once AddWithTTL has succeeded, neither the gateway nor RefreshToken lets the
\* token past its check again, unless Redis fails to answer or the token is in its
\* last second: rotation and logout hold against every later request.
RevokedIsRefused ==
    [][\A p \in Servers :
          LET t == call'[p].t IN
          /\ call[p].pc = "idle" /\ call'[p].pc \in {"find", "admit"} /\ Revoked(t)
          => faults' > faults \/ now + Second > exp[t]]_sessionVars
=============================================================================
