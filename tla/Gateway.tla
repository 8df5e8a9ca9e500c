------------------------------- MODULE Gateway -------------------------------
(***************************************************************************)
(* The entry gateway: it starts from the remote configuration, and then    *)
(* takes each request through its middleware (CORS, rate limit, JWT, role) *)
(* and its proxy handler to a service, which checks the identity it is     *)
(* told once more.  Meanwhile tokens expire and are revoked, time passes   *)
(* for the limiter, and the configuration changes.                         *)
(***************************************************************************)
EXTENDS RemoteConfig, RateLimiter, Routes

CONSTANTS
    Handlers,    \* requests under way at a time
    Tokens,      \* tokens the auth service signed: user, role, kind, key
    MaxChanges   \* bound on the tokens that are revoked or expire

ASSUME GatewayAssumption ==
    /\ \A t \in Tokens : t.kind \in {"access", "refresh"} /\ t.user # 0 /\ t.key # 0
    /\ MaxChanges \in Nat

VARIABLES
    revoked,  \* tokens on the blacklist in Redis
    expired,  \* tokens whose time is over
    req       \* requests past the blacklist, or with a service

vars == <<configVars, limiterVars, revoked, expired, req>>

\* The Authorization header: a token, or none that reads as one; and whom the services
\* are told the request is from.
Nobody == [user |-> 0, role |-> "", kind |-> "none", key |-> 0]
Headers == Tokens \cup {Nobody}

\* slipped is history: the blacklist was not asked, or its answer is outdated because
\* the token was revoked after it.
At(pc, need, header, id, slipped) ==
    [pc |-> pc, need |-> need, header |-> header, id |-> id, slipped |-> slipped]
Idle == At("idle", "none", Nobody, Nobody, FALSE)

TypeOK ==
    /\ ConfigTypeOK /\ LimiterTypeOK
    /\ revoked \subseteq Tokens /\ expired \subseteq Tokens
    /\ req \in [Handlers -> [pc: {"idle", "checked", "down"}, need: {"none", "user", "owner", "admin"},
                             header: Headers, id: Tokens \cup {Nobody}, slipped: BOOLEAN]]

Init ==
    /\ ConfigInit /\ LimiterInit
    /\ revoked = {} /\ expired = {}
    /\ req = [p \in Handlers |-> Idle]
-----------------------------------------------------------------------------
(* The middleware.                                                         *)

\* Register puts the limiter into the chain when the configuration has a rate.
Limits == ConfigOf("chain").rps > 0

\* AddMetaData and CORS come first; then the limiter lets the request on or not.
Limited(ip, allowed) ==
    \/ Limits /\ Take(ip, allowed)
    \/ ~Limits /\ allowed /\ UNCHANGED limiterVars

\* ParseAccessToken with the key the process started with: signature, expiry, type.
ParsesAsAccess(t) ==
    t \in Tokens /\ t.key = ConfigOf("jwt").key /\ t \notin expired /\ t.kind = "access"

\* classMiddleWires: which routes take a request without identity, and from which roles.
Optional(class) == class = "public"
RoleAllowed(class, role) == class = "admin" => role = "admin"

\* NewJWTAuth asks the blacklist, if there is one, before it parses the token, on
\* every route.  An error of Redis reads as "not listed".
AsksParsed(h) == listed /\ ParsesAsAccess(h)
Asks(h) == listed
BlackListed(h) == Asks(h) /\ h \in revoked /\ UNCHANGED broken
NotBlackListed(h) ==
    \/ (~Asks(h) \/ h \notin revoked) /\ UNCHANGED broken
    \/ Asks(h) /\ h \in Tokens /\ Fault

\* The claims become the identity of the request.
Identity(h) == IF ParsesAsAccess(h) THEN h ELSE Nobody

\* NewJWTAuth and RequireRole let a request with this identity through.
Admits(class, id) == (id # Nobody \/ Optional(class)) /\ RoleAllowed(class, id.role)

\* A request for an operation that the limiter lets on.  The blacklist turns it away
\* (401), ...
Revoked(h, ip) ==
    /\ Started
    /\ Limited(ip, TRUE) /\ BlackListed(h)
    /\ UNCHANGED <<hist, boot, watch, seen, ch, taken, holder, snap, listed, lost, revoked, expired, req>>

\* ... or it goes on; nothing so far depends on its route.
Check(p, h, ip) ==
    /\ Started /\ req[p].pc = "idle"
    /\ Limited(ip, TRUE)
    /\ NotBlackListed(h)
    /\ req' = [req EXCEPT ![p] = At("checked", "none", h, Nobody, ~listed \/ broken' # broken)]
    /\ UNCHANGED <<hist, boot, watch, seen, ch, taken, holder, snap, listed, lost, revoked, expired>>

\* The JWT, the role or the parsing of path, query and body turns the request away
\* (401, 403, 400), if its route is one of these ...
TurnedAway(h) ==
    LET id == Identity(h) IN {k \in Kinds : ~Admits(k.class, id) \/ k.parses # {}}
TurnAway(p) ==
    /\ req[p].pc = "checked" /\ TurnedAway(req[p].header) # {}
    /\ req' = [req EXCEPT ![p] = Idle]
    /\ UNCHANGED <<configVars, limiterVars, revoked, expired>>

\* ... or callProto sends it on, with the identity in the metadata of the call
\* (SetRequestMeta, BuildRequestMeta, NewClientCtx, GetServerMeta).
Admitted(h) ==
    LET id == Identity(h) IN {k \in Kinds : Admits(k.class, id)}
Forward(p, need) ==
    LET r == req[p] IN
    /\ r.pc = "checked" /\ \E k \in Admitted(r.header) : k.need = need
    /\ req' = [req EXCEPT ![p] = At("down", need, r.header, Identity(r.header), r.slipped)]
    /\ UNCHANGED <<configVars, limiterVars, revoked, expired>>

\* What the limiter turns away (429); probes and unknown paths meet nothing else, and a
\* preflight not even that.
ServeOther(ip) ==
    /\ Started
    /\ \E allowed \in BOOLEAN : Limited(ip, allowed)
    /\ UNCHANGED <<configVars, revoked, expired, req>>
-----------------------------------------------------------------------------
(* The services.                                                           *)

\* getCurrentUserID, requireAdmin; a list of drafts is for its author or an admin.
Meets(need, id) ==
    CASE need = "none" -> TRUE
      [] need = "admin" -> id.role = "admin"
      [] OTHER -> id.user # 0

\* The service answers, or cannot be reached, or does not answer within three seconds.
Answer(p) ==
    /\ req[p].pc = "down"
    /\ req' = [req EXCEPT ![p] = Idle]
    /\ UNCHANGED <<configVars, limiterVars, revoked, expired>>
-----------------------------------------------------------------------------
(* The world around.                                                       *)

Changes == Cardinality(revoked) + Cardinality(expired)

\* The auth service adds a token to the blacklist (TokenSession has the details).
Revoke(t) ==
    /\ Changes < MaxChanges /\ t \notin revoked
    /\ revoked' = revoked \cup {t}
    /\ req' = [p \in Handlers |-> IF req[p].header = t THEN [req[p] EXCEPT !.slipped = TRUE]
                                                      ELSE req[p]]
    /\ UNCHANGED <<configVars, limiterVars, expired>>

Expire(t) ==
    /\ Changes < MaxChanges
    /\ expired' = expired \cup {t}
    /\ UNCHANGED <<configVars, limiterVars, revoked, req>>

Tick == Elapse /\ UNCHANGED <<configVars, revoked, expired, req>>

Configure == ConfigNext /\ UNCHANGED <<limiterVars, revoked, expired, req>>

Serve ==
    \/ \E ip \in IPs :
          \/ ServeOther(ip)
          \/ \E h \in Headers : Revoked(h, ip) \/ \E p \in Handlers : Check(p, h, ip)
    \/ \E p \in Handlers :
          \/ TurnAway(p) \/ Answer(p)
          \/ \E need \in {k.need : k \in Admitted(req[p].header)} : Forward(p, need)

Next ==
    \/ Serve \/ Configure \/ Tick
    \/ \E t \in Tokens : Revoke(t) \/ Expire(t)

Spec == Init /\ [][Next]_vars
-----------------------------------------------------------------------------
(* Properties.                                                             *)

\* The gateway's classes (routes.go) and the checks of the use cases agree: what the
\* gateway forwards, the service does not refuse for want of an identity or a role,
\* whatever happened to the token meanwhile.  Lists of drafts are the exception, on
\* a public route.
NothingLetThrough ==
    \A p \in Handlers : req[p].pc = "down" =>
        Meets(req[p].need, req[p].id) \/ req[p].need = "owner"

\* And the other way round: whom the gateway's JWT and role checks refuse, the service
\* would have refused as well, in every configuration the process can have started
\* from; except for ViewArticle, which only the gateway wants a login for.
NothingShutOut ==
    Started => \A id \in {Identity(h) : h \in Headers}, k \in Kinds :
        \/ Admits(k.class, id)
        \/ ~Meets(k.need, id)
        \/ k.class = "auth" /\ k.need = "none"

\* The route table of the gateway and the checks in the services draw the same line.
ClassesAgree == TypeOK /\ NothingLetThrough /\ NothingShutOut

\* "A revoked token is a 401 on every route" (NewJWTAuth): no service works for a
\* request whose token is on the blacklist, not even as an anonymous one, unless the
\* revocation came after that request's own lookup, which nothing repeats before the
\* call, or Redis did not answer, now or when the process started.
RevokedStaysOut ==
    \A p \in Handlers :
        (req[p].pc # "idle" /\ req[p].header \in revoked) => req[p].slipped
=============================================================================
