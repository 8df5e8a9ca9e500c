------------------------------- MODULE Accounts -------------------------------
(***************************************************************************)
(* The accounts of the auth service on top of its user repository          *)
(* (UserCache): Register, Login and RefreshToken decide who gets a pair of *)
(* tokens.  Register and Login ask the table; RefreshToken asks FindByID,  *)
(* which may answer from the cache.  What becomes of the tokens is in      *)
(* TokenSession.                                                           *)
(***************************************************************************)
EXTENDS UserCache, FiniteSets

CONSTANTS
    Names,          \* stands for usernames and e-mail addresses, which are treated alike
    Passwords,      \* records [len, classes]
    MinPassword, MaxPassword,
    NoOne

ASSUME AccountsAssumption ==
    /\ \A w \in Passwords : w.len \in Nat /\ w.classes \subseteq {"upper", "lower", "digit", "other"}
    /\ MinPassword \in Nat /\ MaxPassword \in Nat
    /\ NoOne \notin Names \cup Passwords \cup Users

VARIABLES
    acct,  \* users: name and password
    held,  \* users a client holds a refresh token of
    sess   \* what the handlers are doing about accounts

accountVars == <<acct, held, sess>>
allVars == <<vars, accountVars>>

\* "insert": a registration after its lookups; "find": a refresh inside FindByID; "issue":
\* about to sign a pair for u.  seen is 1 when u was active at a moment of this call,
\* excused is 1 when the entry the call was answered from had an excuse to be stale.
Doing(pc, n, w, u) == [pc |-> pc, n |-> n, w |-> w, u |-> u, seen |-> 0, excused |-> 0]
Resting == Doing("idle", NoOne, NoOne, NoOne)
Session ==
    [pc: {"idle", "insert", "find", "issue"}, n: Names \cup {NoOne}, w: Passwords \cup {NoOne},
     u: Users \cup {NoOne}, seen: 0..1, excused: 0..1]
Account == [name: Names, password: Passwords]
NoAccount == [name |-> NoOne, password |-> NoOne]

AccountsTypeOK ==
    /\ TypeOK
    /\ acct \in [Users -> Account \cup {NoAccount}]
    /\ \A u \in Users : acct[u] = NoAccount <=> row[u].status = "absent"
    /\ held \subseteq {u \in Users : acct[u] # NoAccount}
    /\ sess \in [Procs -> Session]

AccountsInit ==
    /\ Init
    /\ acct = [u \in Users |-> NoAccount]
    /\ held = {}
    /\ sess = [p \in Procs |-> Resting]

See(s) == IF s.u # NoOne /\ row[s.u].status = "active" THEN [s EXCEPT !.seen = 1] ELSE s
\* Handler p goes on to s; every call sees whether its user is active by now.
Turn(p, s) == sess' = [x \in Procs |-> See(IF x = p THEN s ELSE sess[x])]
Watch == sess' = [x \in Procs |-> See(sess[x])] /\ UNCHANGED <<acct, held>>

Ready(p) == Free(p) /\ sess[p].pc = "idle"
-----------------------------------------------------------------------------
(* Register                                                                *)

\* Also the characters and the length of the name, which Names have right.
ValidatePassword(w) ==
    w.len \in MinPassword..MaxPassword /\ {"upper", "lower", "digit"} \subseteq w.classes

\* FindByUsername, FindByEmail: GORM hides deleted rows.  Any error of the query reads
\* as "not found".
Registered(n) == {u \in Users : acct[u].name = n /\ Found(row[u])}

Register(p, n, w) ==
    /\ Ready(p) /\ ValidatePassword(w)
    /\ Turn(p, Doing("insert", n, w, NoOne))
    /\ UNCHANGED <<vars, acct, held>>
RegisterRefused(p, n) ==
    /\ Ready(p) /\ Registered(n) # {}
    /\ UNCHANGED <<vars, accountVars>>

\* The unique indexes of users span deleted rows.
IndexedLive(n) == Registered(n)
Indexed(n) == {u \in Users : acct[u].name = n}

\* userRepo.Create gives the row a new id.
Insert(p, u) ==
    LET s == sess[p] IN
    /\ s.pc = "insert" /\ Indexed(s.n) = {}
    /\ Create(u)
    /\ acct' = [acct EXCEPT ![u] = [name |-> s.n, password |-> s.w]]
    /\ Turn(p, [Doing("issue", NoOne, NoOne, u) EXCEPT !.seen = 1])
    /\ UNCHANGED held
\* ErrUserDuplicate, or another error.
InsertFails(p) ==
    /\ sess[p].pc = "insert"
    /\ Turn(p, Resting)
    /\ UNCHANGED <<vars, acct, held>>
-----------------------------------------------------------------------------
(* Login, RefreshToken                                                     *)

\* One query, by username or e-mail, on the table; checking the password takes long.
FindByAccount(n) == Registered(n)
VerifyPassword(u, w) == acct[u].password = w
Login(p, n, w) ==
    /\ Ready(p)
    /\ \E u \in FindByAccount(n) :
          /\ row[u].status = "active" /\ VerifyPassword(u, w)
          /\ Turn(p, Doing("issue", NoOne, NoOne, u))
    /\ UNCHANGED <<vars, acct, held>>

\* What RefreshToken makes of the answer e of FindByID.
MayRefreshFound(e) == e # Null
MayRefresh(e) == e # Null /\ e.status = "active"
Answered(s, e) == IF MayRefresh(e) THEN [s EXCEPT !.pc = "issue"] ELSE Resting

\* The refresh token parses and is not revoked (TokenSession).
RefreshToken(p, u) ==
    LET s == Doing("find", NoOne, NoOne, u)
        excused == IF Evicting(u) \/ excuse[u] = 1 THEN 1 ELSE 0
    IN
    /\ Ready(p) /\ u \in held
    /\ FindByID(p, u, "read")
    /\ Turn(p, IF req'[p].pc = "load" THEN s ELSE Answered([s EXCEPT !.excused = excused], cache[u]))
    /\ UNCHANGED <<acct, held>>
RefreshLoads(p) ==
    /\ sess[p].pc = "find"
    /\ \/ Load(p) /\ Watch
       \/ Fill(p) /\ Turn(p, Answered(sess[p], req[p].snap)) /\ UNCHANGED <<acct, held>>
       \/ Abort(p) /\ Turn(p, Resting) /\ UNCHANGED <<acct, held>>

\* GenerateTokenPair.
Issue(p) ==
    /\ sess[p].pc = "issue"
    /\ held' = held \cup {sess[p].u}
    /\ Turn(p, Resting)
    /\ UNCHANGED <<vars, acct>>
-----------------------------------------------------------------------------
(* GetProfile, UpdateProfile, UpdateStatus and Delete are UserCache's.     *)
Manage(p) ==
    /\ sess[p].pc = "idle"
    /\ \/ Load(p) \/ Fill(p) \/ Abort(p) \/ Remove(p) \/ Evict(p) \/ EvictLost(p)
       \/ \E v \in Profiles : UpdateProfile(p, v)
       \/ \E u \in Users :
             \/ \E op \in {"read", "profile"} : FindByID(p, u, op)
             \/ \E s \in Active : UpdateStatus(p, u, s)
             \/ Delete(p, u)
    /\ Watch

Elapse(u) == Expire(u) /\ Watch

AccountsNext ==
    \/ \E u \in Users : Elapse(u)
    \/ \E p \in Procs :
          \/ Manage(p) \/ InsertFails(p) \/ RefreshLoads(p) \/ Issue(p)
          \/ \E u \in Users : Insert(p, u) \/ RefreshToken(p, u)
          \/ \E n \in Names : \/ RegisterRefused(p, n)
                              \/ \E w \in Passwords : Register(p, n, w) \/ Login(p, n, w)

AccountsSpec == AccountsInit /\ [][AccountsNext]_allVars

\* Redis drops what has expired, and a handler that is to sign a pair does so.
AccountsFairness ==
    /\ \A u \in Users : WF_allVars(Elapse(u))
    /\ \A p \in Procs : WF_allVars(Issue(p))

AccountsFairSpec == AccountsSpec /\ AccountsFairness
-----------------------------------------------------------------------------
(* Properties.                                                             *)

\* Two accounts never have the same name, deleted ones included ("not reusable", UserPO),
\* though two registrations may both find it free and a failing lookup says so, too.
NamesUnique ==
    /\ AccountsTypeOK
    /\ \A u, v \in Users : u # v /\ acct[u] # NoAccount => acct[u].name # acct[v].name

\* Nobody gets a pair whose account was not active at some moment of the call, except by
\* a refresh that FindByID answered from an entry with one of StaleHasExcuse's excuses:
\* disabling an account ends its sessions at the next refresh, not before an eviction.
PairsForActive ==
    \A p \in Procs : sess[p].pc = "issue" => sess[p].seen = 1 \/ sess[p].excused = 1

\* Whatever was lost or overtaken, an account that stays disabled or deleted is locked
\* out in the end: the stale entry that RefreshToken reads expires.
LockedOut ==
    \A u \in Users :
        <>[](row[u].status \in {"disabled", "deleted"})
            => <>[](\A p \in Procs : ~(sess[p].pc = "issue" /\ sess[p].u = u))
=============================================================================
