------------------------------ MODULE FileStore ------------------------------
(***************************************************************************)
(* Files and background images: objects in a store (MinIO or Aliyun OSS)    *)
(* and rows in the database that name them, written and removed one after   *)
(* the other with nothing to hold the two together.  Files come through the *)
(* service (Upload) or straight from the client to the store through a      *)
(* presigned URL; backgrounds are listed from the cache site:backgrounds.   *)
(***************************************************************************)
EXTENDS Naturals, FiniteSets

CONSTANTS
    Users,
    Ids,         \* ids of files
    Keys,        \* object keys of files, each a UUID that is used once
    Bgs,         \* backgrounds; their objects have keys of their own
    Contents,    \* what clients send: records [size, image]
    MaxFile,     \* MaxFileSize
    MaxAttach,   \* MaxAttachSize, the limit for presigned uploads
    Procs, Null,
    MaxFaults,   \* bound on failing statements and lost calls
    MaxRequests  \* bound on requests

ASSUME FileAssumption ==
    /\ Contents \subseteq [size: Nat, image: 0..1]
    /\ MaxFile \in Nat /\ MaxAttach \in Nat /\ MaxFile <= MaxAttach
    /\ MaxFaults \in Nat /\ MaxRequests \in Nat
    /\ Keys \cap Bgs = {} /\ Null \notin Keys \cup Bgs \cup Ids \cup Users \cup Contents

VARIABLES
    obj,     \* the object store
    file,    \* table files
    bg,      \* table site_backgrounds
    url,     \* presigned PUT URLs that have not expired
    list,    \* site:backgrounds, compared with the table
    req, faults, started,
    used,    \* keys that have been handed out; presigned ones are in pre
    pre,
    cause,   \* history: why an object and its rows may have parted
    excuse   \* history: 1 when list was filled by a load that a write overtook, or an
             \* eviction since then was lost or came before the write

fileVars == <<obj, file, bg, url, list, req, faults, started, used, pre, cause, excuse>>
tables == <<obj, file, bg>>
rest == <<url, used, pre>>
cacheVars == <<list, excuse>>

\* shared: registered more than once; insert: the INSERT failed after the object was
\* stored; object: DeleteObject was lost; row: the row was not deleted after the object;
\* reput: the client stored the object again after StatObject; put: PutObject reported an
\* error, before or after the store had the object.
Causes == {"shared", "insert", "object", "row", "reput", "put"}
\* active: 0 is_active is false; 1 it is true; 2 it is still true, because a later switch
\* did not reset it.
Row == [state: {"absent", "live", "deleted"}, key: Keys \cup {Null}, owner: Users \cup {Null},
        image: 0..1, size: 0..MaxAttach]
Idle == [pc |-> "idle", op |-> "none", u |-> Null, f |-> Null, key |-> Null,
         content |-> Null, image |-> 0, late |-> 0]
NoRow == [state |-> "absent", key |-> Null, owner |-> Null, image |-> 0, size |-> 0]
LiveFiles == {f \in Ids : file[f].state = "live"}
RowsOf(k) == {f \in LiveFiles : file[f].key = k}

FileTypeOK ==
    /\ obj \in [Keys \cup Bgs -> Contents \cup {Null}]
    /\ file \in [Ids -> Row]
    /\ bg \in [Bgs -> [state: {"absent", "live", "deleted"}, active: 0..2]]
    /\ url \subseteq pre /\ pre \subseteq used /\ used \subseteq Keys
    /\ list \in {"none", "fresh", "stale"} /\ excuse \in 0..1
    /\ req \in [Procs -> [pc: {"idle", "put", "stat", "insert", "select", "object", "early", "row",
                               "evict", "fill", "activate"},
                          op: {"none", "file", "bg"}, u: Users \cup {Null},
                          f: Ids \cup {Null}, key: Keys \cup Bgs \cup {Null},
                          content: Contents \cup {Null}, image: 0..1, late: 0..1]]
    /\ faults \in 0..MaxFaults /\ started \in 0..MaxRequests
    /\ cause \in [Keys \cup Bgs -> SUBSET Causes]

FileInit ==
    /\ obj = [k \in Keys \cup Bgs |-> Null]
    /\ file = [f \in Ids |-> NoRow]
    /\ bg = [b \in Bgs |-> [state |-> "absent", active |-> 0]]
    /\ url = {} /\ used = {} /\ pre = {}
    /\ list = "none" /\ excuse = 0
    /\ req = [p \in Procs |-> Idle]
    /\ faults = 0 /\ started = 0
    /\ cause = [k \in Keys \cup Bgs |-> {}]

Request == started < MaxRequests /\ started' = started + 1
Start(p) == req[p].pc = "idle" /\ Request
At(p, pc) == req[p].pc = pc /\ UNCHANGED started
Goto(p, q) == req' = [req EXCEPT ![p] = q]
Fault == faults < MaxFaults /\ faults' = faults + 1
Only(p, q) == Goto(p, q) /\ UNCHANGED <<tables, rest, cacheVars, faults, cause>>
Because(k, why) == cause' = [cause EXCEPT ![k] = @ \cup {why}]

\* The table site_backgrounds changes: list is outdated, handlers at places are overtaken.
BgChanged(p, q, places) ==
    /\ list' = IF list = "none" THEN "none" ELSE "stale"
    /\ req' = [x \in Procs |-> IF x = p THEN q
                               ELSE IF req[x].pc \in places THEN [req[x] EXCEPT !.late = 1]
                               ELSE req[x]]
-----------------------------------------------------------------------------
(* Upload, AddBackground                                                   *)

\* A type with a magic number, or of an image, must match the first bytes; image stands
\* for these.  Names, extensions and the list of types are the client's to get right.
VerifyMagicNumber(image, c) == image = 1 => c.image = 1
AcceptsAttachments(image, c) == VerifyMagicNumber(image, c) /\ c.size <= MaxAttach
Accepts(image, c) == VerifyMagicNumber(image, c) /\ c.size <= MaxFile

Upload(p, u, image, c, k) ==
    /\ Start(p) /\ k \notin used /\ Accepts(image, c)
    /\ used' = used \cup {k}
    /\ Goto(p, [Idle EXCEPT !.pc = "put", !.op = "file", !.u = u, !.key = k,
                            !.content = c, !.image = image])
    /\ UNCHANGED <<tables, url, pre, cacheVars, faults, cause>>
AddBackground(p, b, c) ==
    /\ Start(p) /\ bg[b].state = "absent" /\ (\A x \in Procs : req[x].key # b)
    /\ obj[b] = Null /\ c.image = 1
    /\ Only(p, [Idle EXCEPT !.pc = "put", !.op = "bg", !.key = b, !.content = c])

\* oss.PutObject
PutObject(p) ==
    LET q == req[p] IN
    /\ At(p, "put")
    /\ obj' = [obj EXCEPT ![q.key] = q.content]
    /\ Goto(p, [q EXCEPT !.pc = "insert"])
    /\ UNCHANGED <<file, bg, rest, cacheVars, faults, cause>>

\* The request ends, and nobody looks whether the store has the object.
PutObjectFails(p) ==
    LET q == req[p] IN
    /\ At(p, "put") /\ Fault
    /\ \E o \in {obj[q.key], q.content} : obj' = [obj EXCEPT ![q.key] = o]
    /\ Because(q.key, "put")
    /\ Goto(p, Idle)
    /\ UNCHANGED <<file, bg, rest, cacheVars>>

\* The INSERT at the end of fileRepo.Create and RegisterPresignedObject.
InsertFile(p, f) ==
    LET q == req[p] IN
    /\ At(p, "insert") /\ q.op = "file" /\ file[f] = NoRow
    /\ file' = [file EXCEPT ![f] = [state |-> "live", key |-> q.key, owner |-> q.u,
                                    image |-> q.image, size |-> q.content.size]]
    /\ cause' = [cause EXCEPT ![q.key] =
                   IF \E g \in Ids : file[g].key = q.key THEN @ \cup {"shared"} ELSE @]
    /\ Goto(p, Idle)
    /\ UNCHANGED <<obj, bg, rest, cacheVars, faults>>
InsertBackground(p) ==
    LET q == req[p] IN
    /\ At(p, "insert") /\ q.op = "bg"
    /\ bg' = [bg EXCEPT ![q.key].state = "live"]
    /\ BgChanged(p, [Idle EXCEPT !.pc = "evict"], {"fill"})
    /\ UNCHANGED <<obj, file, rest, excuse, faults, cause>>
\* Nobody removes the object then.
InsertFails(p) ==
    /\ At(p, "insert") /\ Fault
    /\ Because(req[p].key, "insert")
    /\ Goto(p, Idle)
    /\ UNCHANGED <<tables, rest, cacheVars>>
-----------------------------------------------------------------------------
(* Presigned uploads                                                       *)

CreatePresignedUpload(k) ==
    /\ Request /\ k \notin used
    /\ used' = used \cup {k} /\ pre' = pre \cup {k} /\ url' = url \cup {k}
    /\ UNCHANGED <<tables, req, cacheVars, faults, cause>>

\* The client, who may do so as often as it likes until the URL expires.
ClientPut(k, c) ==
    /\ Request /\ k \in url
    /\ obj' = [obj EXCEPT ![k] = c]
    /\ cause' = [cause EXCEPT ![k] =
                   IF (\E f \in Ids : file[f].key = k) \/ (\E p \in Procs : req[p].key = k)
                   THEN @ \cup {"reput"} ELSE @]
    /\ UNCHANGED <<file, bg, req, rest, cacheVars, faults>>
UrlExpires(k) ==
    /\ k \in url /\ url' = url \ {k}
    /\ UNCHANGED <<tables, req, used, pre, cacheVars, faults, started, cause>>

\* Any user may complete any upload; the prefix of the key is all that is looked at.
CompletePresignedUpload(p, u, image, k) ==
    /\ Start(p) /\ k \in pre
    /\ Only(p, [Idle EXCEPT !.pc = "stat", !.op = "file", !.u = u, !.key = k, !.image = image])
WithinLimits(n) == n > 0 /\ n <= MaxAttach
StatObject(p) ==
    LET q == req[p]  c == obj[q.key] IN
    /\ At(p, "stat")
    /\ Only(p, IF c # Null /\ WithinLimits(c.size) THEN [q EXCEPT !.pc = "insert", !.content = c]
               ELSE Idle)
-----------------------------------------------------------------------------
(* DeleteFile, DeleteBackground                                            *)

MayAccess(u, f) == f \in LiveFiles /\ file[f].owner = u
DeleteFile(p, u, f) ==
    Start(p) /\ MayAccess(u, f) /\ Only(p, [Idle EXCEPT !.pc = "select", !.op = "file", !.f = f])
DeleteBackground(p, b) ==
    /\ Start(p) /\ bg[b].state = "live"
    /\ Only(p, [Idle EXCEPT !.pc = "object", !.op = "bg", !.key = b])
SelectFile(p) ==
    LET q == req[p] IN
    /\ At(p, "select")
    /\ Only(p, IF q.f \in LiveFiles THEN [q EXCEPT !.pc = "object", !.key = file[q.f].key] ELSE Idle)

\* A background is evicted before its row is deleted.
AfterObjectDone(q) == IF q.op = "bg" THEN [q EXCEPT !.pc = "early"] ELSE Idle
AfterObject(q) == [q EXCEPT !.pc = IF q.op = "bg" THEN "early" ELSE "row"]

DeleteObject(p) ==
    /\ At(p, "object")
    /\ obj' = [obj EXCEPT ![req[p].key] = Null]
    /\ Goto(p, AfterObject(req[p]))
    /\ UNCHANGED <<file, bg, rest, cacheVars, faults, cause>>
\* The error is not looked at.
DeleteObjectLost(p) ==
    /\ At(p, "object") /\ Fault
    /\ Because(req[p].key, "object")
    /\ Goto(p, AfterObject(req[p]))
    /\ UNCHANGED <<tables, rest, cacheVars>>

DeleteFileRow(p) ==
    LET q == req[p] IN
    /\ At(p, "row") /\ q.op = "file"
    /\ file' = [file EXCEPT ![q.f].state = "deleted"]
    /\ Goto(p, Idle)
    /\ UNCHANGED <<obj, bg, rest, cacheVars, faults, cause>>
DeleteBackgroundRow(p) ==
    LET q == req[p] IN
    /\ At(p, "row") /\ q.op = "bg"
    /\ bg' = [bg EXCEPT ![q.key] = [state |-> "deleted", active |-> 0]]
    /\ excuse' = 1
    /\ BgChanged(p, Idle, {"fill"})
    /\ UNCHANGED <<obj, file, rest, faults, cause>>
DeleteRowFails(p) ==
    /\ At(p, "row") /\ Fault
    /\ Because(req[p].key, "row")
    /\ Goto(p, Idle)
    /\ UNCHANGED <<tables, rest, cacheVars>>
-----------------------------------------------------------------------------
(* The list of backgrounds                                                 *)

\* One transaction of two UPDATEs: is_active is reset wherever the first one sees it, then
\* set for the row of the request; left is what the first one leaves of another row.
SetActiveBackground(p, b) ==
    /\ Start(p) /\ bg[b].state # "absent"
    /\ Only(p, [Idle EXCEPT !.pc = "activate", !.op = "bg", !.key = b])
Switch(p, left) ==
    LET b == req[p].key IN
    /\ At(p, "activate") /\ bg[b].state = "live"
    /\ bg' = [x \in Bgs |-> [bg[x] EXCEPT !.active = IF x = b THEN 1 ELSE IF @ = 0 THEN 0 ELSE left]]
    /\ BgChanged(p, [Idle EXCEPT !.pc = "evict"], {"fill", "activate"})
    /\ UNCHANGED <<obj, file, rest, excuse, cause>>
SetActive(p) == Switch(p, 0) /\ UNCHANGED faults
\* The error of the first UPDATE is not looked at, and where the database lets two such
\* transactions overlap (READ COMMITTED) it does not see what the other one sets.
SetActiveMisses(p) == Switch(p, 2) /\ IF req[p].late = 1 THEN UNCHANGED faults ELSE Fault
\* No such row, or an error of the second UPDATE: the transaction is rolled back.
SetActiveFails(p) == At(p, "activate") /\ Only(p, Idle)

ListBackgrounds(p) ==
    Start(p) /\ list = "none" /\ Only(p, [Idle EXCEPT !.pc = "fill"])
Fill(p) ==
    /\ At(p, "fill")
    /\ list' = (IF req[p].late = 1 THEN "stale" ELSE "fresh") /\ excuse' = req[p].late
    /\ Goto(p, Idle)
    /\ UNCHANGED <<tables, rest, faults, cause>>

AfterEvict(q) == IF q.pc = "early" THEN [q EXCEPT !.pc = "row"] ELSE Idle
EvictNot(p) ==
    /\ req[p].pc \in {"early", "evict"}
    /\ Only(p, AfterEvict(req[p])) /\ UNCHANGED started
Evict(p) ==
    /\ req[p].pc \in {"early", "evict"}
    /\ list' = "none" /\ excuse' = 0
    /\ Goto(p, AfterEvict(req[p]))
    /\ UNCHANGED <<tables, rest, faults, started, cause>>
EvictLost(p) ==
    /\ req[p].pc \in {"early", "evict"} /\ Fault
    /\ excuse' = 1
    /\ Goto(p, AfterEvict(req[p]))
    /\ UNCHANGED <<tables, rest, list, started, cause>>
Expire ==
    /\ list # "none" /\ list' = "none" /\ excuse' = 0
    /\ UNCHANGED <<tables, rest, req, faults, started, cause>>

FileNext ==
    \/ Expire
    \/ \E k \in Keys : \/ CreatePresignedUpload(k) \/ UrlExpires(k)
                       \/ \E c \in Contents : ClientPut(k, c)
    \/ \E p \in Procs :
          \/ PutObject(p) \/ PutObjectFails(p) \/ InsertBackground(p) \/ InsertFails(p)
          \/ StatObject(p) \/ SelectFile(p)
          \/ SetActive(p) \/ SetActiveMisses(p) \/ SetActiveFails(p)
          \/ DeleteObject(p) \/ DeleteObjectLost(p) \/ DeleteFileRow(p) \/ DeleteBackgroundRow(p)
          \/ DeleteRowFails(p) \/ ListBackgrounds(p) \/ Fill(p) \/ Evict(p) \/ EvictLost(p)
          \/ \E f \in Ids : InsertFile(p, f) \/ \E u \in Users : DeleteFile(p, u, f)
          \/ \E u \in Users, i \in 0..1, k \in Keys :
                CompletePresignedUpload(p, u, i, k) \/ \E c \in Contents : Upload(p, u, i, c, k)
          \/ \E b \in Bgs : \/ DeleteBackground(p, b) \/ SetActiveBackground(p, b)
                            \/ \E c \in Contents : AddBackground(p, b, c)

FileSpec == FileInit /\ [][FileNext]_fileVars
-----------------------------------------------------------------------------
(* Properties.                                                             *)

\* A handler is at work on the object k.
Busy(k) == \E p \in Procs : req[p].key = k /\ req[p].pc \in {"put", "insert", "object", "early", "row"}

\* A file or background that exists has its object, unless a deletion is under way, one
\* failed between object and row, or the key was registered for several files, one of
\* which has been deleted: fileRepo.Delete does not ask who else uses the object.
RowHasObject ==
    /\ \A f \in LiveFiles : obj[file[f].key] = Null
          => Busy(file[f].key) \/ cause[file[f].key] \cap {"row", "shared"} # {}
    /\ \A b \in Bgs : bg[b].state = "live" /\ obj[b] = Null => Busy(b) \/ "row" \in cause[b]

\* An object without a file or background stays behind only when PutObject reported an
\* error, an INSERT failed, the store did not delete it, or it came through a presigned URL: the client never
\* completed that upload, or used the URL again.
ObjectHasRow ==
    /\ \A k \in Keys : obj[k] # Null /\ RowsOf(k) = {} => Busy(k) \/ k \in pre \/ cause[k] # {}
    /\ \A b \in Bgs : obj[b] # Null /\ bg[b].state # "live" => Busy(b) \/ cause[b] # {}

\* One background at most is active (docs/design.md:946), but for those that the first
\* UPDATE of a later SetActiveBackground left active: it failed, or a switch that ran at
\* the same time had not been committed when it looked.
OneActive == \A a, b \in Bgs : bg[a].active = 1 /\ bg[b].active = 1 => a = b

\* Tables and object store belong together, and the backgrounds are switched, through
\* every order of fileRepo's and siteRepo's steps and every failure between them.
ObjectsMatchRows == FileTypeOK /\ RowHasObject /\ ObjectHasRow /\ OneActive

\* A file is what its row says: within its limit, of the recorded size and, for uploads
\* through the service, of the declared type.  After CompletePresignedUpload only
\* another PUT through the same URL changes that.
FilesAsRecorded ==
    \A f \in LiveFiles : LET r == file[f]  c == obj[r.key] IN
        /\ r.size <= IF r.key \in pre THEN MaxAttach ELSE MaxFile
        /\ c # Null => \/ "reput" \in cause[r.key]
                       \/ c.size = r.size /\ (r.key \in pre \/ VerifyMagicNumber(r.image, c))

\* site:backgrounds differs from the table only while an eviction is to come, or after
\* one that was lost or, as in DeleteBackground, came before the row was deleted, or
\* after a load that a write overtook.
ListStaleExcused == list = "stale" => excuse = 1 \/ \E p \in Procs : req[p].pc = "evict"
=============================================================================
