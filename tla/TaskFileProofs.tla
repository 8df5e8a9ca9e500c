--------------------------- MODULE TaskFileProofs ---------------------------
(***************************************************************************)
(* Proofs about work that is done in several steps with nothing to hold    *)
(* them together: the task pool and the file store.                        *)
(*                                                                         *)
(* TaskPool, for any finite numbers of tasks and callers and any numbers   *)
(* of workers, retries and queue places. The pool passes a task from hand  *)
(* to hand: queue, scheduler, inbox, worker, retry queue. A task is in one *)
(* hand at a time (Apart), so each hand-over leaves the set of tasks that  *)
(* the pool holds as it was, each acceptance adds one to it and each       *)
(* settlement takes one away, and with it one from what the WaitGroup and  *)
(* the statistics count.                                                   *)
(*                                                                         *)
(* FileStore, for any users, files, backgrounds, contents, limits and      *)
(* concurrent handlers, and any number of failing calls. Between the two   *)
(* writes of a handler, to the object store and to the database, other     *)
(* handlers and the client with its presigned URL go on: the invariant     *)
(* says for each place of a handler how far its object has come            *)
(* (Progress), that nobody else works on a key that is being brought       *)
(* (Alone), and for each row, key and background who, if anybody, will     *)
(* make the two agree.                                                     *)
(***************************************************************************)
EXTENDS TaskPool, FileStore, FiniteSetTheorems, TLAPS

\* Where tasks are: the queues, the scheduler's hand, the inboxes and the attempts.
Inbox == [w \in Workers |-> worker[w].inbox]
Trial == [w \in Workers |-> IF worker[w].pc \in {"start", "wait"} THEN worker[w].t ELSE NoTask]

Hands(Q, Y, s, I, R) ==
    /\ Q \subseteq Tasks /\ Y \subseteq Tasks /\ s \in OptTask
    /\ I \in [Workers -> OptTask] /\ R \in [Workers -> OptTask]

\* Each task is in one hand at a time.
Apart(Q, Y, s, I, R) ==
    /\ Q \cap Y = {} /\ s \notin Q \cup Y
    /\ \A w \in Workers : /\ I[w] \notin Q \cup Y /\ R[w] \notin Q \cup Y
                          /\ I[w] = s \/ R[w] = s => s = NoTask
    /\ \A v, w \in Workers : /\ I[v] = R[w] => I[v] = NoTask
                             /\ v # w /\ I[v] = I[w] => I[v] = NoTask
                             /\ v # w /\ R[v] = R[w] => R[v] = NoTask

In(Q, Y, s, I, R) ==
    {t \in Tasks : t \in Q \/ t \in Y \/ t = s \/ \E w \in Workers : I[w] = t \/ R[w] = t}

Put(F, w, t) == [F EXCEPT ![w] = t]

Separate == Apart(taskQueue, retryQueue, scheduler.t, Inbox, Trial)

Waits(w, t) == worker[w].pc = "wait" /\ worker[w].t = t
Pushes(p, t) == caller[p].pc = "push" /\ caller[p].t = t

\* The hands are full when they should be.
Handed ==
    /\ scheduler.t # NoTask => scheduler.pc = "send"
    /\ scheduler.pc = "send" => scheduler.i \in Workers /\ scheduler.t \in Tasks
    /\ \A w \in Workers : worker[w].pc \in {"start", "wait"} => worker[w].t \in Tasks

\* A task enters the pool once, through one caller, and has not run before.
Enters ==
    /\ \A p \in Callers : caller[p].pc # "idle" => caller[p].t \in Tasks
    /\ \A p \in Callers, t \in Tasks : Pushes(p, t) =>
          /\ status[t] # "new" /\ t \notin Held /\ running[t] = 0
          /\ \A q \in Callers : Pushes(q, t) => q = p
    /\ \A t \in Tasks : status[t] = "new" => t \notin Held /\ running[t] = 0

\* A function that runs belongs to the attempt that waits for it, or outlived its
\* timeout, and then the task is settled.
Attempts ==
    \A t \in Tasks :
        /\ running[t] <= 1
        /\ \A w \in Workers : Waits(w, t) => running[t] = 1
        /\ running[t] = 1 => t \notin Held \/ \E w \in Workers : Waits(w, t)

IInv == Bookkeeping /\ Separate /\ Handed /\ Enters /\ Attempts
-----------------------------------------------------------------------------
(* Hand-overs.                                                             *)

\* PushTask
LEMMA HandIn ==
    ASSUME NEW Q, NEW Y, NEW s, NEW I, NEW R, Hands(Q, Y, s, I, R), Apart(Q, Y, s, I, R),
           NEW t \in Tasks, t \notin In(Q, Y, s, I, R)
    PROVE  /\ Apart(Q \cup {t}, Y, s, I, R)
           /\ In(Q \cup {t}, Y, s, I, R) = In(Q, Y, s, I, R) \cup {t}
BY ConstantsAssumption DEF ConstantsAssumption, Hands, Apart, In

\* dispatchTasks pops the task queue, or the retry queue.
LEMMA HandOut ==
    ASSUME NEW Q, NEW Y, NEW I, NEW R, Hands(Q, Y, NoTask, I, R), Apart(Q, Y, NoTask, I, R),
           NEW t \in Q
    PROVE  /\ Apart(Q \ {t}, Y, t, I, R)
           /\ In(Q \ {t}, Y, t, I, R) = In(Q, Y, NoTask, I, R)
BY ConstantsAssumption DEF ConstantsAssumption, Hands, Apart, In

LEMMA HandOutAgain ==
    ASSUME NEW Q, NEW Y, NEW I, NEW R, Hands(Q, Y, NoTask, I, R), Apart(Q, Y, NoTask, I, R),
           NEW t \in Y
    PROVE  /\ Apart(Q, Y \ {t}, t, I, R)
           /\ In(Q, Y \ {t}, t, I, R) = In(Q, Y, NoTask, I, R)
BY ConstantsAssumption DEF ConstantsAssumption, Hands, Apart, In

\* worker.taskChan <- task
LEMMA HandOver ==
    ASSUME NEW Q, NEW Y, NEW s, NEW I, NEW R, Hands(Q, Y, s, I, R), Apart(Q, Y, s, I, R),
           NEW w \in Workers, I[w] = NoTask
    PROVE  /\ Apart(Q, Y, NoTask, Put(I, w, s), R)
           /\ In(Q, Y, NoTask, Put(I, w, s), R) = In(Q, Y, s, I, R)
BY ConstantsAssumption DEF ConstantsAssumption, Hands, Apart, In, Put

\* A worker takes the task of its inbox.
LEMMA HandTaken ==
    ASSUME NEW Q, NEW Y, NEW s, NEW I, NEW R, Hands(Q, Y, s, I, R), Apart(Q, Y, s, I, R),
           NEW w \in Workers, R[w] = NoTask
    PROVE  /\ Apart(Q, Y, s, Put(I, w, NoTask), Put(R, w, I[w]))
           /\ In(Q, Y, s, Put(I, w, NoTask), Put(R, w, I[w]))
                = In(Q, Y, s, I, R)
BY ConstantsAssumption DEF ConstantsAssumption, Hands, Apart, In, Put

\* An attempt is the last one: the task is settled.
LEMMA HandEmptied ==
    ASSUME NEW Q, NEW Y, NEW s, NEW I, NEW R, Hands(Q, Y, s, I, R), Apart(Q, Y, s, I, R),
           NEW w \in Workers, R[w] \in Tasks
    PROVE  /\ Apart(Q, Y, s, I, Put(R, w, NoTask))
           /\ In(Q, Y, s, I, Put(R, w, NoTask)) = In(Q, Y, s, I, R) \ {R[w]}
           /\ R[w] \in In(Q, Y, s, I, R)
BY ConstantsAssumption DEF ConstantsAssumption, Hands, Apart, In, Put

\* An attempt is followed by another: the task is back in the retry queue.
LEMMA HandBack ==
    ASSUME NEW Q, NEW Y, NEW s, NEW I, NEW R, Hands(Q, Y, s, I, R), Apart(Q, Y, s, I, R),
           NEW w \in Workers, R[w] \in Tasks
    PROVE  /\ Apart(Q, Y \cup {R[w]}, s, I, Put(R, w, NoTask))
           /\ In(Q, Y \cup {R[w]}, s, I, Put(R, w, NoTask)) = In(Q, Y, s, I, R)
BY ConstantsAssumption DEF ConstantsAssumption, Hands, Apart, In, Put
-----------------------------------------------------------------------------
(* The pool's state as hands.                                              *)

Worker == [pc: {"select", "start", "wait", "finish", "exited"},
           busy: BOOLEAN, t: OptTask, inbox: OptTask]

\* Workers at their deferred Done.
Finishing == {w \in Workers : worker[w].pc = "finish"}

LEMMA HandsNow ==
    ASSUME PoolTypeOK
    PROVE  /\ Hands(taskQueue, retryQueue, scheduler.t, Inbox, Trial)
           /\ worker \in [Workers -> Worker]
BY DEF PoolTypeOK, Hands, Inbox, Trial, Worker, OptTask

LEMMA HeldIs ==
    ASSUME Hands(taskQueue, retryQueue, scheduler.t, Inbox, Trial)
    PROVE  Held = In(taskQueue, retryQueue, scheduler.t, Inbox, Trial)
<1>1. \A w \in Workers : Inbox[w] \in OptTask /\ Trial[w] \in OptTask
    BY DEF Hands
<1>2. \A w \in Workers : InWorker(w) \ {NoTask} = {Inbox[w], Trial[w]} \ {NoTask}
    BY DEF InWorker, Inbox, Trial
<1>3. \A t \in Tasks : t # NoTask
    BY ConstantsAssumption DEF ConstantsAssumption
<1>4. ASSUME NEW t PROVE t \in Held <=> t \in In(taskQueue, retryQueue, scheduler.t, Inbox, Trial)
    <2>1. t \in Held <=> /\ t # NoTask
                         /\ \/ t \in taskQueue \/ t \in retryQueue \/ t = scheduler.t
                            \/ \E w \in Workers : t \in InWorker(w)
        BY DEF Held
    <2>2. t # NoTask => \A w \in Workers : t \in InWorker(w) <=> t = Inbox[w] \/ t = Trial[w]
        BY <1>2
    <2> QED
        BY <1>1, <1>3, <2>1, <2>2 DEF In, Hands, OptTask
<1> QED
    BY <1>4

LEMMA HeldIsNext ==
    ASSUME Hands(taskQueue, retryQueue, scheduler.t, Inbox, Trial)'
    PROVE  Held' = In(taskQueue', retryQueue', scheduler.t', Inbox', Trial')
<1>1. \A w \in Workers : Inbox'[w] \in OptTask /\ Trial'[w] \in OptTask
    BY DEF Hands
<1>2. \A w \in Workers : InWorker(w)' \ {NoTask} = {Inbox'[w], Trial'[w]} \ {NoTask}
    BY DEF InWorker, Inbox, Trial
<1>3. \A t \in Tasks : t # NoTask
    BY ConstantsAssumption DEF ConstantsAssumption
<1>4. ASSUME NEW t
      PROVE  t \in Held' <=> t \in In(taskQueue', retryQueue', scheduler.t', Inbox', Trial')
    <2>1. t \in Held' <=> /\ t # NoTask
                          /\ \/ t \in taskQueue' \/ t \in retryQueue' \/ t = scheduler'.t
                             \/ \E w \in Workers : t \in InWorker(w)'
        BY DEF Held
    <2>2. t # NoTask => \A w \in Workers : t \in InWorker(w)' <=> t = Inbox'[w] \/ t = Trial'[w]
        BY <1>2
    <2> QED
        BY <1>1, <1>3, <2>1, <2>2 DEF In, Hands, OptTask
<1> QED
    BY <1>4

LEMMA Finite ==
    ASSUME PoolTypeOK
    PROVE  IsFiniteSet(Workers) /\ IsFiniteSet(Tasks) /\ Held \subseteq Tasks
<1>1. IsFiniteSet(Workers) /\ IsFiniteSet(Tasks)
    BY ConstantsAssumption, FS_Interval DEF ConstantsAssumption, Workers
<1>2. Held \subseteq Tasks
    BY HandsNow, HeldIs DEF In
<1> QED
    BY <1>1, <1>2

\* What a step does to a worker's record.
LEMMA WorkerEffects ==
    ASSUME PoolTypeOK, NEW w \in Workers
    PROVE  /\ Take(w) => /\ worker'[w].pc = "start" /\ worker'[w].t = worker[w].inbox
                         /\ worker'[w].inbox = NoTask /\ worker'[w] \in Worker
           /\ WorkerExits(w) => /\ worker'[w].pc = "exited" /\ worker'[w].t = worker[w].t
                                /\ worker'[w].inbox = worker[w].inbox /\ worker'[w] \in Worker
           /\ Execute(w) => /\ worker'[w].pc = "wait" /\ worker'[w].t = worker[w].t
                            /\ worker'[w].inbox = worker[w].inbox /\ worker'[w] \in Worker
           /\ Ends(w) => /\ worker'[w].pc = "finish" /\ worker'[w].t = worker[w].t
                         /\ worker'[w].inbox = worker[w].inbox /\ worker'[w] \in Worker
           /\ Finish(w) => /\ worker'[w].pc = "select" /\ worker'[w].t = NoTask
                           /\ worker'[w].inbox = worker[w].inbox /\ worker'[w] \in Worker
           /\ Take(w) \/ WorkerExits(w) \/ Execute(w) \/ Ends(w) \/ Finish(w)
                => /\ worker' \in [Workers -> Worker]
                   /\ \A v \in Workers \ {w} : worker'[v] = worker[v]
<1>1. worker \in [Workers -> Worker] /\ worker[w] \in Worker
    BY HandsNow
<1>2. ASSUME Take(w)
      PROVE  /\ worker'[w].pc = "start" /\ worker'[w].t = worker[w].inbox
             /\ worker'[w].inbox = NoTask /\ worker'[w] \in Worker
             /\ worker' \in [Workers -> Worker] /\ \A v \in Workers \ {w} : worker'[v] = worker[v]
    BY <1>1, <1>2 DEF Take, Worker, OptTask
<1>3. ASSUME WorkerExits(w)
      PROVE  /\ worker'[w].pc = "exited" /\ worker'[w].t = worker[w].t
             /\ worker'[w].inbox = worker[w].inbox /\ worker'[w] \in Worker
             /\ worker' \in [Workers -> Worker] /\ \A v \in Workers \ {w} : worker'[v] = worker[v]
    BY <1>1, <1>3 DEF WorkerExits, Worker
<1>4. ASSUME Execute(w)
      PROVE  /\ worker'[w].pc = "wait" /\ worker'[w].t = worker[w].t
             /\ worker'[w].inbox = worker[w].inbox /\ worker'[w] \in Worker
             /\ worker' \in [Workers -> Worker] /\ \A v \in Workers \ {w} : worker'[v] = worker[v]
    BY <1>1, <1>4 DEF Execute, Worker
<1>5. ASSUME Ends(w)
      PROVE  /\ worker'[w].pc = "finish" /\ worker'[w].t = worker[w].t
             /\ worker'[w].inbox = worker[w].inbox /\ worker'[w] \in Worker
             /\ worker' \in [Workers -> Worker] /\ \A v \in Workers \ {w} : worker'[v] = worker[v]
    BY <1>1, <1>5 DEF Ends, Worker
<1>6. ASSUME Finish(w)
      PROVE  /\ worker'[w].pc = "select" /\ worker'[w].t = NoTask
             /\ worker'[w].inbox = worker[w].inbox /\ worker'[w] \in Worker
             /\ worker' \in [Workers -> Worker] /\ \A v \in Workers \ {w} : worker'[v] = worker[v]
    BY <1>1, <1>6 DEF Finish, Worker, OptTask
<1> QED
    BY <1>2, <1>3, <1>4, <1>5, <1>6

\* One task enters or leaves the pool; one worker comes to its Done or leaves it.
LEMMA OneTask ==
    ASSUME PoolTypeOK, NEW t \in Tasks
    PROVE  /\ Cardinality(Held) \in Nat
           /\ t \notin Held /\ Held' = Held \cup {t} => Cardinality(Held') = Cardinality(Held) + 1
           /\ t \in Held /\ Held' = Held \ {t} => Cardinality(Held') = Cardinality(Held) - 1
<1>1. IsFiniteSet(Held)
    BY Finite, FS_Subset
<1> QED
    BY <1>1, FS_CardinalityType, FS_AddElement, FS_RemoveElement

LEMMA OneWorker ==
    ASSUME PoolTypeOK, NEW w \in Workers, \A v \in Workers \ {w} : worker'[v].pc = worker[v].pc
    PROVE  /\ Cardinality(Finishing) \in Nat
           /\ worker[w].pc # "finish" /\ worker'[w].pc = "finish"
                => Cardinality(Finishing') = Cardinality(Finishing) + 1
           /\ worker[w].pc = "finish" /\ worker'[w].pc # "finish"
                => Cardinality(Finishing') = Cardinality(Finishing) - 1
           /\ worker[w].pc # "finish" /\ worker'[w].pc # "finish" => Finishing' = Finishing
<1>1. IsFiniteSet(Finishing)
    BY Finite, FS_Subset DEF Finishing
<1>2. ASSUME worker[w].pc # "finish", worker'[w].pc = "finish"
      PROVE  Cardinality(Finishing') = Cardinality(Finishing) + 1
    <2>1. w \notin Finishing /\ Finishing' = Finishing \cup {w}
        BY <1>2 DEF Finishing
    <2> QED
        BY <1>1, <2>1, FS_AddElement
<1>3. ASSUME worker[w].pc = "finish", worker'[w].pc # "finish"
      PROVE  Cardinality(Finishing') = Cardinality(Finishing) - 1
    <2>1. w \in Finishing /\ Finishing' = Finishing \ {w}
        BY <1>3 DEF Finishing
    <2> QED
        BY <1>1, <2>1, FS_RemoveElement
<1>4. ASSUME worker[w].pc # "finish", worker'[w].pc # "finish"
      PROVE  Finishing' = Finishing
    BY <1>4 DEF Finishing
<1> QED
    BY <1>1, <1>2, <1>3, <1>4, FS_CardinalityType

LEMMA Books ==
    /\ WaitGroupExact <=> wg = Cardinality(Held) + Cardinality(Finishing)
    /\ WaitGroupExact' <=> wg' = Cardinality(Held') + Cardinality(Finishing')
BY DEF WaitGroupExact, Finishing

\* A step that leaves every task where it is.
LEMMA NothingMoves ==
    ASSUME IInv, UNCHANGED <<taskQueue, retryQueue>>, scheduler'.t = scheduler.t,
           Inbox' = Inbox, Trial' = Trial
    PROVE  Separate' /\ Held' = Held
<1>1. PoolTypeOK /\ Separate
    BY DEF IInv, Bookkeeping
<1>2. Hands(taskQueue, retryQueue, scheduler.t, Inbox, Trial)
    BY <1>1, HandsNow
<1>3. Hands(taskQueue, retryQueue, scheduler.t, Inbox, Trial)'
    BY <1>2 DEF Hands
<1> QED
    BY <1>1, <1>2, <1>3, HeldIs, HeldIsNext DEF Separate
-----------------------------------------------------------------------------
(* Callers and Stop.                                                       *)

LEMMA CallersKeep ==
    ASSUME IInv, NEW p \in Callers, NEW t \in Tasks,
           Submit(p, t) \/ CancelTask(p, t) \/ CancelWrite(p)
    PROVE  IInv'
<1>1. UNCHANGED <<retryCount, pool, shutdown, scheduler, worker, stopper, running>>
    BY DEF Submit, CancelTask, CancelWrite
<1>2. Separate' /\ Held' = Held /\ Finishing' = Finishing
    BY <1>1, NothingMoves DEF pool, Inbox, Trial, Finishing
<1>3. PoolTypeOK /\ WaitGroupExact /\ StatsAddUp /\ Handed /\ Enters /\ Attempts
    BY DEF IInv, Bookkeeping
<1>4. WaitGroupExact' /\ StatsAddUp'
    BY <1>1, <1>2, <1>3, Books DEF StatsAddUp, pool
<1>5. Handed' /\ Attempts'
    BY <1>1, <1>2, <1>3 DEF Handed, Attempts, Waits
<1>6. /\ status' \in [Tasks -> {"new", "pending", "running", "success", "failed", "cancelled"}]
      /\ caller' \in [Callers -> [pc: {"idle", "push", "cancel"}, t: OptTask]]
    <2>1. /\ status \in [Tasks -> {"new", "pending", "running", "success", "failed", "cancelled"}]
          /\ caller \in [Callers -> [pc: {"idle", "push", "cancel"}, t: OptTask]]
          /\ t \in OptTask /\ NoTask \in OptTask
        BY <1>3 DEF PoolTypeOK, OptTask
    <2>2. CASE Submit(p, t)
        BY <2>1, <2>2 DEF Submit, IdleCaller
    <2>3. CASE CancelTask(p, t)
        BY <2>1, <2>3 DEF CancelTask
    <2>4. CASE CancelWrite(p)
        BY <2>1, <2>4 DEF CancelWrite, IdleCaller
    <2> QED
        BY <2>2, <2>3, <2>4
<1>7. PoolTypeOK'
    BY <1>1, <1>3, <1>6 DEF PoolTypeOK, pool
<1>8. Enters'
    <2>1. CASE Submit(p, t)
        <3>1. /\ status[t] = "new" /\ status' = [status EXCEPT ![t] = "pending"]
              /\ caller' = [caller EXCEPT ![p] = IF shutdown THEN IdleCaller
                                                 ELSE [pc |-> "push", t |-> t]]
            BY <2>1 DEF Submit
        <3>2. \A q \in Callers : ~Pushes(q, t)
            BY <1>3, <3>1 DEF Enters
        <3>3. \A q \in Callers \ {p} : caller'[q] = caller[q]
            BY <1>3, <3>1 DEF PoolTypeOK
        <3>4. /\ caller'[p].pc # "idle" => caller'[p].t = t
              /\ \A u \in Tasks : Pushes(p, u)' => u = t
            BY <1>3, <3>1 DEF PoolTypeOK, IdleCaller, Pushes
        <3>5. t \notin Held /\ running[t] = 0
            BY <1>3, <3>1 DEF Enters
        <3>6. status'[t] = "pending" /\ \A u \in Tasks \ {t} : status'[u] = status[u]
            BY <1>3, <3>1 DEF PoolTypeOK
        <3>7. \A q \in Callers \ {p}, u \in Tasks : Pushes(q, u)' <=> Pushes(q, u)
            BY <3>3 DEF Pushes
        <3>8. \A q \in Callers : caller'[q].pc # "idle" => caller'[q].t \in Tasks
            BY <1>3, <3>3, <3>4 DEF Enters
        <3>9. ASSUME NEW q \in Callers, NEW u \in Tasks, Pushes(q, u)'
              PROVE  /\ status'[u] # "new" /\ u \notin Held /\ running[u] = 0
                     /\ \A r \in Callers : Pushes(r, u)' => r = q
            <4>1. CASE q = p
                BY <3>2, <3>4, <3>5, <3>6, <3>7, <3>9, <4>1
            <4>2. CASE q # p
                <5>1. Pushes(q, u) /\ u # t
                    BY <3>2, <3>7, <3>9, <4>2
                <5>2. /\ status[u] # "new" /\ u \notin Held /\ running[u] = 0
                      /\ \A r \in Callers : Pushes(r, u) => r = q
                    BY <1>3, <5>1 DEF Enters
                <5> QED
                    BY <3>4, <3>6, <3>7, <5>1, <5>2
            <4> QED
                BY <4>1, <4>2
        <3>10. \A u \in Tasks : status'[u] = "new" => u \notin Held /\ running[u] = 0
            BY <1>3, <3>6 DEF Enters
        <3> QED
            BY <1>1, <1>2, <3>8, <3>9, <3>10 DEF Enters
    <2>2. CASE CancelTask(p, t) \/ CancelWrite(p)
        <3>1. /\ \A u \in Tasks : status'[u] = "new" => status[u] = "new"
              /\ \A u \in Tasks : status'[u] = status[u] \/ status'[u] = "cancelled"
            BY <1>3, <2>2 DEF PoolTypeOK, CancelTask, CancelWrite
        <3>2. /\ caller'[p].pc # "push" /\ (caller'[p].pc # "idle" => caller'[p].t \in Tasks)
              /\ \A q \in Callers \ {p} : caller'[q] = caller[q]
            BY <1>3, <2>2 DEF PoolTypeOK, CancelTask, CancelWrite, IdleCaller
        <3>3. \A q \in Callers, u \in Tasks : Pushes(q, u)' => Pushes(q, u)
            BY <3>2 DEF Pushes
        <3> QED
            BY <1>1, <1>2, <1>3, <3>1, <3>2, <3>3 DEF Enters
    <2> QED
        BY <2>1, <2>2
<1> QED
    BY <1>2, <1>4, <1>5, <1>7, <1>8 DEF IInv, Bookkeeping

LEMMA PushTaskKeeps ==
    ASSUME IInv, NEW p \in Callers, PushTask(p)
    PROVE  IInv'
<1>1. PoolTypeOK /\ Separate /\ WaitGroupExact /\ StatsAddUp /\ Handed /\ Enters /\ Attempts
    BY DEF IInv, Bookkeeping
<1>2. PICK t \in Tasks : t = caller[p].t /\ Pushes(p, t)
    BY <1>1 DEF PushTask, Enters, Pushes
<1>3. /\ status[t] # "new" /\ t \notin Held /\ running[t] = 0
      /\ \A q \in Callers : Pushes(q, t) => q = p
    BY <1>1, <1>2 DEF Enters
<1>4. /\ wg' = wg + 1 /\ stats' = [stats EXCEPT !.total = @ + 1]
      /\ taskQueue' = taskQueue \cup {t} /\ caller' = [caller EXCEPT ![p] = IdleCaller]
      /\ UNCHANGED <<status, retryCount, retryQueue, shutdown, scheduler, worker, stopper, running>>
    BY <1>2 DEF PushTask
<1>5. Hands(taskQueue, retryQueue, scheduler.t, Inbox, Trial)
    BY <1>1, HandsNow
<1>6. Held = In(taskQueue, retryQueue, scheduler.t, Inbox, Trial)
    BY <1>5, HeldIs
<1>7. Inbox' = Inbox /\ Trial' = Trial /\ Finishing' = Finishing
    BY <1>4 DEF Inbox, Trial, Finishing
<1>8. Hands(taskQueue, retryQueue, scheduler.t, Inbox, Trial)'
    BY <1>4, <1>5, <1>7 DEF Hands
<1>9. Separate' /\ Held' = Held \cup {t}
    BY <1>1, <1>3, <1>4, <1>5, <1>6, <1>7, <1>8, HandIn, HeldIsNext DEF Separate
<1>10. Cardinality(Held') = Cardinality(Held) + 1 /\ Cardinality(Held) \in Nat
    BY <1>1, <1>3, <1>9, OneTask
<1>11. WaitGroupExact'
    <2>1. Cardinality(Finishing) \in Nat
        BY <1>1, Finite, FS_Subset, FS_CardinalityType DEF Finishing
    <2> QED
        BY <1>1, <1>4, <1>7, <1>10, <2>1, Books
<1>12. stats' \in [total: Nat, ended: Nat] /\ stats'.total = stats.total + 1 /\ stats'.ended = stats.ended
    BY <1>1, <1>4 DEF PoolTypeOK
<1>13. StatsAddUp'
    <2>1. stats.ended \in Nat
        BY <1>1 DEF PoolTypeOK
    <2> QED
        BY <1>1, <1>10, <1>12, <2>1 DEF StatsAddUp
<1>14. caller'[p].pc = "idle" /\ \A q \in Callers \ {p} : caller'[q] = caller[q]
    BY <1>1, <1>4 DEF PoolTypeOK, IdleCaller
<1>15. PoolTypeOK'
    <2>1. caller' \in [Callers -> [pc: {"idle", "push", "cancel"}, t: OptTask]]
        BY <1>1, <1>4 DEF PoolTypeOK, IdleCaller, OptTask
    <2>2. wg' \in Nat /\ taskQueue' \subseteq Tasks
        BY <1>1, <1>4 DEF PoolTypeOK
    <2> QED
        BY <1>1, <1>4, <1>12, <2>1, <2>2 DEF PoolTypeOK
<1>16. Handed'
    BY <1>1, <1>4 DEF Handed
<1>17. Attempts'
    BY <1>1, <1>3, <1>4, <1>9 DEF Attempts, Waits
<1>18. \A q \in Callers, u \in Tasks : Pushes(q, u)' => Pushes(q, u) /\ u # t
    BY <1>3, <1>14 DEF Pushes
<1>19. Enters'
    BY <1>1, <1>3, <1>4, <1>9, <1>14, <1>18 DEF Enters
<1> QED
    BY <1>9, <1>11, <1>13, <1>15, <1>16, <1>17, <1>19 DEF IInv, Bookkeeping

LEMMA StopKeeps ==
    ASSUME IInv, Stop \/ Wait
    PROVE  IInv'
<1>1. UNCHANGED <<status, retryCount, taskQueue, retryQueue, wg, stats, scheduler, worker, caller, running>>
    BY DEF Stop, Wait, pool
<1>2. Separate' /\ Held' = Held /\ Finishing' = Finishing
    BY <1>1, NothingMoves DEF Inbox, Trial, Finishing
<1>3. PoolTypeOK /\ WaitGroupExact /\ StatsAddUp /\ Handed /\ Enters /\ Attempts
    BY DEF IInv, Bookkeeping
<1>4. WaitGroupExact' /\ StatsAddUp' /\ Handed' /\ Attempts' /\ Enters'
    BY <1>1, <1>2, <1>3, Books DEF StatsAddUp, Handed, Attempts, Enters, Waits, Pushes
<1>5. PoolTypeOK'
    BY <1>1, <1>3 DEF PoolTypeOK, Stop, Wait
<1> QED
    BY <1>2, <1>4, <1>5 DEF IInv, Bookkeeping
-----------------------------------------------------------------------------
(* The scheduler.                                                          *)

\* A hand-over: no task is taken in or settled, and nobody starts or ends an attempt.
LEMMA HandOverKeeps ==
    ASSUME IInv, PoolTypeOK', Separate', Handed', Held' = Held,
           UNCHANGED <<status, wg, stats, caller, running>>, Finishing' = Finishing,
           \A w \in Workers, t \in Tasks : Waits(w, t)' <=> Waits(w, t)
    PROVE  IInv'
<1>1. WaitGroupExact /\ StatsAddUp /\ Enters /\ Attempts
    BY DEF IInv, Bookkeeping
<1>2. WaitGroupExact' /\ StatsAddUp'
    BY <1>1, Books DEF StatsAddUp
<1>3. Enters'
    BY <1>1 DEF Enters, Pushes
<1>4. Attempts'
    BY <1>1 DEF Attempts
<1> QED
    BY <1>2, <1>3, <1>4 DEF IInv, Bookkeeping

Scheduler == [pc: {"visit", "send", "exited"}, i: 1..(WorkerCount + 1), t: OptTask]

LEMMA VisitKeeps ==
    ASSUME IInv, Visit
    PROVE  IInv'
<1> DEFINE i == scheduler.i
<1>1. PoolTypeOK /\ Separate /\ Handed
    BY DEF IInv, Bookkeeping
<1>2. /\ UNCHANGED <<status, retryCount, wg, stats, shutdown, worker, caller, stopper, running>>
      /\ scheduler.pc = "visit"
    BY DEF Visit
<1>3. /\ Inbox' = Inbox /\ Trial' = Trial /\ Finishing' = Finishing
      /\ \A w \in Workers, t \in Tasks : Waits(w, t)' <=> Waits(w, t)
    BY <1>2 DEF Inbox, Trial, Finishing, Waits
<1>4. /\ scheduler \in Scheduler /\ scheduler.t = NoTask /\ i \in Nat /\ NoTask \notin Tasks
      /\ WorkerCount \in Nat \ {0} /\ NoTask \in OptTask /\ Tasks \subseteq OptTask
    BY <1>1, <1>2, ConstantsAssumption DEF ConstantsAssumption, PoolTypeOK, Handed, Scheduler, OptTask
<1>5. /\ Hands(taskQueue, retryQueue, NoTask, Inbox, Trial)
      /\ Held = In(taskQueue, retryQueue, NoTask, Inbox, Trial)
      /\ Apart(taskQueue, retryQueue, NoTask, Inbox, Trial)
    BY <1>1, <1>4, HandsNow, HeldIs DEF Separate
<1>6. CASE UNCHANGED <<taskQueue, retryQueue>> /\ scheduler' = Rest
    <2>1. scheduler' \in Scheduler /\ scheduler'.t = NoTask /\ scheduler'.pc = "visit"
        BY <1>4, <1>6 DEF Rest, Scheduler
    <2>2. PoolTypeOK' /\ Handed'
        BY <1>1, <1>2, <1>4, <1>6, <2>1 DEF PoolTypeOK, Scheduler, Handed
    <2> QED
        BY <1>2, <1>3, <1>4, <1>6, <2>1, <2>2, NothingMoves, HandOverKeeps
<1>7. CASE /\ UNCHANGED <<taskQueue, retryQueue>> /\ i \in Workers
           /\ scheduler' = [scheduler EXCEPT !.i = i + 1]
    <2>1. scheduler' \in Scheduler /\ scheduler'.t = NoTask /\ scheduler'.pc = "visit"
        BY <1>2, <1>4, <1>7 DEF Workers, Scheduler
    <2>2. PoolTypeOK' /\ Handed'
        BY <1>1, <1>2, <1>4, <1>7, <2>1 DEF PoolTypeOK, Scheduler, Handed
    <2> QED
        BY <1>2, <1>3, <1>4, <1>7, <2>1, <2>2, NothingMoves, HandOverKeeps
<1>8. ASSUME i \in Workers, NEW t \in Firsts(NextQueue),
             scheduler' = [pc |-> "send", i |-> i, t |-> t],
             taskQueue' = IF NextQueue = taskQueue THEN taskQueue \ {t} ELSE taskQueue,
             retryQueue' = IF NextQueue = taskQueue THEN retryQueue ELSE retryQueue \ {t}
      PROVE  IInv'
    <2>1. t \in Tasks /\ taskQueue \subseteq Tasks /\ retryQueue \subseteq Tasks
        BY <1>1, <1>8 DEF Firsts, NextQueue, PoolTypeOK
    <2>2. \/ t \in taskQueue /\ taskQueue' = taskQueue \ {t} /\ retryQueue' = retryQueue
          \/ t \in retryQueue /\ taskQueue' = taskQueue /\ retryQueue' = retryQueue \ {t}
        BY <1>8 DEF Firsts, NextQueue
    <2>3. /\ scheduler' \in Scheduler /\ scheduler'.t = t /\ scheduler'.pc = "send"
          /\ scheduler'.i \in Workers
        BY <1>4, <1>8, <2>1 DEF Scheduler, Workers
    <2>4. PoolTypeOK' /\ Handed'
        BY <1>1, <1>2, <1>4, <2>1, <2>2, <2>3 DEF PoolTypeOK, Scheduler, Handed
    <2>5. /\ Apart(taskQueue', retryQueue', t, Inbox, Trial)
          /\ In(taskQueue', retryQueue', t, Inbox, Trial) = Held
        <3>1. CASE t \in taskQueue /\ taskQueue' = taskQueue \ {t} /\ retryQueue' = retryQueue
            <4>1. t \in taskQueue
                BY <3>1
            <4>2. /\ Apart(taskQueue \ {t}, retryQueue, t, Inbox, Trial)
                  /\ In(taskQueue \ {t}, retryQueue, t, Inbox, Trial)
                       = In(taskQueue, retryQueue, NoTask, Inbox, Trial)
                BY <1>5, <4>1, HandOut, SMTT(30)
            <4> QED
                BY <1>5, <3>1, <4>2
        <3>2. CASE t \in retryQueue /\ taskQueue' = taskQueue /\ retryQueue' = retryQueue \ {t}
            <4>1. t \in retryQueue
                BY <3>2
            <4>2. /\ Apart(taskQueue, retryQueue \ {t}, t, Inbox, Trial)
                  /\ In(taskQueue, retryQueue \ {t}, t, Inbox, Trial)
                       = In(taskQueue, retryQueue, NoTask, Inbox, Trial)
                BY <1>5, <4>1, HandOutAgain, SMTT(30)
            <4> QED
                BY <1>5, <3>2, <4>2
        <3> QED
            BY <2>2, <3>1, <3>2
    <2>6. Hands(taskQueue, retryQueue, scheduler.t, Inbox, Trial)'
        BY <1>3, <1>4, <1>5, <2>1, <2>2, <2>3 DEF Hands
    <2>7. Separate' /\ Held' = Held
        BY <1>3, <2>3, <2>5, <2>6, HeldIsNext DEF Separate
    <2> QED
        BY <1>2, <1>3, <2>4, <2>7, HandOverKeeps
<1>9. \/ UNCHANGED <<taskQueue, retryQueue>> /\ scheduler' = Rest
      \/ /\ UNCHANGED <<taskQueue, retryQueue>> /\ i \in Workers
         /\ scheduler' = [scheduler EXCEPT !.i = i + 1]
      \/ /\ i \in Workers
         /\ \E t \in Firsts(NextQueue) :
              /\ scheduler' = [pc |-> "send", i |-> i, t |-> t]
              /\ taskQueue' = IF NextQueue = taskQueue THEN taskQueue \ {t} ELSE taskQueue
              /\ retryQueue' = IF NextQueue = taskQueue THEN retryQueue ELSE retryQueue \ {t}
    BY DEF Visit
<1> QED
    BY <1>6, <1>7, <1>8, <1>9

LEMMA SchedulerExitsKeeps ==
    ASSUME IInv, SchedulerExits
    PROVE  IInv'
<1>1. PoolTypeOK /\ Handed
    BY DEF IInv, Bookkeeping
<1>2. /\ UNCHANGED <<status, retryCount, pool, shutdown, worker, caller, stopper, running>>
      /\ scheduler = Rest /\ scheduler' = [scheduler EXCEPT !.pc = "exited"]
    BY DEF SchedulerExits
<1>3. scheduler \in Scheduler
    BY <1>1 DEF PoolTypeOK, Scheduler
<1>4. scheduler' \in Scheduler /\ scheduler'.t = scheduler.t /\ scheduler'.pc = "exited" /\ scheduler.t = NoTask
    BY <1>2, <1>3 DEF Rest, Scheduler
<1>5. PoolTypeOK' /\ Handed'
    BY <1>1, <1>2, <1>4 DEF PoolTypeOK, Scheduler, Handed, pool
<1>6. /\ Inbox' = Inbox /\ Trial' = Trial /\ Finishing' = Finishing
      /\ \A w \in Workers, t \in Tasks : Waits(w, t)' <=> Waits(w, t)
    BY <1>2 DEF Inbox, Trial, Finishing, Waits
<1> QED
    BY <1>2, <1>4, <1>5, <1>6, NothingMoves, HandOverKeeps DEF pool

LEMMA SendKeeps ==
    ASSUME IInv, Send
    PROVE  IInv'
<1>1. PoolTypeOK /\ Separate /\ Handed
    BY DEF IInv, Bookkeeping
<1>2. PICK i \in Workers, t \in Tasks : i = scheduler.i /\ t = scheduler.t
    BY <1>1 DEF Send, Handed
<1>3. /\ worker[i].inbox = NoTask /\ worker' = [worker EXCEPT ![i].inbox = t]
      /\ scheduler' = [pc |-> "visit", i |-> i + 1, t |-> NoTask]
      /\ UNCHANGED <<status, retryCount, pool, shutdown, caller, stopper, running>>
    BY <1>2 DEF Send
<1>4. worker \in [Workers -> Worker] /\ t \in OptTask /\ NoTask \in OptTask
    BY <1>1, HandsNow DEF OptTask
<1>5. /\ worker' \in [Workers -> Worker]
      /\ worker'[i].inbox = t /\ worker'[i].pc = worker[i].pc /\ worker'[i].t = worker[i].t
      /\ \A w \in Workers \ {i} : worker'[w] = worker[w]
    BY <1>3, <1>4 DEF Worker
<1>6. scheduler' \in Scheduler /\ scheduler'.t = NoTask /\ scheduler'.pc = "visit"
    BY <1>2, <1>3, <1>4, ConstantsAssumption DEF ConstantsAssumption, Workers, Scheduler
<1>7. /\ Inbox' = Put(Inbox, i, t) /\ Trial' = Trial /\ Finishing' = Finishing
      /\ Inbox[i] = NoTask
      /\ \A w \in Workers, u \in Tasks : Waits(w, u)' <=> Waits(w, u)
    BY <1>3, <1>5 DEF Inbox, Trial, Finishing, Waits, Put
<1>8. PoolTypeOK' /\ Handed'
    BY <1>1, <1>3, <1>5, <1>6 DEF PoolTypeOK, Worker, Scheduler, Handed, pool
<1>9. /\ Hands(taskQueue, retryQueue, t, Inbox, Trial)
      /\ Held = In(taskQueue, retryQueue, t, Inbox, Trial)
      /\ Apart(taskQueue, retryQueue, t, Inbox, Trial)
    BY <1>1, <1>2, HandsNow, HeldIs DEF Separate
<1>10. /\ Apart(taskQueue, retryQueue, NoTask, Inbox', Trial)
       /\ In(taskQueue, retryQueue, NoTask, Inbox', Trial) = Held
    <2>1. /\ Apart(taskQueue, retryQueue, NoTask, Put(Inbox, i, t), Trial)
          /\ In(taskQueue, retryQueue, NoTask, Put(Inbox, i, t), Trial) = Held
        BY <1>7, <1>9, HandOver
    <2> QED
        BY <1>7, <2>1
<1>11. Hands(taskQueue, retryQueue, scheduler.t, Inbox, Trial)'
    BY <1>3, <1>4, <1>6, <1>7, <1>9 DEF Hands, pool, Put
<1>12. Separate' /\ Held' = Held
    BY <1>3, <1>6, <1>7, <1>10, <1>11, HeldIsNext DEF Separate, pool
<1> QED
    BY <1>3, <1>7, <1>8, <1>12, HandOverKeeps DEF pool
-----------------------------------------------------------------------------
(* Workers.                                                                *)

LEMMA TakeKeeps ==
    ASSUME IInv, NEW w \in Workers, Take(w)
    PROVE  IInv'
<1>1. PoolTypeOK /\ Separate /\ Handed
    BY DEF IInv, Bookkeeping
<1>2. /\ worker[w].pc = "select" /\ worker[w].inbox # NoTask
      /\ UNCHANGED <<status, retryCount, pool, shutdown, scheduler, caller, stopper, running>>
    BY DEF Take
<1>3. /\ worker'[w].pc = "start" /\ worker'[w].t = worker[w].inbox /\ worker'[w].inbox = NoTask
      /\ worker' \in [Workers -> Worker] /\ \A v \in Workers \ {w} : worker'[v] = worker[v]
    BY <1>1, WorkerEffects
<1>4. worker[w].inbox \in Tasks
    BY <1>1, <1>2, HandsNow DEF Worker, OptTask
<1>5. /\ Inbox' = Put(Inbox, w, NoTask) /\ Trial' = Put(Trial, w, Inbox[w])
      /\ Trial[w] = NoTask
    BY <1>2, <1>3 DEF Inbox, Trial, Put
<1>6. /\ Finishing' = Finishing
      /\ \A v \in Workers, u \in Tasks : Waits(v, u)' <=> Waits(v, u)
    BY <1>2, <1>3 DEF Finishing, Waits
<1>7. PoolTypeOK' /\ Handed'
    BY <1>1, <1>2, <1>3, <1>4 DEF PoolTypeOK, Worker, Handed, pool
<1>8. /\ Hands(taskQueue, retryQueue, scheduler.t, Inbox, Trial)
      /\ Held = In(taskQueue, retryQueue, scheduler.t, Inbox, Trial)
      /\ Apart(taskQueue, retryQueue, scheduler.t, Inbox, Trial)
    BY <1>1, HandsNow, HeldIs DEF Separate
<1>9. /\ Apart(taskQueue, retryQueue, scheduler.t, Put(Inbox, w, NoTask),
               Put(Trial, w, Inbox[w]))
      /\ In(taskQueue, retryQueue, scheduler.t, Put(Inbox, w, NoTask),
            Put(Trial, w, Inbox[w]))
           = In(taskQueue, retryQueue, scheduler.t, Inbox, Trial)
    <2>1. Trial[w] = NoTask
        BY <1>5
    <2> QED
        BY <1>8, <2>1, HandTaken
<1>10. Hands(taskQueue, retryQueue, scheduler.t, Inbox, Trial)'
    BY <1>2, <1>5, <1>8 DEF Hands, pool, OptTask, Put
<1>11. Held' = In(taskQueue', retryQueue', scheduler.t', Inbox', Trial')
    BY <1>10, HeldIsNext
<1>12. Separate' /\ Held' = Held
    BY <1>2, <1>5, <1>8, <1>9, <1>11 DEF Separate, pool
<1> QED
    BY <1>2, <1>6, <1>7, <1>12, HandOverKeeps DEF pool

LEMMA WorkerExitsKeeps ==
    ASSUME IInv, NEW w \in Workers, WorkerExits(w)
    PROVE  IInv'
<1>1. PoolTypeOK /\ Handed
    BY DEF IInv, Bookkeeping
<1>2. /\ worker[w].pc = "select"
      /\ UNCHANGED <<status, retryCount, pool, shutdown, scheduler, caller, stopper, running>>
    BY DEF WorkerExits
<1>3. /\ worker'[w].pc = "exited" /\ worker'[w].inbox = worker[w].inbox
      /\ worker' \in [Workers -> Worker] /\ \A v \in Workers \ {w} : worker'[v] = worker[v]
    BY <1>1, WorkerEffects
<1>4. /\ Inbox' = Inbox /\ Trial' = Trial /\ Finishing' = Finishing
      /\ \A v \in Workers, u \in Tasks : Waits(v, u)' <=> Waits(v, u)
    BY <1>2, <1>3 DEF Inbox, Trial, Finishing, Waits
<1>5. PoolTypeOK' /\ Handed'
    BY <1>1, <1>2, <1>3 DEF PoolTypeOK, Worker, Handed, pool
<1> QED
    BY <1>2, <1>4, <1>5, NothingMoves, HandOverKeeps DEF pool

\* The task of an attempt is held, and by no other worker.
LEMMA OneAttempt ==
    ASSUME IInv, NEW w \in Workers, worker[w].pc \in {"start", "wait"},
           NEW t \in Tasks, t = worker[w].t
    PROVE  /\ Trial[w] = t /\ t \in Held
           /\ \A v \in Workers \ {w} : ~Waits(v, t)
           /\ status[t] # "new" /\ \A p \in Callers : ~Pushes(p, t)
<1>1. Trial[w] = t
    BY DEF Trial
<1>2. PoolTypeOK /\ Separate /\ Enters
    BY DEF IInv, Bookkeeping
<1>3. t \in Held
    BY <1>1, <1>2, HandsNow, HeldIs DEF In
<1>4. t # NoTask
    BY ConstantsAssumption DEF ConstantsAssumption
<1>5. \A v \in Workers \ {w} : Trial[v] # t
    BY <1>1, <1>2, <1>4 DEF Separate, Apart
<1>6. \A v \in Workers : Waits(v, t) => Trial[v] = t
    BY DEF Waits, Trial
<1> QED
    BY <1>1, <1>2, <1>3, <1>5, <1>6 DEF Enters

LEMMA ExecuteKeeps ==
    ASSUME IInv, NEW w \in Workers, Execute(w)
    PROVE  IInv'
<1>1. PoolTypeOK /\ Separate /\ Handed /\ WaitGroupExact /\ StatsAddUp /\ Enters /\ Attempts
    BY DEF IInv, Bookkeeping
<1>2. PICK t \in Tasks : t = worker[w].t
    BY <1>1 DEF Execute, Handed
<1>3. /\ worker[w].pc = "start" /\ status' = [status EXCEPT ![t] = "running"]
      /\ running' = [running EXCEPT ![t] = @ + 1]
      /\ UNCHANGED <<retryCount, pool, shutdown, scheduler, caller, stopper>>
    BY <1>2 DEF Execute
<1>4. /\ worker'[w].pc = "wait" /\ worker'[w].t = t /\ worker'[w].inbox = worker[w].inbox
      /\ worker' \in [Workers -> Worker] /\ \A v \in Workers \ {w} : worker'[v] = worker[v]
    BY <1>1, <1>2, WorkerEffects
<1>5. /\ Trial[w] = t /\ t \in Held /\ \A v \in Workers \ {w} : ~Waits(v, t)
      /\ status[t] # "new" /\ \A p \in Callers : ~Pushes(p, t)
    BY <1>2, <1>3, OneAttempt
<1>6. Inbox' = Inbox /\ Trial' = Trial /\ Finishing' = Finishing
    BY <1>2, <1>3, <1>4 DEF Inbox, Trial, Finishing
<1>7. Separate' /\ Held' = Held
    BY <1>3, <1>6, NothingMoves DEF pool
<1>8. running \in [Tasks -> Nat] /\ running[t] = 0
    <2>1. running \in [Tasks -> Nat]
        BY <1>1 DEF PoolTypeOK
    <2>2. ~Waits(w, t)
        BY <1>3 DEF Waits
    <2>3. running[t] # 1 /\ running[t] <= 1
        BY <1>1, <1>5, <2>2 DEF Attempts
    <2> QED
        BY <2>1, <2>3
<1>9. /\ running' \in [Tasks -> Nat] /\ running'[t] = 1
      /\ \A u \in Tasks \ {t} : running'[u] = running[u]
    BY <1>3, <1>8
<1>10. /\ status' \in [Tasks -> {"new", "pending", "running", "success", "failed", "cancelled"}]
       /\ status'[t] = "running" /\ \A u \in Tasks \ {t} : status'[u] = status[u]
    BY <1>1, <1>3 DEF PoolTypeOK
<1>11. PoolTypeOK' /\ Handed'
    <2>1. PoolTypeOK'
        BY <1>1, <1>3, <1>4, <1>9, <1>10 DEF PoolTypeOK, Worker, pool
    <2>2. Handed'
        BY <1>1, <1>2, <1>3, <1>4 DEF Handed
    <2> QED
        BY <2>1, <2>2
<1>12. WaitGroupExact' /\ StatsAddUp'
    BY <1>1, <1>3, <1>6, <1>7, Books DEF StatsAddUp, pool
<1>13. Enters'
    <2>1. \A p \in Callers, u \in Tasks : Pushes(p, u)' <=> Pushes(p, u)
        BY <1>3 DEF Pushes
    <2> QED
        BY <1>1, <1>3, <1>5, <1>7, <1>9, <1>10, <2>1 DEF Enters
<1>14. Attempts'
    <2>1. /\ Waits(w, t)' /\ \A u \in Tasks : Waits(w, u)' => u = t
          /\ \A v \in Workers \ {w}, u \in Tasks : Waits(v, u)' <=> Waits(v, u)
          /\ \A u \in Tasks : ~Waits(w, u)
        BY <1>3, <1>4 DEF Waits
    <2>2. ASSUME NEW u \in Tasks
          PROVE  /\ running'[u] <= 1
                 /\ \A v \in Workers : Waits(v, u)' => running'[u] = 1
                 /\ running'[u] = 1 => u \notin Held' \/ \E v \in Workers : Waits(v, u)'
        <3>1. CASE u = t
            BY <1>9, <2>1, <3>1
        <3>2. CASE u # t
            BY <1>1, <1>7, <1>9, <2>1, <3>2 DEF Attempts
        <3> QED
            BY <3>1, <3>2
    <2> QED
        BY <2>2 DEF Attempts
<1> QED
    BY <1>7, <1>11, <1>12, <1>13, <1>14 DEF IInv, Bookkeeping

LEMMA FinishKeeps ==
    ASSUME IInv, NEW w \in Workers, Finish(w)
    PROVE  IInv'
<1>1. PoolTypeOK /\ Separate /\ Handed /\ WaitGroupExact /\ StatsAddUp /\ Enters /\ Attempts
    BY DEF IInv, Bookkeeping
<1>2. /\ worker[w].pc = "finish" /\ wg' = wg - 1
      /\ UNCHANGED <<status, retryCount, taskQueue, retryQueue, stats, shutdown, scheduler,
                     caller, stopper, running>>
    BY DEF Finish
<1>3. /\ worker'[w].pc = "select" /\ worker'[w].inbox = worker[w].inbox
      /\ worker' \in [Workers -> Worker] /\ \A v \in Workers \ {w} : worker'[v] = worker[v]
    BY <1>1, WorkerEffects
<1>4. /\ Inbox' = Inbox /\ Trial' = Trial
      /\ \A v \in Workers, u \in Tasks : Waits(v, u)' <=> Waits(v, u)
    BY <1>2, <1>3 DEF Inbox, Trial, Waits
<1>5. Separate' /\ Held' = Held
    BY <1>2, <1>4, NothingMoves
<1>6. /\ Cardinality(Finishing) \in Nat
      /\ Cardinality(Finishing') = Cardinality(Finishing) - 1
    BY <1>1, <1>2, <1>3, OneWorker
<1>7. Cardinality(Held) \in Nat /\ IsFiniteSet(Finishing)
    BY <1>1, Finite, FS_Subset, FS_CardinalityType DEF Finishing
<1>8. Cardinality(Finishing) # 0
    <2>1. w \in Finishing
        BY <1>2 DEF Finishing
    <2> QED
        BY <1>7, <2>1, FS_EmptySet
<1>9. WaitGroupExact' /\ wg' \in Nat
    BY <1>1, <1>2, <1>5, <1>6, <1>7, <1>8, Books
<1>10. PoolTypeOK' /\ Handed'
    BY <1>1, <1>2, <1>3, <1>9 DEF PoolTypeOK, Worker, Handed
<1>11. StatsAddUp' /\ Enters' /\ Attempts'
    BY <1>1, <1>2, <1>4, <1>5 DEF StatsAddUp, Enters, Attempts, Pushes
<1> QED
    BY <1>5, <1>9, <1>10, <1>11 DEF IInv, Bookkeeping

LEMMA LateReturnKeeps ==
    ASSUME IInv, NEW t \in Tasks, LateReturn(t)
    PROVE  IInv'
<1>1. PoolTypeOK /\ Handed /\ WaitGroupExact /\ StatsAddUp /\ Enters /\ Attempts
    BY DEF IInv, Bookkeeping
<1> DEFINE W == {w \in Workers : worker[w].pc = "wait" /\ worker[w].t = t}
<1>2. /\ running[t] > Cardinality(W) /\ running' = [running EXCEPT ![t] = @ - 1]
      /\ UNCHANGED <<status, retryCount, pool, shutdown, scheduler, worker, caller, stopper>>
    BY DEF LateReturn
<1>3. running \in [Tasks -> Nat] /\ running[t] <= 1
    BY <1>1 DEF PoolTypeOK, Attempts
<1>4. IsFiniteSet(W) /\ Cardinality(W) \in Nat
    BY <1>1, Finite, FS_Subset, FS_CardinalityType
<1>5. Cardinality(W) = 0 /\ running[t] = 1
    BY <1>2, <1>3, <1>4
<1>6. \A w \in Workers : ~Waits(w, t)
    <2>1. W = {}
        BY <1>4, <1>5, FS_EmptySet
    <2> QED
        BY <2>1 DEF Waits
<1>7. /\ running' \in [Tasks -> Nat] /\ running'[t] = 0
      /\ \A u \in Tasks \ {t} : running'[u] = running[u]
    BY <1>2, <1>3, <1>5
<1>8. Separate' /\ Held' = Held /\ Finishing' = Finishing
    BY <1>2, NothingMoves DEF pool, Inbox, Trial, Finishing
<1>9. PoolTypeOK' /\ Handed'
    BY <1>1, <1>2, <1>7 DEF PoolTypeOK, Handed, pool
<1>10. WaitGroupExact' /\ StatsAddUp'
    BY <1>1, <1>2, <1>8, Books DEF StatsAddUp, pool
<1>11. Enters'
    BY <1>1, <1>2, <1>7, <1>8 DEF Enters, Pushes
<1>12. Attempts'
    <2>1. \A v \in Workers, u \in Tasks : Waits(v, u)' <=> Waits(v, u)
        BY <1>2 DEF Waits
    <2> QED
        BY <1>1, <1>6, <1>7, <1>8, <2>1 DEF Attempts
<1> QED
    BY <1>8, <1>9, <1>10, <1>11, <1>12 DEF IInv, Bookkeeping

\* What the three ways in which an attempt ends have in common.
LEMMA AttemptEnds ==
    ASSUME IInv, NEW w \in Workers, worker[w].pc = "wait", Ends(w), NEW t \in Tasks,
           t = worker[w].t
    PROVE  /\ t \in Held /\ status[t] # "new" /\ \A p \in Callers : ~Pushes(p, t)
           /\ running[t] = 1 /\ Trial[w] = t
           /\ Inbox' = Inbox /\ Trial' = Put(Trial, w, NoTask)
           /\ Cardinality(Finishing) \in Nat
           /\ Cardinality(Finishing') = Cardinality(Finishing) + 1
           /\ worker' \in [Workers -> Worker]
           /\ \A v \in Workers : ~Waits(v, t)'
           /\ \A v \in Workers, u \in Tasks \ {t} : Waits(v, u)' <=> Waits(v, u)
           /\ \A v \in Workers : worker'[v].pc \in {"start", "wait"} => worker'[v].t \in Tasks
<1>1. PoolTypeOK /\ Handed /\ Attempts
    BY DEF IInv, Bookkeeping
<1>2. /\ worker'[w].pc = "finish" /\ worker'[w].t = t /\ worker'[w].inbox = worker[w].inbox
      /\ worker' \in [Workers -> Worker] /\ \A v \in Workers \ {w} : worker'[v] = worker[v]
    BY <1>1, WorkerEffects
<1>3. /\ Trial[w] = t /\ t \in Held /\ \A v \in Workers \ {w} : ~Waits(v, t)
      /\ status[t] # "new" /\ \A p \in Callers : ~Pushes(p, t)
    BY OneAttempt
<1>4. Inbox' = Inbox /\ Trial' = Put(Trial, w, NoTask)
    BY <1>2 DEF Inbox, Trial, Put
<1>5. /\ Cardinality(Finishing) \in Nat
      /\ Cardinality(Finishing') = Cardinality(Finishing) + 1
    BY <1>1, <1>2, OneWorker
<1>6. running[t] = 1
    <2>1. Waits(w, t)
        BY DEF Waits
    <2> QED
        BY <1>1, <2>1 DEF Attempts
<1>7. /\ \A v \in Workers : ~Waits(v, t)'
      /\ \A v \in Workers, u \in Tasks \ {t} : Waits(v, u)' <=> Waits(v, u)
    BY <1>2, <1>3 DEF Waits
<1>8. \A v \in Workers : worker'[v].pc \in {"start", "wait"} => worker'[v].t \in Tasks
    BY <1>1, <1>2 DEF Handed
<1> QED
    BY <1>2, <1>3, <1>4, <1>5, <1>6, <1>7, <1>8

\* The task is settled, with its function (TimesOut) or without it.
LEMMA SettlesKeep ==
    ASSUME IInv, NEW w \in Workers, worker[w].pc = "wait", Ends(w), Notify,
           NEW st \in {"success", "failed"}, status' = [status EXCEPT ![worker[w].t] = st],
           running' = [running EXCEPT ![worker[w].t] = @ - 1] \/ running' = running,
           UNCHANGED <<retryCount, taskQueue, retryQueue, wg, shutdown, scheduler, caller, stopper>>
    PROVE  IInv'
<1>1. PoolTypeOK /\ Separate /\ Handed /\ WaitGroupExact /\ StatsAddUp /\ Enters /\ Attempts
    BY DEF IInv, Bookkeeping
<1>2. PICK t \in Tasks : t = worker[w].t
    BY <1>1 DEF Handed
<1>3. /\ t \in Held /\ status[t] # "new" /\ \A p \in Callers : ~Pushes(p, t)
      /\ running[t] = 1 /\ Trial[w] = t
      /\ Inbox' = Inbox /\ Trial' = Put(Trial, w, NoTask)
      /\ Cardinality(Finishing) \in Nat
      /\ Cardinality(Finishing') = Cardinality(Finishing) + 1
      /\ worker' \in [Workers -> Worker]
    BY <1>2, AttemptEnds
<1>4. /\ \A v \in Workers : ~Waits(v, t)'
      /\ \A v \in Workers, u \in Tasks \ {t} : Waits(v, u)' <=> Waits(v, u)
      /\ \A v \in Workers : worker'[v].pc \in {"start", "wait"} => worker'[v].t \in Tasks
    BY <1>2, AttemptEnds
<1>5. /\ Hands(taskQueue, retryQueue, scheduler.t, Inbox, Trial)
      /\ Held = In(taskQueue, retryQueue, scheduler.t, Inbox, Trial)
      /\ Apart(taskQueue, retryQueue, scheduler.t, Inbox, Trial)
    BY <1>1, HandsNow, HeldIs DEF Separate
<1>6. /\ Apart(taskQueue, retryQueue, scheduler.t, Inbox, Put(Trial, w, NoTask))
      /\ In(taskQueue, retryQueue, scheduler.t, Inbox, Put(Trial, w, NoTask)) = Held \ {t}
    BY <1>3, <1>5, HandEmptied
<1>7. Hands(taskQueue, retryQueue, scheduler.t, Inbox, Trial)'
    BY <1>3, <1>5 DEF Hands, Put, OptTask
<1>8. Held' = In(taskQueue', retryQueue', scheduler.t', Inbox', Trial')
    BY <1>7, HeldIsNext
<1>9. Separate' /\ Held' = Held \ {t}
    BY <1>3, <1>6, <1>8 DEF Separate
<1>10. Cardinality(Held) \in Nat /\ Cardinality(Held') = Cardinality(Held) - 1
    BY <1>1, <1>3, <1>9, OneTask
<1>11. WaitGroupExact'
    BY <1>1, <1>3, <1>10, Books
<1>12. /\ stats' \in [total: Nat, ended: Nat]
       /\ stats'.total = stats.total /\ stats'.ended = stats.ended + 1 /\ stats.ended \in Nat
    BY <1>1 DEF PoolTypeOK, Notify
<1>13. StatsAddUp'
    BY <1>1, <1>10, <1>12 DEF StatsAddUp
<1>14. /\ status' \in [Tasks -> {"new", "pending", "running", "success", "failed", "cancelled"}]
       /\ status'[t] # "new" /\ \A u \in Tasks \ {t} : status'[u] = status[u]
    BY <1>1, <1>2 DEF PoolTypeOK
<1>15. /\ running' \in [Tasks -> Nat] /\ running'[t] \in {0, 1}
       /\ \A u \in Tasks \ {t} : running'[u] = running[u]
    BY <1>1, <1>2, <1>3 DEF PoolTypeOK
<1>16. PoolTypeOK'
    BY <1>1, <1>3, <1>12, <1>14, <1>15 DEF PoolTypeOK, Worker
<1>17. Handed'
    BY <1>1, <1>4 DEF Handed
<1>18. Enters'
    <2>1. \A p \in Callers, u \in Tasks : Pushes(p, u)' <=> Pushes(p, u)
        BY DEF Pushes
    <2> QED
        BY <1>1, <1>3, <1>9, <1>14, <1>15, <2>1 DEF Enters
<1>19. Attempts'
    <2>1. ASSUME NEW u \in Tasks
          PROVE  /\ running'[u] <= 1
                 /\ \A v \in Workers : Waits(v, u)' => running'[u] = 1
                 /\ running'[u] = 1 => u \notin Held' \/ \E v \in Workers : Waits(v, u)'
        <3>1. CASE u = t
            BY <1>4, <1>9, <1>15, <3>1
        <3>2. CASE u # t
            BY <1>1, <1>4, <1>9, <1>15, <3>2 DEF Attempts
        <3> QED
            BY <3>1, <3>2
    <2> QED
        BY <2>1 DEF Attempts
<1> QED
    BY <1>9, <1>11, <1>13, <1>16, <1>17, <1>18, <1>19 DEF IInv, Bookkeeping

\* The task goes back to the retry queue.
LEMMA RetryKeeps ==
    ASSUME IInv, NEW w \in Workers, Fails(w), MayRetry(worker[w].t)
    PROVE  IInv'
<1>1. PoolTypeOK /\ Separate /\ Handed /\ WaitGroupExact /\ StatsAddUp /\ Enters /\ Attempts
    BY DEF IInv, Bookkeeping
<1>2. PICK t \in Tasks : t = worker[w].t
    BY <1>1 DEF Fails, Handed
<1>3. /\ worker[w].pc = "wait" /\ Ends(w) /\ status' = [status EXCEPT ![t] = "failed"]
      /\ running' = [running EXCEPT ![t] = @ - 1]
      /\ retryCount[t] < MaxRetries /\ retryCount' = [retryCount EXCEPT ![t] = @ + 1]
      /\ retryQueue' = retryQueue \cup {t} /\ wg' = wg + 1
      /\ UNCHANGED <<stats, taskQueue, shutdown, scheduler, caller, stopper>>
    BY <1>2 DEF Fails, MayRetry, RetryTask
<1>4. /\ t \in Held /\ status[t] # "new" /\ \A p \in Callers : ~Pushes(p, t)
      /\ running[t] = 1 /\ Trial[w] = t
      /\ Inbox' = Inbox /\ Trial' = Put(Trial, w, NoTask)
      /\ Cardinality(Finishing) \in Nat
      /\ Cardinality(Finishing') = Cardinality(Finishing) + 1
      /\ worker' \in [Workers -> Worker]
    BY <1>2, <1>3, AttemptEnds
<1>5. /\ \A v \in Workers : ~Waits(v, t)'
      /\ \A v \in Workers, u \in Tasks \ {t} : Waits(v, u)' <=> Waits(v, u)
      /\ \A v \in Workers : worker'[v].pc \in {"start", "wait"} => worker'[v].t \in Tasks
    BY <1>2, <1>3, AttemptEnds
<1>6. /\ Hands(taskQueue, retryQueue, scheduler.t, Inbox, Trial)
      /\ Held = In(taskQueue, retryQueue, scheduler.t, Inbox, Trial)
      /\ Apart(taskQueue, retryQueue, scheduler.t, Inbox, Trial)
    BY <1>1, HandsNow, HeldIs DEF Separate
<1>7. /\ Apart(taskQueue, retryQueue \cup {t}, scheduler.t, Inbox, Put(Trial, w, NoTask))
      /\ In(taskQueue, retryQueue \cup {t}, scheduler.t, Inbox, Put(Trial, w, NoTask)) = Held
    <2>1. /\ Apart(taskQueue, retryQueue \cup {Trial[w]}, scheduler.t, Inbox, Put(Trial, w, NoTask))
          /\ In(taskQueue, retryQueue \cup {Trial[w]}, scheduler.t, Inbox, Put(Trial, w, NoTask))
               = In(taskQueue, retryQueue, scheduler.t, Inbox, Trial)
        <3>1. Trial[w] \in Tasks
            BY <1>4
        <3> QED
            BY <1>6, <3>1, HandBack
    <2> QED
        BY <1>4, <1>6, <2>1
<1>8. Hands(taskQueue, retryQueue, scheduler.t, Inbox, Trial)'
    BY <1>3, <1>4, <1>6 DEF Hands, Put, OptTask
<1>9. Held' = In(taskQueue', retryQueue', scheduler.t', Inbox', Trial')
    BY <1>8, HeldIsNext
<1>10. Separate' /\ Held' = Held
    BY <1>3, <1>4, <1>7, <1>9 DEF Separate
<1>11. Cardinality(Held) \in Nat
    BY <1>1, OneTask
<1>12. WaitGroupExact' /\ StatsAddUp'
    BY <1>1, <1>3, <1>4, <1>10, <1>11, Books DEF StatsAddUp
<1>13. /\ status' \in [Tasks -> {"new", "pending", "running", "success", "failed", "cancelled"}]
       /\ status'[t] # "new" /\ \A u \in Tasks \ {t} : status'[u] = status[u]
    BY <1>1, <1>3 DEF PoolTypeOK
<1>14. /\ running' \in [Tasks -> Nat] /\ running'[t] = 0
       /\ \A u \in Tasks \ {t} : running'[u] = running[u]
    BY <1>1, <1>3, <1>4 DEF PoolTypeOK
<1>15. PoolTypeOK'
    <2>1. retryCount' \in [Tasks -> 0..MaxRetries]
        BY <1>1, <1>3, ConstantsAssumption DEF ConstantsAssumption, PoolTypeOK
    <2>2. wg' \in Nat /\ retryQueue' \subseteq Tasks
        BY <1>1, <1>3 DEF PoolTypeOK
    <2> QED
        BY <1>1, <1>3, <1>4, <1>13, <1>14, <2>1, <2>2 DEF PoolTypeOK, Worker
<1>16. Handed'
    BY <1>1, <1>3, <1>5 DEF Handed
<1>17. Enters'
    <2>1. \A p \in Callers, u \in Tasks : Pushes(p, u)' <=> Pushes(p, u)
        BY <1>3 DEF Pushes
    <2> QED
        BY <1>1, <1>3, <1>4, <1>10, <1>13, <1>14, <2>1 DEF Enters
<1>18. Attempts'
    <2>1. ASSUME NEW u \in Tasks
          PROVE  /\ running'[u] <= 1
                 /\ \A v \in Workers : Waits(v, u)' => running'[u] = 1
                 /\ running'[u] = 1 => u \notin Held' \/ \E v \in Workers : Waits(v, u)'
        <3>1. CASE u = t
            BY <1>5, <1>14, <3>1
        <3>2. CASE u # t
            BY <1>1, <1>5, <1>10, <1>14, <3>2 DEF Attempts
        <3> QED
            BY <3>1, <3>2
    <2> QED
        BY <2>1 DEF Attempts
<1> QED
    BY <1>10, <1>12, <1>15, <1>16, <1>17, <1>18 DEF IInv, Bookkeeping
-----------------------------------------------------------------------------
(* The theorems.                                                           *)

LEMMA InductiveInit == PoolInit => IInv
<1> SUFFICES ASSUME PoolInit PROVE IInv
    OBVIOUS
<1>1. /\ NoTask \notin Tasks /\ NoTask \in OptTask /\ MaxRetries \in Nat
      /\ WorkerCount \in Nat \ {0}
    BY ConstantsAssumption DEF ConstantsAssumption, OptTask
<1>2. PoolTypeOK
    <2>1. worker \in [Workers -> Worker]
        BY <1>1 DEF PoolInit, Worker
    <2>2. caller \in [Callers -> [pc: {"idle", "push", "cancel"}, t: OptTask]]
        BY <1>1 DEF PoolInit, IdleCaller
    <2>3. scheduler \in Scheduler
        BY <1>1 DEF PoolInit, Rest, Scheduler
    <2>4. /\ status \in [Tasks -> {"new", "pending", "running", "success", "failed", "cancelled"}]
          /\ retryCount \in [Tasks -> 0..MaxRetries] /\ running \in [Tasks -> Nat]
          /\ stats \in [total: Nat, ended: Nat]
        BY <1>1 DEF PoolInit
    <2>5. /\ taskQueue \subseteq Tasks /\ retryQueue \subseteq Tasks /\ wg \in Nat
          /\ shutdown \in BOOLEAN /\ stopper \in {"idle", "wait", "done"}
        BY DEF PoolInit
    <2> QED
        BY <2>1, <2>2, <2>3, <2>4, <2>5 DEF PoolTypeOK, Worker, Scheduler
<1>3. /\ Inbox = [w \in Workers |-> NoTask] /\ Trial = [w \in Workers |-> NoTask]
      /\ scheduler.t = NoTask /\ scheduler.pc = "visit" /\ Finishing = {}
      /\ taskQueue = {} /\ retryQueue = {}
    BY DEF PoolInit, Inbox, Trial, Rest, Finishing
<1>4. Separate
    BY <1>3 DEF Separate, Apart
<1>5. Held = {}
    <2>1. Held = In({}, {}, NoTask, Inbox, Trial)
        BY <1>2, <1>3, HandsNow, HeldIs
    <2> QED
        BY <1>1, <1>3, <2>1 DEF In
<1>6. WaitGroupExact /\ StatsAddUp
    <2>1. Cardinality(Held) = 0 /\ Cardinality(Finishing) = 0
        BY <1>3, <1>5, FS_EmptySet
    <2>2. wg = 0 /\ stats.total = 0 /\ stats.ended = 0
        BY DEF PoolInit
    <2> QED
        BY <2>1, <2>2, Books DEF StatsAddUp
<1>7. Handed
    BY <1>3 DEF Handed, PoolInit
<1>8. Enters /\ Attempts
    BY <1>5 DEF Enters, Attempts, PoolInit, IdleCaller, Pushes, Waits
<1> QED
    BY <1>2, <1>4, <1>6, <1>7, <1>8 DEF IInv, Bookkeeping

LEMMA InductiveStep == IInv /\ [PoolNext]_poolVars => IInv'
<1> SUFFICES ASSUME IInv, [PoolNext]_poolVars PROVE IInv'
    OBVIOUS
<1>1. ASSUME NEW p \in Callers, NEW t \in Tasks, Submit(p, t) \/ CancelTask(p, t)
      PROVE  IInv'
    BY <1>1, CallersKeep
<1>2. ASSUME NEW p \in Callers, Calling(p)
      PROVE  IInv'
    <2>1. CASE PushTask(p)
        BY <2>1, PushTaskKeeps
    <2>2. CASE CancelWrite(p)
        <3>1. caller[p].t \in Tasks
            BY <2>2 DEF CancelWrite, IInv, Enters
        <3> QED
            BY <2>2, <3>1, CallersKeep
    <2> QED
        BY <1>2, <2>1, <2>2 DEF Calling
<1>3. CASE Scheduling
    BY <1>3, VisitKeeps, SendKeeps, SchedulerExitsKeeps DEF Scheduling
<1>4. ASSUME NEW w \in Workers, Working(w)
      PROVE  IInv'
    <2>1. CASE Succeeds(w)
        <3>1. "success" \in {"success", "failed"}
            OBVIOUS
        <3> QED
            BY <2>1, <3>1, SettlesKeep DEF Succeeds
    <2>2. CASE TimesOut(w)
        <3>1. "failed" \in {"success", "failed"}
            OBVIOUS
        <3> QED
            BY <2>2, <3>1, SettlesKeep DEF TimesOut
    <2>3. CASE Fails(w) /\ MayRetry(worker[w].t)
        BY <2>3, RetryKeeps
    <2>4. CASE Fails(w) /\ ~MayRetry(worker[w].t)
        <3>1. "failed" \in {"success", "failed"}
            OBVIOUS
        <3> QED
            BY <2>4, <3>1, SettlesKeep DEF Fails
    <2>5. CASE Take(w) \/ WorkerExits(w) \/ Execute(w) \/ Finish(w)
        BY <2>5, TakeKeeps, WorkerExitsKeeps, ExecuteKeeps, FinishKeeps
    <2> QED
        BY <1>4, <2>1, <2>2, <2>3, <2>4, <2>5 DEF Working
<1>5. ASSUME NEW t \in Tasks, LateReturn(t)
      PROVE  IInv'
    BY <1>5, LateReturnKeeps
<1>6. CASE Stop \/ Wait
    BY <1>6, StopKeeps
<1>7. CASE UNCHANGED poolVars
    <2>1. UNCHANGED <<status, retryCount, taskQueue, retryQueue, wg, stats, shutdown, scheduler,
                      worker, caller, stopper, running>>
        BY <1>7 DEF poolVars, pool
    <2>2. Separate' /\ Held' = Held /\ Finishing' = Finishing
        BY <2>1, NothingMoves DEF Inbox, Trial, Finishing
    <2>3. PoolTypeOK' /\ Handed' /\ \A w \in Workers, t \in Tasks : Waits(w, t)' <=> Waits(w, t)
        BY <2>1 DEF IInv, Bookkeeping, PoolTypeOK, Handed, Waits
    <2> QED
        BY <2>1, <2>2, <2>3, HandOverKeeps
<1> QED
    BY <1>1, <1>2, <1>3, <1>4, <1>5, <1>6, <1>7 DEF PoolNext

\* The inductive invariant: every task in one hand, entered once and run by one attempt.
THEOREM Inductive == PoolSpec => []IInv
    BY InductiveInit, InductiveStep, PTL DEF PoolSpec

\* WaitGroup and statistics count exactly what the pool holds, in every interleaving of
\* callers, scheduler, workers, timeouts, retries and Stop.
THEOREM PoolKeepsBooks == PoolSpec => []Bookkeeping
<1>1. IInv => Bookkeeping
    BY DEF IInv
<1> QED
    BY <1>1, Inductive, PTL

\* No two attempts of a task run at the same time, also when one outlives its timeout.
THEOREM OneAttemptAtATime == PoolSpec => []AttemptsDisjoint
<1>1. IInv => AttemptsDisjoint
    BY DEF IInv, Attempts, AttemptsDisjoint
<1> QED
    BY <1>1, Inductive, PTL
-----------------------------------------------------------------------------
(* Files and backgrounds.                                                  *)

USE DEF tables, rest, cacheVars

ReqRec == [pc: {"idle", "put", "stat", "insert", "select", "object", "early", "row",
                "evict", "fill", "activate"},
           op: {"none", "file", "bg"}, u: Users \cup {Null},
           f: Ids \cup {Null}, key: Keys \cup Bgs \cup {Null},
           content: Contents \cup {Null}, image: 0..1, late: 0..1]

\* A handler that brings an object, and one that removes it.
Writing(q) == q.pc \in {"put", "insert"}
Deleting(q) == q.pc \in {"object", "early", "row"}

\* What a handler holds at each place.
Shape(q) ==
    /\ q \in ReqRec
    /\ q.pc \in {"idle", "evict", "fill", "select"} => q.key = Null
    /\ Writing(q) => /\ q.content \in Contents
                     /\ \/ q.op = "file" /\ q.key \in used
                        \/ q.op = "bg" /\ q.key \in Bgs
                     /\ q.op = "file" => IF q.key \in pre THEN WithinLimits(q.content.size)
                                         ELSE Accepts(q.image, q.content)
    /\ q.pc = "put" => q.key \notin pre
    /\ q.pc = "stat" => q.op = "file" /\ q.key \in pre
    /\ q.pc = "select" => q.op = "file" /\ q.f \in Ids
    /\ q.pc = "activate" => q.key \in Bgs
    /\ Deleting(q) => \/ q.op = "file" /\ q.pc # "early" /\ q.f \in Ids
                         /\ q.key \in Keys /\ file[q.f].key = q.key
                      \/ q.op = "bg" /\ q.key \in Bgs

\* How far the object that a handler works on has come.
Progress(q) ==
    /\ q.pc = "insert" /\ q.op = "file"
          => /\ obj[q.key] = Null => \E g \in Ids : file[g].key = q.key
             /\ obj[q.key] # Null => obj[q.key] = q.content \/ "reput" \in cause[q.key]
    /\ q.pc = "insert" /\ q.op = "bg" => obj[q.key] # Null
    /\ Writing(q) /\ q.op = "bg" => bg[q.key].state = "absent"
    /\ Writing(q) /\ q.op = "file" /\ q.key \notin pre => \A f \in Ids : file[f].key # q.key
    /\ q.pc \in {"early", "row"} /\ q.key \notin pre => obj[q.key] = Null \/ cause[q.key] # {}

\* A new key has one handler.
Alone == \A p, o \in Procs : p # o /\ Writing(req[p]) /\ req[p].key \notin pre
                             => req[o].key # req[p].key

\* What a handler's next step will settle: Removes, the row of a deleted object;
\* Registers, the row of a new one; Drops and Adds, the same for a background.
Removes(q, k) == q.pc = "row" /\ q.op = "file" /\ q.key = k
Registers(q, k) == q.pc = "insert" /\ q.op = "file" /\ q.key = k
Drops(q, b) == q.pc \in {"early", "row"} /\ q.op = "bg" /\ q.key = b
Adds(q, b) == q.pc = "insert" /\ q.op = "bg" /\ q.key = b

\* A live row and its object.
Recorded(r) ==
    /\ obj[r.key] = Null => \/ cause[r.key] \cap {"row", "shared"} # {}
                            \/ \E p \in Procs : Removes(req[p], r.key)
    /\ r.size <= IF r.key \in pre THEN MaxAttach ELSE MaxFile
    /\ obj[r.key] # Null => \/ "reput" \in cause[r.key]
                            \/ /\ obj[r.key].size = r.size
                               /\ r.key \in pre \/ VerifyMagicNumber(r.image, obj[r.key])

FileInv(f) ==
    LET r == file[f] IN
    /\ r.state = "absent" => r = NoRow
    /\ r.state # "absent" => r.key \in used
    /\ \A g \in Ids \ {f} : r.key # Null /\ file[g].key = r.key => "shared" \in cause[r.key]
    /\ r.state = "live" => Recorded(r)

KeyInv(k) ==
    obj[k] # Null /\ k \notin pre /\ cause[k] = {} =>
        RowsOf(k) # {} \/ \E p \in Procs : Registers(req[p], k)

BgInv(b) ==
    /\ bg[b].state = "live" /\ obj[b] = Null
          => "row" \in cause[b] \/ \E p \in Procs : Drops(req[p], b)
    /\ obj[b] # Null /\ cause[b] = {}
          => bg[b].state = "live" \/ \E p \in Procs : Adds(req[p], b)

FileIInv ==
    /\ FileTypeOK
    /\ \A p \in Procs : Shape(req[p]) /\ Progress(req[p])
    /\ Alone
    /\ \A f \in Ids : FileInv(f)
    /\ \A k \in Keys : KeyInv(k)
    /\ \A b \in Bgs : BgInv(b)
    /\ OneActive
    /\ ListStaleExcused
-----------------------------------------------------------------------------
(* One handler moves to q; the others at most learn that they are late.    *)

Same(r, q) ==
    /\ r \in ReqRec /\ r.pc = q.pc /\ r.op = q.op /\ r.u = q.u /\ r.f = q.f
    /\ r.key = q.key /\ r.content = q.content /\ r.image = q.image

Moved(p, q) ==
    /\ req' \in [Procs -> ReqRec] /\ req'[p] = q
    /\ \A o \in Procs \ {p} : Same(req'[o], req[o])

\* Keys are handed out once: what is in use stays presigned or not.
KeysKept == used \subseteq used' /\ used' \subseteq Keys /\ pre \subseteq pre' /\ pre' \subseteq used'
            /\ pre' \ pre \subseteq Keys \ used

LEMMA GotoMoves ==
    ASSUME FileIInv, NEW p \in Procs, NEW q \in ReqRec, Goto(p, q)
    PROVE  Moved(p, q)
<1>1. req \in [Procs -> ReqRec]
  BY DEF FileIInv, FileTypeOK, ReqRec
<1> QED
  BY <1>1 DEF Goto, Moved, Same

LEMMA BgChangedMoves ==
    ASSUME FileIInv, NEW p \in Procs, NEW q \in ReqRec, NEW places, BgChanged(p, q, places)
    PROVE  Moved(p, q)
<1>1. req \in [Procs -> ReqRec]
  BY DEF FileIInv, FileTypeOK, ReqRec
<1>2. ASSUME NEW r \in ReqRec
      PROVE  [r EXCEPT !.late = 1] \in ReqRec /\ Same([r EXCEPT !.late = 1], r) /\ Same(r, r)
  <2>1. [r EXCEPT !.late = 1] \in ReqRec
    BY DEF ReqRec
  <2> QED
    BY <2>1 DEF Same, ReqRec
<1>3. \A o \in Procs : req'[o] = IF o = p THEN q
                                 ELSE IF req[o].pc \in places THEN [req[o] EXCEPT !.late = 1]
                                 ELSE req[o]
  BY DEF BgChanged
<1>4. \A o \in Procs \ {p} : req'[o] \in ReqRec /\ Same(req'[o], req[o])
  BY <1>1, <1>2, <1>3
<1>5. req' \in [Procs -> ReqRec]
  BY <1>3, <1>4 DEF BgChanged
<1> QED
  BY <1>3, <1>4, <1>5 DEF Moved

\* Where a key of a handler lies.
LEMMA KeyOf ==
    ASSUME FileIInv, NEW p \in Procs
    PROVE  /\ Writing(req[p]) => req[p].key \in used \cup Bgs
           /\ req[p].pc = "stat" => req[p].key \in pre
           /\ Deleting(req[p]) => req[p].key \in used \cup Bgs
           /\ req[p].key \in used \cup Bgs \cup {Null}
<1> DEFINE q == req[p]
<1>1. Shape(q) /\ q \in ReqRec
  BY DEF FileIInv, Shape
<1>2. pre \subseteq used /\ used \subseteq Keys
  BY DEF FileIInv, FileTypeOK
<1>3. Deleting(q) => q.key \in used \cup Bgs
  <2> SUFFICES ASSUME Deleting(q), q.op = "file" PROVE q.key \in used
    BY <1>1 DEF Shape
  <2>1. q.f \in Ids /\ q.key \in Keys /\ file[q.f].key = q.key
    BY <1>1 DEF Shape
  <2>2. FileInv(q.f)
    BY <2>1 DEF FileIInv
  <2>3. q.key # Null
    BY <2>1, FileAssumption
  <2> QED
    BY <2>1, <2>2, <2>3 DEF FileInv, NoRow
<1>4. /\ Writing(q) => q.key \in used \cup Bgs
      /\ q.pc = "stat" => q.key \in pre
  BY <1>1 DEF Shape
<1>5. \/ q.pc \in {"idle", "evict", "fill", "select", "activate"} \/ Writing(q) \/ q.pc = "stat"
      \/ Deleting(q)
  BY <1>1 DEF ReqRec, Writing, Deleting
<1> QED
  BY <1>1, <1>2, <1>3, <1>4, <1>5 DEF Shape

\* The shape of a handler survives new keys and new rows.
LEMMA ShapeKept ==
    ASSUME FileIInv, KeysKept, NEW o \in Procs, NEW r, Same(r, req[o]),
           \A f \in Ids : file[f].key # Null => file'[f].key = file[f].key
    PROVE  Shape(r)'
<1>1. Shape(req[o])
  BY DEF FileIInv
<1>2. Bgs \cap Keys = {} /\ Null \notin Keys
  BY FileAssumption
<1>3. r.key \in used \cup Bgs => (r.key \in pre' <=> r.key \in pre)
  BY <1>2 DEF KeysKept, FileIInv, FileTypeOK
<1>4. Writing(r) => r.key \in used \cup Bgs
  BY KeyOf DEF Same, Writing
<1> QED
  BY <1>1, <1>2, <1>3, <1>4 DEF Shape, Same, Writing, Deleting, KeysKept

\* Progress of a handler whose object, row and causes are as they were.
LEMMA ProgressKept ==
    ASSUME FileIInv, KeysKept, NEW o \in Procs, NEW r, Same(r, req[o]), r.key \in used \cup Bgs,
           obj'[r.key] = obj[r.key], cause[r.key] \subseteq cause'[r.key],
           r.key \in Bgs => bg'[r.key].state = bg[r.key].state,
           \A f \in Ids : file'[f].key = r.key <=> file[f].key = r.key
    PROVE  Progress(r)'
<1>1. Progress(req[o])
  BY DEF FileIInv
<1>2. Bgs \cap Keys = {}
  BY FileAssumption
<1>3. r.key \in pre' <=> r.key \in pre
  BY <1>2 DEF KeysKept, FileIInv, FileTypeOK
<1>4. Writing(r) /\ r.op = "bg" => r.key \in Bgs
  BY DEF FileIInv, Shape, Same, Writing
<1> QED
  BY <1>1, <1>3, <1>4 DEF Progress, Same, Writing

LEMMA IdleProgress ==
    ASSUME NEW r, r.pc \notin {"put", "insert", "early", "row"}
    PROVE  Progress(r)'
  BY DEF Progress, Writing

LEMMA OtherProgress ==
    ASSUME FileIInv, KeysKept, NEW o \in Procs, NEW r, Same(r, req[o]),
           r.key \in used \cup Bgs =>
              /\ obj'[r.key] = obj[r.key] /\ cause[r.key] \subseteq cause'[r.key]
              /\ r.key \in Bgs => bg'[r.key].state = bg[r.key].state
              /\ \A f \in Ids : file'[f].key = r.key <=> file[f].key = r.key
    PROVE  Progress(r)'
<1>1. CASE r.key \in used \cup Bgs
  BY <1>1, ProgressKept
<1>2. CASE r.key \notin used \cup Bgs
  <2>1. r.pc \notin {"put", "insert", "early", "row"}
    BY <1>2, KeyOf DEF Same, Writing, Deleting
  <2> QED
    BY <2>1, IdleProgress
<1> QED
  BY <1>1, <1>2

LEMMA AloneKept ==
    ASSUME FileIInv, KeysKept, NEW p \in Procs, NEW q, Moved(p, q),
           Writing(q) => q.key \in used' \cup Bgs,
           \A o \in Procs \ {p} : Writing(req[o]) /\ req[o].key \notin pre => req[o].key # q.key,
           Writing(q) /\ q.key \notin pre' => \A o \in Procs \ {p} : req[o].key # q.key
    PROVE  Alone'
<1> SUFFICES ASSUME NEW a \in Procs, NEW o \in Procs, a # o, Writing(req'[a]),
                    req'[a].key \notin pre'
             PROVE  req'[o].key # req'[a].key
  BY DEF Alone, Writing
<1>1. CASE a = p
  BY <1>1 DEF Moved, Same
<1>2. CASE a # p
  <2>1. Writing(req[a]) /\ req[a].key = req'[a].key /\ req[a].key \notin pre
    BY <1>2 DEF Moved, Same, Writing, KeysKept
  <2>2. CASE o = p
    BY <1>2, <2>1, <2>2 DEF Moved
  <2>3. CASE o # p
    BY <1>2, <2>1, <2>3 DEF Moved, Same, FileIInv, Alone
  <2> QED
    BY <2>2, <2>3
<1> QED
  BY <1>1, <1>2

\* The handler whose next step settles k is still there, or p was the one.
LEMMA SettlersKept ==
    ASSUME NEW p \in Procs, NEW q, Moved(p, q), NEW k
    PROVE  /\ (\E o \in Procs : Removes(req[o], k)) =>
                 Removes(req[p], k) \/ \E o \in Procs : Removes(req'[o], k)
           /\ (\E o \in Procs : Registers(req[o], k)) =>
                 Registers(req[p], k) \/ \E o \in Procs : Registers(req'[o], k)
           /\ (\E o \in Procs : Drops(req[o], k)) =>
                 Drops(req[p], k) \/ \E o \in Procs : Drops(req'[o], k)
           /\ (\E o \in Procs : Adds(req[o], k)) =>
                 Adds(req[p], k) \/ \E o \in Procs : Adds(req'[o], k)
<1>1. \A o \in Procs \ {p} : /\ Removes(req[o], k) => Removes(req'[o], k)
                             /\ Registers(req[o], k) => Registers(req'[o], k)
                             /\ Drops(req[o], k) => Drops(req'[o], k)
                             /\ Adds(req[o], k) => Adds(req'[o], k)
  BY DEF Moved, Same, Removes, Registers, Drops, Adds
<1> QED
  BY <1>1

\* A row that is not written, with its object as it was.
LEMMA FileKept ==
    ASSUME FileIInv, KeysKept, NEW f \in Ids, file'[f] = file[f],
           LET k == file[f].key IN
             /\ \A g \in Ids \ {f} : k # Null /\ file'[g].key = k
                                     => file[g].key = k \/ "shared" \in cause'[k]
             /\ k # Null => /\ obj'[k] = obj[k] /\ cause[k] \subseteq cause'[k]
                            /\ (\E o \in Procs : Removes(req[o], k)) =>
                                  \/ cause'[k] \cap {"row", "shared"} # {}
                                  \/ \E o \in Procs : Removes(req'[o], k)
    PROVE  FileInv(f)'
<1> DEFINE r == file[f]
           k == file[f].key
<1>1. FileInv(f)
  BY DEF FileIInv
<1>2. r.state = "absent" => k = Null
  BY <1>1 DEF FileInv, NoRow
<1>3. r.state # "absent" => k \in used /\ k # Null /\ k \in used' /\ (k \in pre' <=> k \in pre)
  BY <1>1, FileAssumption DEF FileInv, KeysKept, FileIInv, FileTypeOK
<1>4. (r.state = "absent" => r = NoRow)' /\ (r.state # "absent" => r.key \in used)'
  BY <1>1, <1>3 DEF FileInv
<1>5. (\A g \in Ids \ {f} : r.key # Null /\ file[g].key = r.key => "shared" \in cause[r.key])'
  BY <1>1 DEF FileInv
<1>6. (r.state = "live" => Recorded(r))'
  <2> SUFFICES ASSUME r.state = "live" PROVE Recorded(r)'
    OBVIOUS
  <2>1. Recorded(r) /\ k # Null /\ (k \in pre' <=> k \in pre)
    BY <1>1, <1>3 DEF FileInv
  <2>2. obj'[k] = Null => \/ cause'[k] \cap {"row", "shared"} # {}
                          \/ \E p \in Procs : Removes(req'[p], k)
    BY <2>1 DEF Recorded
  <2>3. r.size <= IF k \in pre' THEN MaxAttach ELSE MaxFile
    BY <2>1 DEF Recorded
  <2>4. obj'[k] # Null => \/ "reput" \in cause'[k]
                          \/ /\ obj'[k].size = r.size
                             /\ k \in pre' \/ VerifyMagicNumber(r.image, obj'[k])
    BY <2>1 DEF Recorded
  <2> QED
    BY <2>2, <2>3, <2>4 DEF Recorded, Removes
<1> QED
  BY <1>4, <1>5, <1>6 DEF FileInv

LEMMA KeyKept ==
    ASSUME FileIInv, KeysKept, NEW k \in Keys, obj'[k] = obj[k], cause[k] \subseteq cause'[k],
           RowsOf(k) \subseteq RowsOf(k)',
           (\E o \in Procs : Registers(req[o], k)) =>
              cause'[k] # {} \/ RowsOf(k)' # {} \/ \E o \in Procs : Registers(req'[o], k)
    PROVE  KeyInv(k)'
<1>1. KeyInv(k) /\ pre \subseteq pre'
  BY DEF FileIInv, KeysKept
<1>2. obj'[k] # Null /\ k \notin pre' /\ cause'[k] = {} =>
         RowsOf(k)' # {} \/ \E o \in Procs : Registers(req'[o], k)
  BY <1>1 DEF KeyInv
<1> QED
  BY <1>2 DEF KeyInv, Registers

LEMMA BgKept ==
    ASSUME FileIInv, NEW b \in Bgs, obj'[b] = obj[b], cause[b] \subseteq cause'[b],
           bg'[b].state = bg[b].state,
           (\E o \in Procs : Drops(req[o], b)) =>
              "row" \in cause'[b] \/ \E o \in Procs : Drops(req'[o], b),
           (\E o \in Procs : Adds(req[o], b)) =>
              cause'[b] # {} \/ \E o \in Procs : Adds(req'[o], b)
    PROVE  BgInv(b)'
<1>1. BgInv(b)
  BY DEF FileIInv
<1>2. bg'[b].state = "live" /\ obj'[b] = Null
         => "row" \in cause'[b] \/ \E p \in Procs : Drops(req'[p], b)
  BY <1>1 DEF BgInv
<1>3. obj'[b] # Null /\ cause'[b] = {}
         => bg'[b].state = "live" \/ \E p \in Procs : Adds(req'[p], b)
  BY <1>1 DEF BgInv
<1> QED
  BY <1>2, <1>3 DEF BgInv, Drops, Adds

\* What every step leaves well-typed, but for the tables.
Sizes == faults \in 0..MaxFaults /\ started \in 0..MaxRequests
ListOK == list \in {"none", "fresh", "stale"} /\ excuse \in 0..1 /\ ListStaleExcused

\* A step that leaves rows and objects alone: a handler goes on or gives up.
LEMMA QuietStep ==
    ASSUME FileIInv, KeysKept, NEW p \in Procs, NEW q, Moved(p, q), Shape(q)', Progress(q)',
           UNCHANGED <<obj, file>>, url' \subseteq pre',
           bg' \in [Bgs -> [state: {"absent", "live", "deleted"}, active: 0..2]],
           \A b \in Bgs : bg'[b].state = bg[b].state, OneActive',
           cause' \in [Keys \cup Bgs -> SUBSET Causes],
           \A k \in Keys \cup Bgs :
              /\ cause[k] \subseteq cause'[k]
              /\ Removes(req[p], k) \/ Drops(req[p], k)
                    => "row" \in cause'[k] \/ (Drops(req[p], k) /\ Drops(q, k))
              /\ Registers(req[p], k) \/ Adds(req[p], k) => cause'[k] # {},
           \A o \in Procs \ {p} : Writing(req[o]) /\ req[o].key \notin pre => req[o].key # q.key,
           Writing(q) /\ q.key \notin pre' => \A o \in Procs \ {p} : req[o].key # q.key,
           Sizes', ListOK'
    PROVE  FileIInv'
<1>1. FileTypeOK'
  <2>2. req' \in [Procs -> ReqRec]
    BY DEF Moved
  <2>3. obj' \in [Keys \cup Bgs -> Contents \cup {Null}] /\ file' \in [Ids -> Row]
    BY DEF FileIInv, FileTypeOK
  <2> QED
    BY <2>2, <2>3 DEF FileTypeOK, ReqRec, Sizes, ListOK, KeysKept
<1>2. \A o \in Procs : Shape(req[o])' /\ Progress(req[o])'
  <2> SUFFICES ASSUME NEW o \in Procs PROVE Shape(req[o])' /\ Progress(req[o])'
    OBVIOUS
  <2>1. CASE o = p
    <3>1. req'[o] = q
      BY <2>1 DEF Moved
    <3>2. Shape(req[o])'
      BY <3>1 DEF Shape, Writing, Deleting
    <3>3. Progress(req[o])'
      BY <3>1 DEF Progress, Writing
    <3> QED
      BY <3>2, <3>3
  <2>2. CASE o # p
    <3>1. PICK r : r = req'[o] /\ Same(r, req[o])
      BY <2>2 DEF Moved
    <3>2. Shape(r)'
      BY <3>1, ShapeKept
    <3>3. Progress(r)'
      <4>1. r.key \in used \cup Bgs => r.key \in Keys \cup Bgs
        BY DEF FileIInv, FileTypeOK
      <4> QED
        BY <3>1, <4>1, OtherProgress
    <3>4. Shape(req[o])'
      BY <3>1, <3>2 DEF Shape, Writing, Deleting
    <3>5. Progress(req[o])'
      BY <3>1, <3>3 DEF Progress, Writing
    <3> QED
      BY <3>4, <3>5
  <2> QED
    BY <2>1, <2>2
<1>3. Alone'
  <2>1. Writing(q) => q.key \in used' \cup Bgs
    BY DEF Shape, Writing
  <2> QED
    BY <2>1, AloneKept
<1>4. \A f \in Ids : FileInv(f)'
  <2> SUFFICES ASSUME NEW f \in Ids PROVE FileInv(f)'
    OBVIOUS
  <2> DEFINE k == file[f].key
  <2>1. k # Null => k \in Keys
    BY DEF FileIInv, FileTypeOK, Row
  <2>2. k # Null => ((\E o \in Procs : Removes(req[o], k)) =>
                       "row" \in cause'[k] \/ \E o \in Procs : Removes(req'[o], k))
    <3>1. ~ Drops(req[p], k) \/ ~ Removes(req[p], k)
      BY DEF Drops, Removes
    <3> QED
      BY <2>1, <3>1, SettlersKept
  <2> QED
    BY <2>1, <2>2, FileKept
<1>5. \A k \in Keys : KeyInv(k)'
  <2> SUFFICES ASSUME NEW k \in Keys PROVE KeyInv(k)'
    OBVIOUS
  <2>1. RowsOf(k)' = RowsOf(k)
    BY DEF RowsOf, LiveFiles
  <2>2. (\E o \in Procs : Registers(req[o], k)) =>
           cause'[k] # {} \/ \E o \in Procs : Registers(req'[o], k)
    BY SettlersKept
  <2> QED
    BY <2>1, <2>2, KeyKept
<1>6. \A b \in Bgs : BgInv(b)'
  <2> SUFFICES ASSUME NEW b \in Bgs PROVE BgInv(b)'
    OBVIOUS
  <2>1. (\E o \in Procs : Drops(req[o], b)) =>
           "row" \in cause'[b] \/ \E o \in Procs : Drops(req'[o], b)
    BY SettlersKept DEF Moved
  <2>2. (\E o \in Procs : Adds(req[o], b)) => cause'[b] # {} \/ \E o \in Procs : Adds(req'[o], b)
    BY SettlersKept
  <2> QED
    BY <2>1, <2>2, BgKept
<1> QED
  BY <1>1, <1>2, <1>3, <1>4, <1>5, <1>6 DEF FileIInv, ListOK

\* A handler that had nothing to settle moves on, and no table changes.
LEMMA QuietOnly ==
    ASSUME FileIInv, KeysKept, NEW p \in Procs, NEW q, Goto(p, q), Shape(q)', Progress(q)',
           UNCHANGED <<tables, cacheVars, faults, cause>>, url' \subseteq pre',
           req[p].pc \in {"idle", "stat", "select", "activate"}, started' \in 0..MaxRequests,
           \A o \in Procs \ {p} : Writing(req[o]) /\ req[o].key \notin pre => req[o].key # q.key,
           Writing(q) /\ q.key \notin pre' => \A o \in Procs \ {p} : req[o].key # q.key
    PROVE  FileIInv'
<1>1. q \in ReqRec
  BY DEF Shape
<1>2. Moved(p, q)
  BY <1>1, GotoMoves
<1>3. FileTypeOK /\ ListStaleExcused
  BY DEF FileIInv
<1>4. OneActive'
  BY DEF FileIInv, OneActive
<1>5. Sizes'
  BY <1>3 DEF Sizes, FileTypeOK
<1>6. ListOK'
  <2>1. (\E o \in Procs : req[o].pc = "evict") => \E o \in Procs : req'[o].pc = "evict"
    BY <1>2 DEF Moved, Same
  <2> QED
    BY <1>3, <2>1 DEF ListOK, FileTypeOK, ListStaleExcused
<1>7. \A k \in Keys \cup Bgs : /\ ~ Removes(req[p], k) /\ ~ Drops(req[p], k)
                               /\ ~ Registers(req[p], k) /\ ~ Adds(req[p], k)
  BY DEF Removes, Drops, Registers, Adds
<1>8. /\ bg' \in [Bgs -> [state: {"absent", "live", "deleted"}, active: 0..2]]
      /\ cause' \in [Keys \cup Bgs -> SUBSET Causes]
      /\ \A b \in Bgs : bg'[b].state = bg[b].state
      /\ \A k \in Keys \cup Bgs : cause[k] \subseteq cause'[k]
  BY <1>3 DEF FileTypeOK
<1> QED
  BY <1>2, <1>4, <1>5, <1>6, <1>7, <1>8, QuietStep

LEMMA StartOK ==
    ASSUME FileIInv, NEW p \in Procs, Start(p)
    PROVE  started' \in 0..MaxRequests /\ req[p].pc = "idle"
<1>1. started \in 0..MaxRequests
  BY DEF FileIInv, FileTypeOK
<1> QED
  BY <1>1, FileAssumption DEF Start, Request

\* The keys other handlers hold: never new, never Null while they write.
LEMMA OthersKeys ==
    ASSUME FileIInv
    PROVE  /\ \A k \in Keys \ used : \A o \in Procs : req[o].key # k
           /\ \A o \in Procs : Writing(req[o]) => req[o].key # Null
           /\ \A f \in Ids, o \in Procs :
                 file[f].state # "absent" /\ Writing(req[o]) /\ req[o].key \notin pre
                    => req[o].key # file[f].key
           /\ \A b \in Bgs, o \in Procs :
                 bg[b].state # "absent" /\ Writing(req[o]) => req[o].key # b
<1>1. /\ used \subseteq Keys /\ pre \subseteq used
      /\ Keys \cap Bgs = {} /\ Null \notin Keys \cup Bgs
  BY FileAssumption DEF FileIInv, FileTypeOK
<1>2. \A o \in Procs : req[o].key \in used \cup Bgs \cup {Null}
  BY KeyOf
<1>3. \A o \in Procs : Writing(req[o]) => req[o].key \in used \cup Bgs
  BY KeyOf
<1>4. ASSUME NEW f \in Ids, NEW o \in Procs, file[f].state # "absent", Writing(req[o]),
             req[o].key \notin pre
      PROVE  req[o].key # file[f].key
  <2>1. file[f].key \in used
    BY <1>4 DEF FileIInv, FileInv
  <2>2. Shape(req[o]) /\ Progress(req[o])
    BY DEF FileIInv
  <2> QED
    BY <1>1, <1>4, <2>1, <2>2 DEF Shape, Progress
<1>5. ASSUME NEW b \in Bgs, NEW o \in Procs, bg[b].state # "absent", Writing(req[o])
      PROVE  req[o].key # b
  <2>1. Shape(req[o]) /\ Progress(req[o])
    BY DEF FileIInv
  <2> QED
    BY <1>1, <1>5, <2>1 DEF Shape, Progress
<1> QED
  BY <1>1, <1>2, <1>3, <1>4, <1>5

LEMMA UploadStep ==
    ASSUME FileIInv, NEW p \in Procs, NEW u \in Users, NEW i \in 0..1, NEW c \in Contents,
           NEW k \in Keys, Upload(p, u, i, c, k)
    PROVE  FileIInv'
<1>0. PICK q : q = [Idle EXCEPT !.pc = "put", !.op = "file", !.u = u, !.key = k,
                                !.content = c, !.image = i]
  OBVIOUS
<1>1. q = [pc |-> "put", op |-> "file", u |-> u, f |-> Null, key |-> k,
           content |-> c, image |-> i, late |-> 0]
  BY <1>0 DEF Idle
<1>2. q \in ReqRec
  BY <1>1 DEF ReqRec
<1>3. Goto(p, q)
  BY <1>0 DEF Upload
<1>4. pre \subseteq used /\ used \subseteq Keys /\ url \subseteq pre
  BY DEF FileIInv, FileTypeOK
<1>5. KeysKept /\ url' \subseteq pre' /\ k \notin used /\ k \notin pre' /\ k \in used'
  BY <1>4 DEF Upload, KeysKept
<1>6. started' \in 0..MaxRequests /\ req[p].pc = "idle"
  BY StartOK DEF Upload
<1>7. Accepts(i, c)
  BY DEF Upload
<1>8. Shape(q)'
  BY <1>1, <1>2, <1>5, <1>7 DEF Shape, Writing, Deleting
<1>9. \A f \in Ids : file'[f].key # k
  <2> SUFFICES ASSUME NEW f \in Ids PROVE file[f].key # k
    BY DEF Upload
  <2>1. FileInv(f)
    BY DEF FileIInv
  <2> QED
    BY <1>5, <2>1, FileAssumption DEF FileInv, NoRow
<1>10. Progress(q)'
  BY <1>1, <1>9 DEF Progress, Writing
<1>11. \A o \in Procs \ {p} : req[o].key # q.key
  BY <1>1, <1>5, OthersKeys
<1>12. UNCHANGED <<tables, cacheVars, faults, cause>>
  BY DEF Upload
<1> QED
  BY <1>3, <1>5, <1>6, <1>8, <1>10, <1>11, <1>12, QuietOnly

\* A request starts, or a handler goes on, with nothing changed but its own record.
LEMMA OnlyStep ==
    ASSUME FileIInv, NEW p \in Procs, NEW q, Only(p, q), Shape(q)', Progress(q)',
           req[p].pc \in {"idle", "stat", "select", "activate"}, started' \in 0..MaxRequests,
           \A o \in Procs \ {p} : Writing(req[o]) /\ req[o].key \notin pre => req[o].key # q.key,
           Writing(q) /\ q.key \notin pre => \A o \in Procs \ {p} : req[o].key # q.key
    PROVE  FileIInv'
<1>1. UNCHANGED <<tables, rest, cacheVars, faults, cause>> /\ Goto(p, q)
  BY DEF Only
<1>2. url' \subseteq pre' /\ KeysKept
  BY <1>1 DEF FileIInv, FileTypeOK, KeysKept
<1> QED
  BY <1>1, <1>2, QuietOnly

LEMMA IdleOK ==
    /\ Idle \in ReqRec /\ Idle.pc = "idle" /\ Idle.key = Null
    /\ Shape(Idle)' /\ Progress(Idle)'
<1>1. Idle \in ReqRec /\ Idle.pc = "idle" /\ Idle.key = Null
  BY DEF Idle, ReqRec
<1> QED
  BY <1>1 DEF Shape, Progress, Writing, Deleting

LEMMA AddBackgroundStep ==
    ASSUME FileIInv, NEW p \in Procs, NEW b \in Bgs, NEW c \in Contents, AddBackground(p, b, c)
    PROVE  FileIInv'
<1>1. PICK q : q = [Idle EXCEPT !.pc = "put", !.op = "bg", !.key = b, !.content = c]
  OBVIOUS
<1>2. q = [pc |-> "put", op |-> "bg", u |-> Null, f |-> Null, key |-> b,
           content |-> c, image |-> 0, late |-> 0]
  BY <1>1 DEF Idle
<1>3. q \in ReqRec
  BY <1>2 DEF ReqRec
<1>4. Only(p, q) /\ UNCHANGED <<bg, used, pre>>
  BY <1>1 DEF AddBackground, Only
<1>5. started' \in 0..MaxRequests /\ req[p].pc = "idle"
  BY StartOK DEF AddBackground
<1>6. b \notin pre /\ bg[b].state = "absent"
  BY FileAssumption DEF FileIInv, FileTypeOK, AddBackground
<1>7. Shape(q)'
  BY <1>2, <1>3, <1>4, <1>6 DEF Shape, Writing, Deleting
<1>8. Progress(q)'
  BY <1>2, <1>4, <1>6 DEF Progress, Writing
<1>9. \A o \in Procs : req[o].key # q.key
  BY <1>2 DEF AddBackground
<1> QED
  BY <1>4, <1>5, <1>7, <1>8, <1>9, OnlyStep

LEMMA CompletePresignedUploadStep ==
    ASSUME FileIInv, NEW p \in Procs, NEW u \in Users, NEW i \in 0..1, NEW k \in Keys,
           CompletePresignedUpload(p, u, i, k)
    PROVE  FileIInv'
<1>1. PICK q : q = [Idle EXCEPT !.pc = "stat", !.op = "file", !.u = u, !.key = k, !.image = i]
  OBVIOUS
<1>2. q = [pc |-> "stat", op |-> "file", u |-> u, f |-> Null, key |-> k,
           content |-> Null, image |-> i, late |-> 0]
  BY <1>1 DEF Idle
<1>3. q \in ReqRec
  BY <1>2 DEF ReqRec
<1>4. Only(p, q) /\ k \in pre /\ k \in pre'
  BY <1>1 DEF CompletePresignedUpload, Only
<1>5. started' \in 0..MaxRequests /\ req[p].pc = "idle"
  BY StartOK DEF CompletePresignedUpload
<1>6. Shape(q)'
  BY <1>2, <1>3, <1>4 DEF Shape, Writing, Deleting
<1>7. Progress(q)'
  BY <1>2, <1>4 DEF Progress, Writing
<1> QED
  BY <1>2, <1>4, <1>5, <1>6, <1>7, OnlyStep

LEMMA StatObjectStep ==
    ASSUME FileIInv, NEW p \in Procs, StatObject(p)
    PROVE  FileIInv'
<1> DEFINE c == obj[req[p].key]
<1>1. /\ Shape(req[p]) /\ req[p] \in ReqRec /\ req[p].pc = "stat" /\ req[p].op = "file"
      /\ req[p].key \in pre /\ started' \in 0..MaxRequests
      /\ pre \subseteq used /\ used \subseteq Keys
  BY DEF FileIInv, Shape, StatObject, At, FileTypeOK
<1>2. CASE c # Null /\ WithinLimits(c.size)
  <2>1. PICK q : q = [req[p] EXCEPT !.pc = "insert", !.content = c]
    OBVIOUS
  <2>2. Only(p, q) /\ UNCHANGED <<obj, used, pre>>
    BY <1>2, <2>1 DEF StatObject, Only
  <2>3. c \in Contents
    BY <1>1, <1>2 DEF FileIInv, FileTypeOK
  <2>4. q \in ReqRec /\ q.pc = "insert" /\ q.op = "file" /\ q.key = req[p].key /\ q.content = c
    BY <1>1, <2>1, <2>3 DEF ReqRec
  <2>5. Shape(q)'
    BY <1>1, <1>2, <2>2, <2>3, <2>4 DEF Shape, Writing, Deleting
  <2>6. obj'[q.key] = q.content
    BY <2>2, <2>4
  <2>7. Progress(q)'
    BY <1>1, <1>2, <2>2, <2>4, <2>6 DEF Progress, Writing
  <2> QED
    BY <1>1, <2>2, <2>4, <2>5, <2>7, OnlyStep
<1>3. CASE ~ (c # Null /\ WithinLimits(c.size))
  <2>1. Only(p, Idle)
    BY <1>3 DEF StatObject
  <2> QED
    BY <1>1, <2>1, IdleOK, OthersKeys, OnlyStep DEF Writing
<1> QED
  BY <1>2, <1>3

LEMMA DeleteFileStep ==
    ASSUME FileIInv, NEW p \in Procs, NEW u \in Users, NEW f \in Ids, DeleteFile(p, u, f)
    PROVE  FileIInv'
<1>1. PICK q : q = [Idle EXCEPT !.pc = "select", !.op = "file", !.f = f]
  OBVIOUS
<1>2. q = [pc |-> "select", op |-> "file", u |-> Null, f |-> f, key |-> Null,
           content |-> Null, image |-> 0, late |-> 0]
  BY <1>1 DEF Idle
<1>3. q \in ReqRec
  BY <1>2 DEF ReqRec
<1>4. Only(p, q)
  BY <1>1 DEF DeleteFile
<1>5. started' \in 0..MaxRequests /\ req[p].pc = "idle"
  BY StartOK DEF DeleteFile
<1>6. Shape(q)' /\ Progress(q)'
  BY <1>2, <1>3 DEF Shape, Progress, Writing, Deleting
<1>7. \A o \in Procs : Writing(req[o]) => req[o].key # q.key
  BY <1>2, OthersKeys
<1> QED
  BY <1>2, <1>4, <1>5, <1>6, <1>7, OnlyStep DEF Writing

LEMMA ListBackgroundsStep ==
    ASSUME FileIInv, NEW p \in Procs, ListBackgrounds(p)
    PROVE  FileIInv'
<1>1. PICK q : q = [Idle EXCEPT !.pc = "fill"]
  OBVIOUS
<1>2. q = [pc |-> "fill", op |-> "none", u |-> Null, f |-> Null, key |-> Null,
           content |-> Null, image |-> 0, late |-> 0]
  BY <1>1 DEF Idle
<1>3. q \in ReqRec
  BY <1>2 DEF ReqRec
<1>4. Only(p, q)
  BY <1>1 DEF ListBackgrounds
<1>5. started' \in 0..MaxRequests /\ req[p].pc = "idle"
  BY StartOK DEF ListBackgrounds
<1>6. Shape(q)' /\ Progress(q)'
  BY <1>2, <1>3 DEF Shape, Progress, Writing, Deleting
<1>7. \A o \in Procs : Writing(req[o]) => req[o].key # q.key
  BY <1>2, OthersKeys
<1> QED
  BY <1>2, <1>4, <1>5, <1>6, <1>7, OnlyStep DEF Writing

LEMMA DeleteBackgroundStep ==
    ASSUME FileIInv, NEW p \in Procs, NEW b \in Bgs, DeleteBackground(p, b)
    PROVE  FileIInv'
<1>1. PICK q : q = [Idle EXCEPT !.pc = "object", !.op = "bg", !.key = b]
  OBVIOUS
<1>2. q = [pc |-> "object", op |-> "bg", u |-> Null, f |-> Null, key |-> b,
           content |-> Null, image |-> 0, late |-> 0]
  BY <1>1 DEF Idle
<1>3. q \in ReqRec
  BY <1>2 DEF ReqRec
<1>4. Only(p, q)
  BY <1>1 DEF DeleteBackground
<1>5. started' \in 0..MaxRequests /\ req[p].pc = "idle"
  BY StartOK DEF DeleteBackground
<1>6. Shape(q)' /\ Progress(q)'
  BY <1>2, <1>3 DEF Shape, Progress, Writing, Deleting
<1>7. \A o \in Procs : Writing(req[o]) => req[o].key # q.key
  BY <1>2, OthersKeys DEF DeleteBackground
<1> QED
  BY <1>2, <1>4, <1>5, <1>6, <1>7, OnlyStep DEF Writing

LEMMA SelectFileStep ==
    ASSUME FileIInv, NEW p \in Procs, SelectFile(p)
    PROVE  FileIInv'
<1> DEFINE f == req[p].f
<1>1. /\ Shape(req[p]) /\ req[p] \in ReqRec /\ req[p].pc = "select" /\ req[p].op = "file"
      /\ f \in Ids /\ started' \in 0..MaxRequests
  BY DEF FileIInv, Shape, SelectFile, At, FileTypeOK
<1>2. CASE f \in LiveFiles
  <2>1. PICK q : q = [req[p] EXCEPT !.pc = "object", !.key = file[f].key]
    OBVIOUS
  <2>2. Only(p, q) /\ UNCHANGED <<file>>
    BY <1>2, <2>1 DEF SelectFile, Only
  <2>3. file[f].key \in Keys /\ file[f].state = "live"
    BY <1>2 DEF FileIInv, FileInv, FileTypeOK, LiveFiles
  <2>4. /\ q \in ReqRec /\ q.pc = "object" /\ q.op = "file" /\ q.key = file[f].key
        /\ q.f = req[p].f
    BY <1>1, <2>1, <2>3 DEF ReqRec
  <2>5. Shape(q)' /\ Progress(q)'
    BY <1>1, <2>2, <2>3, <2>4 DEF Shape, Progress, Writing, Deleting
  <2>6. \A o \in Procs : Writing(req[o]) /\ req[o].key \notin pre => req[o].key # q.key
    BY <1>1, <2>3, <2>4, OthersKeys
  <2> QED
    BY <1>1, <2>2, <2>4, <2>5, <2>6, OnlyStep DEF Writing
<1>3. CASE f \notin LiveFiles
  <2>1. Only(p, Idle)
    BY <1>3 DEF SelectFile
  <2> QED
    BY <1>1, <2>1, IdleOK, OthersKeys, OnlyStep DEF Writing
<1> QED
  BY <1>2, <1>3

\* A handler that is done with its key, or keeps it, while no table changes.
LEMMA LeaveStep ==
    ASSUME FileIInv, NEW p \in Procs, NEW q, Goto(p, q), Shape(q)', Progress(q)', ~ Writing(q),
           q.key \in {req[p].key, Null}, UNCHANGED <<tables, rest, started>>,
           faults' \in 0..MaxFaults, ListOK', cause' \in [Keys \cup Bgs -> SUBSET Causes],
           \A k \in Keys \cup Bgs :
              /\ cause[k] \subseteq cause'[k]
              /\ Removes(req[p], k) \/ Drops(req[p], k)
                    => "row" \in cause'[k] \/ (Drops(req[p], k) /\ Drops(q, k))
              /\ Registers(req[p], k) \/ Adds(req[p], k) => cause'[k] # {}
    PROVE  FileIInv'
<1>1. q \in ReqRec /\ Alone /\ FileTypeOK
  BY DEF Shape, FileIInv
<1>2. Moved(p, q)
  BY <1>1, GotoMoves
<1>3. OneActive' /\ Sizes' /\ KeysKept /\ url' \subseteq pre'
  BY DEF FileIInv, FileTypeOK, OneActive, Sizes, KeysKept
<1>4. /\ bg' \in [Bgs -> [state: {"absent", "live", "deleted"}, active: 0..2]]
      /\ \A b \in Bgs : bg'[b].state = bg[b].state
  BY <1>1 DEF FileTypeOK
<1>5. \A o \in Procs \ {p} : Writing(req[o]) /\ req[o].key \notin pre => req[o].key # q.key
  BY <1>1, OthersKeys DEF Alone
<1> QED
  BY <1>2, <1>3, <1>4, <1>5, QuietStep

LEMMA BecauseOK ==
    ASSUME FileIInv, NEW k \in Keys \cup Bgs, NEW why \in Causes, Because(k, why)
    PROVE  /\ cause' \in [Keys \cup Bgs -> SUBSET Causes]
           /\ why \in cause'[k] /\ \A j \in Keys \cup Bgs : cause[j] \subseteq cause'[j]
<1>1. cause \in [Keys \cup Bgs -> SUBSET Causes]
  BY DEF FileIInv, FileTypeOK
<1> QED
  BY <1>1 DEF Because

LEMMA FaultOK ==
    ASSUME FileIInv, Fault
    PROVE  faults' \in 0..MaxFaults
<1>1. faults \in 0..MaxFaults
  BY DEF FileIInv, FileTypeOK
<1> QED
  BY <1>1, FileAssumption DEF Fault

\* The list is left alone by a handler that had no eviction to come.
LEMMA ListKept ==
    ASSUME FileIInv, NEW p \in Procs, NEW q, Moved(p, q), req[p].pc # "evict", UNCHANGED cacheVars
    PROVE  ListOK'
<1>1. (\E o \in Procs : req[o].pc = "evict") => \E o \in Procs : req'[o].pc = "evict"
  BY DEF Moved, Same
<1> QED
  BY <1>1 DEF ListOK, FileIInv, FileTypeOK, ListStaleExcused

LEMMA InsertFailsStep ==
    ASSUME FileIInv, NEW p \in Procs, InsertFails(p)
    PROVE  FileIInv'
<1>1. /\ Writing(req[p]) /\ req[p].pc = "insert" /\ Goto(p, Idle) /\ Because(req[p].key, "insert")
      /\ Fault /\ UNCHANGED <<tables, rest, cacheVars, started>>
  BY DEF InsertFails, At, Writing
<1>2. req[p].key \in Keys \cup Bgs
  BY <1>1, KeyOf DEF FileIInv, FileTypeOK
<1>3. /\ cause' \in [Keys \cup Bgs -> SUBSET Causes]
      /\ "insert" \in cause'[req[p].key] /\ \A j \in Keys \cup Bgs : cause[j] \subseteq cause'[j]
  BY <1>1, <1>2, BecauseOK DEF Causes
<1>4. faults' \in 0..MaxFaults
  BY <1>1, FaultOK
<1>5. ListOK'
  BY <1>1, IdleOK, GotoMoves, ListKept
<1>6. ~ Writing(Idle) /\ Idle.key = Null
  BY IdleOK DEF Writing
<1>7. \A k \in Keys \cup Bgs :
         /\ ~ Removes(req[p], k) /\ ~ Drops(req[p], k)
         /\ Registers(req[p], k) \/ Adds(req[p], k) => cause'[k] # {}
  BY <1>1, <1>3 DEF Removes, Drops, Registers, Adds
<1> QED
  BY <1>1, <1>3, <1>4, <1>5, <1>6, <1>7, IdleOK, LeaveStep

LEMMA DeleteRowFailsStep ==
    ASSUME FileIInv, NEW p \in Procs, DeleteRowFails(p)
    PROVE  FileIInv'
<1>1. /\ Deleting(req[p]) /\ req[p].pc = "row" /\ Goto(p, Idle) /\ Because(req[p].key, "row")
      /\ Fault /\ UNCHANGED <<tables, rest, cacheVars, started>>
  BY DEF DeleteRowFails, At, Deleting
<1>2. req[p].key \in Keys \cup Bgs
  BY <1>1, KeyOf DEF FileIInv, FileTypeOK
<1>3. /\ cause' \in [Keys \cup Bgs -> SUBSET Causes]
      /\ "row" \in cause'[req[p].key] /\ \A j \in Keys \cup Bgs : cause[j] \subseteq cause'[j]
  BY <1>1, <1>2, BecauseOK DEF Causes
<1>4. faults' \in 0..MaxFaults
  BY <1>1, FaultOK
<1>5. ListOK'
  BY <1>1, IdleOK, GotoMoves, ListKept
<1>6. ~ Writing(Idle) /\ Idle.key = Null
  BY IdleOK DEF Writing
<1>7. \A k \in Keys \cup Bgs :
         /\ Removes(req[p], k) \/ Drops(req[p], k) => "row" \in cause'[k]
         /\ ~ Registers(req[p], k) /\ ~ Adds(req[p], k)
  BY <1>1, <1>3 DEF Removes, Drops, Registers, Adds
<1> QED
  BY <1>1, <1>3, <1>4, <1>5, <1>6, <1>7, IdleOK, LeaveStep

\* The record of a handler after the object is gone or was left behind.
LEMMA AfterObjectOK ==
    ASSUME FileIInv, NEW p \in Procs, req[p].pc = "object"
    PROVE  LET q == AfterObject(req[p]) IN
           /\ q \in ReqRec /\ q.key = req[p].key /\ q.op = req[p].op /\ q.f = req[p].f
           /\ q.pc = IF q.op = "bg" THEN "early" ELSE "row"
           /\ q.content = req[p].content /\ q.image = req[p].image
           /\ req[p].op # "bg" => req[p].op = "file"
<1>1. req[p] \in ReqRec /\ Shape(req[p])
  BY DEF FileIInv, Shape
<1> QED
  BY <1>1 DEF AfterObject, ReqRec, Shape, Deleting

LEMMA DeleteObjectLostStep ==
    ASSUME FileIInv, NEW p \in Procs, DeleteObjectLost(p)
    PROVE  FileIInv'
<1>1. PICK q : q = AfterObject(req[p])
  OBVIOUS
<1>2. /\ Deleting(req[p]) /\ req[p].pc = "object" /\ Goto(p, q) /\ Because(req[p].key, "object")
      /\ Fault /\ UNCHANGED <<tables, rest, cacheVars, started>> /\ Shape(req[p])
  BY <1>1 DEF DeleteObjectLost, At, Deleting, FileIInv
<1>3. /\ q \in ReqRec /\ q.key = req[p].key /\ q.op = req[p].op /\ q.f = req[p].f
      /\ q.pc = IF q.op = "bg" THEN "early" ELSE "row"
  BY <1>1, <1>2, AfterObjectOK
<1>4. req[p].key \in Keys \cup Bgs
  BY <1>2, KeyOf DEF FileIInv, FileTypeOK
<1>5. /\ cause' \in [Keys \cup Bgs -> SUBSET Causes]
      /\ "object" \in cause'[req[p].key] /\ \A j \in Keys \cup Bgs : cause[j] \subseteq cause'[j]
  BY <1>2, <1>4, BecauseOK DEF Causes
<1>6. faults' \in 0..MaxFaults
  BY <1>2, FaultOK
<1>7. ListOK'
  BY <1>2, <1>3, GotoMoves, ListKept
<1>8. Shape(q)'
  BY <1>2, <1>3 DEF Shape, Writing, Deleting
<1>9. Progress(q)'
  BY <1>3, <1>5 DEF Progress, Writing
<1>10. \A k \in Keys \cup Bgs :
         /\ ~ Removes(req[p], k) /\ ~ Drops(req[p], k)
         /\ ~ Registers(req[p], k) /\ ~ Adds(req[p], k)
  BY <1>2 DEF Removes, Drops, Registers, Adds
<1>11. ~ Writing(q)
  BY <1>3 DEF Writing
<1> QED
  BY <1>2, <1>3, <1>5, <1>6, <1>7, <1>8, <1>9, <1>10, <1>11, LeaveStep

LEMMA FillStep ==
    ASSUME FileIInv, NEW p \in Procs, Fill(p)
    PROVE  FileIInv'
<1>1. /\ req[p].pc = "fill" /\ Goto(p, Idle) /\ UNCHANGED <<tables, rest, started, faults, cause>>
      /\ req[p].late \in 0..1 /\ excuse' = req[p].late
      /\ list' = IF req[p].late = 1 THEN "stale" ELSE "fresh"
  BY DEF Fill, At, FileIInv, FileTypeOK
<1>2. ListOK'
  BY <1>1 DEF ListOK, ListStaleExcused
<1>3. ~ Writing(Idle) /\ Idle.key = Null
  BY IdleOK DEF Writing
<1>4. \A k \in Keys \cup Bgs :
         /\ ~ Removes(req[p], k) /\ ~ Drops(req[p], k)
         /\ ~ Registers(req[p], k) /\ ~ Adds(req[p], k)
  BY <1>1 DEF Removes, Drops, Registers, Adds
<1>5. faults' \in 0..MaxFaults /\ cause' \in [Keys \cup Bgs -> SUBSET Causes]
  BY <1>1 DEF FileIInv, FileTypeOK
<1>6. \A k \in Keys \cup Bgs : cause[k] \subseteq cause'[k]
  BY <1>1
<1> QED
  BY <1>1, <1>2, <1>3, <1>4, <1>5, <1>6, IdleOK, LeaveStep

\* An eviction, done or lost: the deletion of a background goes on to its row.
LEMMA EvictionStep ==
    ASSUME FileIInv, NEW p \in Procs, req[p].pc \in {"early", "evict"}, Goto(p, AfterEvict(req[p])),
           UNCHANGED <<tables, rest, started, cause>>, faults' \in 0..MaxFaults, ListOK'
    PROVE  FileIInv'
<1>1. PICK q : q = AfterEvict(req[p])
  OBVIOUS
<1>2. Goto(p, q) /\ Shape(req[p]) /\ Progress(req[p]) /\ req[p] \in ReqRec
  BY <1>1 DEF FileIInv, Shape
<1>3. \A k \in Keys \cup Bgs :
         /\ ~ Removes(req[p], k) /\ ~ Registers(req[p], k) /\ ~ Adds(req[p], k)
         /\ cause[k] \subseteq cause'[k]
  BY DEF Removes, Registers, Adds
<1>4. cause' \in [Keys \cup Bgs -> SUBSET Causes]
  BY DEF FileIInv, FileTypeOK
<1>5. CASE req[p].pc = "early"
  <2>1. q = [req[p] EXCEPT !.pc = "row"]
    BY <1>1, <1>5 DEF AfterEvict
  <2>2. q \in ReqRec /\ q.pc = "row" /\ q.key = req[p].key /\ q.op = req[p].op /\ q.f = req[p].f
    BY <1>2, <2>1 DEF ReqRec
  <2>3. Shape(q)'
    BY <1>2, <1>5, <2>2 DEF Shape, Writing, Deleting
  <2>4. Progress(q)'
    BY <1>2, <1>5, <2>2 DEF Progress, Writing
  <2>5. \A k \in Keys \cup Bgs : Drops(req[p], k) => Drops(q, k)
    BY <1>5, <2>2 DEF Drops
  <2>6. ~ Writing(q)
    BY <2>2 DEF Writing
  <2> QED
    BY <1>2, <1>3, <1>4, <2>2, <2>3, <2>4, <2>5, <2>6, LeaveStep
<1>6. CASE req[p].pc = "evict"
  <2>1. q = Idle
    BY <1>1, <1>6 DEF AfterEvict
  <2>2. ~ Writing(q) /\ q.key = Null /\ Shape(q)' /\ Progress(q)'
    BY <2>1, IdleOK DEF Writing
  <2>3. \A k \in Keys \cup Bgs : ~ Drops(req[p], k)
    BY <1>6 DEF Drops
  <2> QED
    BY <1>2, <1>3, <1>4, <2>2, <2>3, LeaveStep
<1> QED
  BY <1>5, <1>6

LEMMA EvictStep ==
    ASSUME FileIInv, NEW p \in Procs, Evict(p) \/ EvictLost(p)
    PROVE  FileIInv'
<1>1. CASE Evict(p)
  <2>1. ListOK'
    BY <1>1 DEF Evict, ListOK, ListStaleExcused
  <2>2. faults' \in 0..MaxFaults
    BY <1>1 DEF Evict, FileIInv, FileTypeOK
  <2> QED
    BY <1>1, <2>1, <2>2, EvictionStep DEF Evict
<1>2. CASE EvictLost(p)
  <2>1. ListOK'
    BY <1>2 DEF EvictLost, ListOK, ListStaleExcused, FileIInv, FileTypeOK
  <2>2. faults' \in 0..MaxFaults
    BY <1>2, FaultOK DEF EvictLost
  <2> QED
    BY <1>2, <2>1, <2>2, EvictionStep DEF EvictLost
<1> QED
  BY <1>1, <1>2

LEMMA SetActiveBackgroundStep ==
    ASSUME FileIInv, NEW p \in Procs, NEW b \in Bgs, SetActiveBackground(p, b)
    PROVE  FileIInv'
<1>1. PICK q : q = [Idle EXCEPT !.pc = "activate", !.op = "bg", !.key = b]
  OBVIOUS
<1>2. q = [pc |-> "activate", op |-> "bg", u |-> Null, f |-> Null, key |-> b,
           content |-> Null, image |-> 0, late |-> 0]
  BY <1>1 DEF Idle
<1>3. q \in ReqRec
  BY <1>2 DEF ReqRec
<1>4. Only(p, q)
  BY <1>1 DEF SetActiveBackground
<1>5. started' \in 0..MaxRequests /\ req[p].pc = "idle"
  BY StartOK DEF SetActiveBackground
<1>6. Shape(q)' /\ Progress(q)'
  BY <1>2, <1>3 DEF Shape, Progress, Writing, Deleting
<1>7. \A o \in Procs : Writing(req[o]) => req[o].key # q.key
  BY <1>2, OthersKeys DEF SetActiveBackground
<1> QED
  BY <1>2, <1>4, <1>5, <1>6, <1>7, OnlyStep DEF Writing

LEMMA SetActiveFailsStep ==
    ASSUME FileIInv, NEW p \in Procs, SetActiveFails(p)
    PROVE  FileIInv'
<1>1. Only(p, Idle) /\ req[p].pc = "activate" /\ started' \in 0..MaxRequests
  BY DEF SetActiveFails, At, FileIInv, FileTypeOK
<1> QED
  BY <1>1, IdleOK, OthersKeys, OnlyStep DEF Writing

\* A switch, whether or not its first UPDATE reset the others.
LEMMA SwitchStep ==
    ASSUME FileIInv, NEW p \in Procs, NEW left \in {0, 2}, Switch(p, left),
           faults' \in 0..MaxFaults
    PROVE  FileIInv'
<1>1. PICK q, b : q = [Idle EXCEPT !.pc = "evict"] /\ b = req[p].key
  OBVIOUS
<1>2. q = [pc |-> "evict", op |-> "none", u |-> Null, f |-> Null, key |-> Null,
           content |-> Null, image |-> 0, late |-> 0]
  BY <1>1 DEF Idle
<1>3. q \in ReqRec
  BY <1>2 DEF ReqRec
<1>4. /\ BgChanged(p, q, {"fill", "activate"}) /\ UNCHANGED <<obj, file, rest, excuse, cause, started>>
      /\ req[p].pc = "activate"
      /\ bg' = [x \in Bgs |-> [bg[x] EXCEPT !.active = IF x = b THEN 1
                                                       ELSE IF bg[x].active = 0 THEN 0 ELSE left]]
  BY <1>1 DEF Switch, At
<1>6. Moved(p, q)
  BY <1>3, <1>4, BgChangedMoves
<1>7. Shape(q)' /\ Progress(q)'
  BY <1>2, <1>3 DEF Shape, Progress, Writing, Deleting
<1>8. FileTypeOK
  BY DEF FileIInv
<1>9. /\ bg' \in [Bgs -> [state: {"absent", "live", "deleted"}, active: 0..2]]
      /\ \A x \in Bgs : /\ bg'[x].state = bg[x].state
                         /\ bg'[x].active = IF x = b THEN 1 ELSE IF bg[x].active = 0 THEN 0 ELSE left
  <2>1. bg \in [Bgs -> [state: {"absent", "live", "deleted"}, active: 0..2]]
    BY <1>8 DEF FileTypeOK
  <2> QED
    BY <1>4, <2>1
<1>10. OneActive'
  BY <1>9 DEF OneActive
<1>11. Sizes' /\ KeysKept /\ url' \subseteq pre'
  BY <1>4, <1>8 DEF FileTypeOK, Sizes, KeysKept
<1>12. ListOK'
  <2>1. req'[p].pc = "evict"
    BY <1>2, <1>6 DEF Moved
  <2>2. list' \in {"none", "fresh", "stale"} /\ excuse' \in 0..1
    BY <1>4, <1>8 DEF FileTypeOK, BgChanged
  <2> QED
    BY <2>1, <2>2 DEF ListOK, ListStaleExcused
<1>13. \A k \in Keys \cup Bgs : /\ ~ Removes(req[p], k) /\ ~ Drops(req[p], k)
                                /\ ~ Registers(req[p], k) /\ ~ Adds(req[p], k)
                                /\ cause[k] \subseteq cause'[k]
  BY <1>4 DEF Removes, Drops, Registers, Adds
<1>14. cause' \in [Keys \cup Bgs -> SUBSET Causes]
  BY <1>4, <1>8 DEF FileTypeOK
<1>15. \A o \in Procs : Writing(req[o]) => req[o].key # q.key
  BY <1>2, OthersKeys
<1>16. ~ Writing(q)
  BY <1>2 DEF Writing
<1> QED
  BY <1>4, <1>6, <1>7, <1>9, <1>10, <1>11, <1>12, <1>13, <1>14, <1>15, <1>16, QuietStep

LEMMA SetActiveStep ==
    ASSUME FileIInv, NEW p \in Procs, SetActive(p) \/ SetActiveMisses(p)
    PROVE  FileIInv'
<1>1. CASE SetActive(p)
  BY <1>1, SwitchStep DEF SetActive, FileIInv, FileTypeOK
<1>2. CASE SetActiveMisses(p)
  <2>1. faults' \in 0..MaxFaults
    BY <1>2, FaultOK DEF SetActiveMisses, FileIInv, FileTypeOK
  <2> QED
    BY <1>2, <2>1, SwitchStep DEF SetActiveMisses
<1> QED
  BY <1>1, <1>2
-----------------------------------------------------------------------------
(* Steps of the client and of the clock: no handler moves.                 *)

LEMMA StillOthers ==
    ASSUME FileIInv, NEW o \in Procs, UNCHANGED req
    PROVE  \E r : r = req'[o] /\ Same(r, req[o])
  BY DEF FileIInv, FileTypeOK, Same, ReqRec

LEMMA StillStep ==
    ASSUME FileIInv, KeysKept, UNCHANGED <<obj, file, bg, req, cause>>, url' \subseteq pre',
           Sizes', ListOK'
    PROVE  FileIInv'
<1>1. FileTypeOK'
  BY DEF FileIInv, FileTypeOK, Sizes, ListOK, KeysKept
<1>2. ASSUME NEW o \in Procs PROVE Shape(req[o])' /\ Progress(req[o])'
  <2>1. PICK r : r = req'[o] /\ Same(r, req[o])
    BY StillOthers
  <2>2. Shape(r)'
    BY <2>1, ShapeKept
  <2>3. Progress(r)'
    BY <2>1, OtherProgress
  <2>4. Shape(req[o])'
    BY <2>1, <2>2 DEF Shape, Writing, Deleting
  <2>5. Progress(req[o])'
    BY <2>1, <2>3 DEF Progress, Writing
  <2> QED
    BY <2>4, <2>5
<1>3. Alone'
  BY DEF FileIInv, Alone, KeysKept, Writing
<1>4. ASSUME NEW f \in Ids PROVE FileInv(f)'
  BY FileKept
<1>5. ASSUME NEW k \in Keys PROVE KeyInv(k)'
  <2>1. RowsOf(k)' = RowsOf(k)
    BY DEF RowsOf, LiveFiles
  <2> QED
    BY <2>1, KeyKept
<1>6. ASSUME NEW b \in Bgs PROVE BgInv(b)'
  BY BgKept
<1>7. OneActive'
  BY DEF FileIInv, OneActive
<1> QED
  BY <1>1, <1>2, <1>3, <1>4, <1>5, <1>6, <1>7 DEF FileIInv, ListOK

LEMMA RequestOK ==
    ASSUME FileIInv, Request
    PROVE  started' \in 0..MaxRequests
<1>1. started \in 0..MaxRequests
  BY DEF FileIInv, FileTypeOK
<1> QED
  BY <1>1, FileAssumption DEF Request

LEMMA CreatePresignedUploadStep ==
    ASSUME FileIInv, NEW k \in Keys, CreatePresignedUpload(k)
    PROVE  FileIInv'
<1>1. KeysKept /\ url' \subseteq pre'
  BY DEF FileIInv, FileTypeOK, CreatePresignedUpload, KeysKept
<1>2. UNCHANGED <<tables, req, cacheVars, faults, cause>>
  BY DEF CreatePresignedUpload
<1>3. ListOK'
  BY <1>2 DEF FileIInv, FileTypeOK, ListOK, ListStaleExcused
<1>4. Sizes'
  BY <1>2, RequestOK DEF CreatePresignedUpload, Sizes, FileIInv, FileTypeOK
<1> QED
  BY <1>1, <1>2, <1>3, <1>4, StillStep

LEMMA UrlExpiresStep ==
    ASSUME FileIInv, NEW k \in Keys, UrlExpires(k)
    PROVE  FileIInv'
<1>1. KeysKept /\ url' \subseteq pre' /\ Sizes'
  BY DEF FileIInv, FileTypeOK, UrlExpires, KeysKept, Sizes
<1>2. UNCHANGED <<tables, req, cacheVars, faults, cause>>
  BY DEF UrlExpires
<1>3. ListOK'
  BY <1>2 DEF FileIInv, FileTypeOK, ListOK, ListStaleExcused
<1> QED
  BY <1>1, <1>2, <1>3, StillStep

LEMMA ExpireStep ==
    ASSUME FileIInv, Expire
    PROVE  FileIInv'
<1>1. KeysKept /\ url' \subseteq pre' /\ Sizes' /\ ListOK'
  BY DEF FileIInv, FileTypeOK, Expire, KeysKept, Sizes, ListOK, ListStaleExcused
<1> QED
  BY <1>1, StillStep DEF Expire

LEMMA ClientPutStep ==
    ASSUME FileIInv, NEW k \in Keys, NEW c \in Contents, ClientPut(k, c)
    PROVE  FileIInv'
<1>1. UNCHANGED <<file, bg, req, rest, cacheVars, faults>> /\ FileTypeOK
  BY DEF ClientPut, FileIInv
<1>2. k \in pre /\ k \in used /\ k \notin Bgs /\ c # Null
  BY FileAssumption DEF ClientPut, FileIInv, FileTypeOK
<1>3. /\ obj' \in [Keys \cup Bgs -> Contents \cup {Null}] /\ obj'[k] = c
      /\ \A j \in Keys \cup Bgs : j # k => obj'[j] = obj[j]
  BY <1>1 DEF ClientPut, FileTypeOK
<1>4. /\ cause' \in [Keys \cup Bgs -> SUBSET Causes]
      /\ \A j \in Keys \cup Bgs : cause[j] \subseteq cause'[j]
      /\ (\E f \in Ids : file[f].key = k) \/ (\E p \in Procs : req[p].key = k)
            => "reput" \in cause'[k]
  BY <1>1 DEF ClientPut, FileTypeOK, Causes
<1>5. KeysKept /\ Sizes' /\ ListOK'
  BY <1>1, RequestOK DEF ClientPut, FileIInv, FileTypeOK, KeysKept, Sizes, ListOK, ListStaleExcused
<1>6. FileTypeOK'
  BY <1>1, <1>3, <1>4, <1>5 DEF FileTypeOK, Sizes
<1>7. ASSUME NEW o \in Procs PROVE Shape(req[o])' /\ Progress(req[o])'
  <2>1. PICK r : r = req'[o] /\ Same(r, req[o])
    BY <1>1, StillOthers
  <2>2. Shape(r)'
    BY <1>1, <1>5, <2>1, ShapeKept
  <2>3. Shape(req[o])'
    BY <2>1, <2>2 DEF Shape, Writing, Deleting
  <2>4. CASE r.key # k
    <3>1. r.key \in used \cup Bgs => r.key \in Keys \cup Bgs
      BY <1>1 DEF FileTypeOK
    <3>2. Progress(r)'
      BY <1>1, <1>3, <1>4, <1>5, <2>1, <2>4, <3>1, OtherProgress
    <3> QED
      BY <2>1, <2>3, <3>2 DEF Progress, Writing
  <2>5. CASE r.key = k
    <3>1. "reput" \in cause'[k]
      BY <1>4, <2>1, <2>5 DEF Same
    <3>2. Writing(r) => r.op = "file"
      BY <1>2, <2>1, <2>5 DEF FileIInv, Shape, Same, Writing
    <3>3. Progress(r)'
      BY <1>1, <1>2, <1>3, <2>5, <3>1, <3>2 DEF Progress, Writing
    <3> QED
      BY <2>1, <2>3, <3>3 DEF Progress, Writing
  <2> QED
    BY <2>4, <2>5
<1>8. Alone'
  BY <1>1 DEF FileIInv, Alone, Writing
<1>9. ASSUME NEW f \in Ids PROVE FileInv(f)'
  <2> DEFINE j == file[f].key
  <2>1. j # Null => j \in Keys
    BY <1>1 DEF FileTypeOK, Row
  <2>2. CASE j # k
    BY <1>1, <1>3, <1>4, <1>5, <2>1, <2>2, FileKept
  <2>3. CASE j = k
    <3>1. FileInv(f)
      BY DEF FileIInv
    <3>2. "reput" \in cause'[k]
      BY <1>4, <2>3
    <3>3. Recorded(file[f]) => Recorded(file[f])'
      BY <1>1, <1>2, <1>3, <2>3, <3>2 DEF Recorded
    <3> QED
      BY <1>1, <1>4, <2>3, <3>1, <3>3 DEF FileInv
  <2> QED
    BY <2>2, <2>3
<1>10. ASSUME NEW j \in Keys PROVE KeyInv(j)'
  <2>1. CASE j = k
    BY <1>1, <1>2, <2>1 DEF KeyInv
  <2>2. CASE j # k
    <3>1. RowsOf(j)' = RowsOf(j)
      BY <1>1 DEF RowsOf, LiveFiles
    <3> QED
      BY <1>1, <1>3, <1>4, <1>5, <2>2, <3>1, KeyKept
  <2> QED
    BY <2>1, <2>2
<1>11. ASSUME NEW b \in Bgs PROVE BgInv(b)'
  BY <1>1, <1>2, <1>3, <1>4, BgKept
<1>12. OneActive'
  BY <1>1 DEF FileIInv, OneActive
<1> QED
  BY <1>5, <1>6, <1>7, <1>8, <1>9, <1>10, <1>11, <1>12 DEF FileIInv, ListOK
-----------------------------------------------------------------------------
(* Steps that write an object or a row.                                    *)

\* What is left to show when a handler has written: its own record, the progress of the
\* others, and the invariants of rows and objects.
LEMMA WriteStep ==
    ASSUME FileIInv, NEW p \in Procs, NEW q, Moved(p, q), Shape(q)', Progress(q)',
           UNCHANGED <<rest, started>>, faults' = faults \/ faults' \in 0..MaxFaults,
           Writing(q) => Writing(req[p]) /\ q.key = req[p].key, q.key \in {req[p].key, Null},
           \A f \in Ids : file[f].key # Null => file'[f].key = file[f].key,
           \A o \in Procs \ {p} : Progress(req[o])',
           obj' \in [Keys \cup Bgs -> Contents \cup {Null}], file' \in [Ids -> Row],
           bg' \in [Bgs -> [state: {"absent", "live", "deleted"}, active: 0..2]], OneActive',
           cause' \in [Keys \cup Bgs -> SUBSET Causes], ListOK',
           \A f \in Ids : FileInv(f)', \A k \in Keys : KeyInv(k)', \A b \in Bgs : BgInv(b)'
    PROVE  FileIInv'
<1>1. KeysKept /\ Sizes' /\ url' \subseteq pre' /\ Alone
  BY DEF FileIInv, FileTypeOK, KeysKept, Sizes
<1>2. FileTypeOK'
  <2>2. req' \in [Procs -> ReqRec]
    BY DEF Moved
  <2> QED
    BY <1>1, <2>2 DEF FileTypeOK, ReqRec, Sizes, ListOK, KeysKept
<1>3. ASSUME NEW o \in Procs PROVE Shape(req[o])' /\ Progress(req[o])'
  <2>1. CASE o = p
    <3>1. req'[o] = q
      BY <2>1 DEF Moved
    <3>2. Shape(req[o])'
      BY <3>1 DEF Shape, Writing, Deleting
    <3> QED
      BY <3>1, <3>2 DEF Progress, Writing
  <2>2. CASE o # p
    <3>1. PICK r : r = req'[o] /\ Same(r, req[o])
      BY <2>2 DEF Moved
    <3>2. Shape(r)'
      BY <1>1, <3>1, ShapeKept
    <3> QED
      BY <2>2, <3>1, <3>2 DEF Shape, Writing, Deleting
  <2> QED
    BY <2>1, <2>2
<1>4. Alone'
  <2>1. Writing(q) => q.key \in used' \cup Bgs
    BY DEF Shape, Writing
  <2>2. \A o \in Procs \ {p} : Writing(req[o]) /\ req[o].key \notin pre => req[o].key # q.key
    BY <1>1, OthersKeys DEF Alone
  <2>3. Writing(q) /\ q.key \notin pre' => \A o \in Procs \ {p} : req[o].key # q.key
    BY <1>1 DEF Alone
  <2> QED
    BY <1>1, <2>1, <2>2, <2>3, AloneKept
<1> QED
  BY <1>2, <1>3, <1>4 DEF FileIInv, ListOK

LEMMA PutObjectStep ==
    ASSUME FileIInv, NEW p \in Procs, PutObject(p)
    PROVE  FileIInv'
<1>1. PICK q, k : q = [req[p] EXCEPT !.pc = "insert"] /\ k = req[p].key
  OBVIOUS
<1>2. /\ req[p].pc = "put" /\ Writing(req[p]) /\ Goto(p, q)
      /\ UNCHANGED <<file, bg, rest, cacheVars, faults, cause, started>>
  BY <1>1 DEF PutObject, At, Writing
<1>3. FileTypeOK /\ Shape(req[p]) /\ Progress(req[p]) /\ Alone /\ req[p] \in ReqRec
  BY DEF FileIInv, Shape
<1>4. /\ q \in ReqRec /\ q.pc = "insert" /\ q.op = req[p].op /\ q.key = k
      /\ q.content = req[p].content /\ q.image = req[p].image
  BY <1>1, <1>3 DEF ReqRec
<1>5. Moved(p, q)
  BY <1>2, <1>4, GotoMoves
<1>6. k \in Keys \cup Bgs /\ k \notin pre /\ q.content \in Contents /\ q.content # Null
  BY <1>1, <1>2, <1>3, <1>4, KeyOf, FileAssumption DEF FileTypeOK, Shape
<1>7. /\ obj' \in [Keys \cup Bgs -> Contents \cup {Null}] /\ obj'[k] = q.content
      /\ \A j \in Keys \cup Bgs : j # k => obj'[j] = obj[j]
  BY <1>1, <1>3, <1>4, <1>6 DEF PutObject, FileTypeOK
<1>8. \A f \in Ids : file[f].key # k
  <2>1. CASE q.op = "file"
    BY <1>1, <1>2, <1>3, <1>4, <1>6, <2>1 DEF Progress
  <2>2. CASE k \in Bgs
    <3>1. \A f \in Ids : file[f].key \in Keys \cup {Null}
      BY <1>3 DEF FileTypeOK, Row
    <3> QED
      BY <2>2, <3>1, FileAssumption
  <2> QED
    BY <1>1, <1>2, <1>3, <1>4, <2>1, <2>2 DEF Shape
<1>9. Shape(q)'
  BY <1>1, <1>2, <1>3, <1>4 DEF Shape, Writing, Deleting
<1>10. Progress(q)'
  <2>1. q.op = "bg" => bg[k].state = "absent"
    BY <1>1, <1>2, <1>3, <1>4 DEF Progress
  <2> QED
    BY <1>2, <1>4, <1>6, <1>7, <1>8, <2>1 DEF Progress, Writing
<1>11. KeysKept
  BY <1>2, <1>3 DEF KeysKept, FileTypeOK
<1>12. ASSUME NEW o \in Procs \ {p} PROVE Progress(req[o])'
  <2>1. PICK r : r = req'[o] /\ Same(r, req[o])
    BY <1>5 DEF Moved
  <2>2. r.key # k
    BY <1>1, <1>2, <1>3, <1>6, <2>1 DEF Alone, Same
  <2>3. r.key \in used \cup Bgs => r.key \in Keys \cup Bgs
    BY <1>3 DEF FileTypeOK
  <2>4. Progress(r)'
    BY <1>2, <1>7, <1>11, <2>1, <2>2, <2>3, OtherProgress
  <2> QED
    BY <2>1, <2>4 DEF Progress, Writing
<1>13. \A j : /\ ~ Removes(req[p], j) /\ ~ Drops(req[p], j)
              /\ ~ Registers(req[p], j) /\ ~ Adds(req[p], j)
  BY <1>2 DEF Removes, Drops, Registers, Adds
<1>14. ASSUME NEW f \in Ids PROVE FileInv(f)'
  <2>1. file[f].key # Null => file[f].key \in Keys
    BY <1>3 DEF FileTypeOK, Row
  <2> QED
    BY <1>2, <1>5, <1>7, <1>8, <1>11, <1>13, <2>1, SettlersKept, FileKept
<1>15. ASSUME NEW j \in Keys PROVE KeyInv(j)'
  <2>1. CASE j = k
    <3>1. q.op = "file"
      BY <1>1, <1>2, <1>3, <1>4, <2>1, FileAssumption DEF Shape
    <3>2. Registers(req'[p], k)
      BY <1>4, <1>5, <3>1 DEF Moved, Registers
    <3> QED
      BY <2>1, <3>2 DEF KeyInv, Registers
  <2>2. CASE j # k
    <3>1. RowsOf(j)' = RowsOf(j)
      BY <1>2 DEF RowsOf, LiveFiles
    <3> QED
      BY <1>2, <1>5, <1>7, <1>11, <1>13, <2>2, <3>1, SettlersKept, KeyKept
  <2> QED
    BY <2>1, <2>2
<1>16. ASSUME NEW b \in Bgs PROVE BgInv(b)'
  <2>1. CASE b = k
    <3>1. q.op = "bg"
      BY <1>1, <1>2, <1>3, <1>4, <2>1, FileAssumption DEF Shape, FileTypeOK
    <3>2. Adds(req'[p], k)
      BY <1>4, <1>5, <3>1 DEF Moved, Adds
    <3> QED
      BY <1>6, <1>7, <2>1, <3>2 DEF BgInv, Adds
  <2>2. CASE b # k
    BY <1>2, <1>5, <1>7, <1>13, <2>2, SettlersKept, BgKept
  <2> QED
    BY <2>1, <2>2
<1>17. ListOK'
  BY <1>2, <1>5, ListKept
<1>18. OneActive' /\ file' \in [Ids -> Row] /\ cause' \in [Keys \cup Bgs -> SUBSET Causes]
       /\ bg' \in [Bgs -> [state: {"absent", "live", "deleted"}, active: 0..2]]
  BY <1>2, <1>3 DEF FileTypeOK, FileIInv, OneActive
<1> QED
  BY <1>1, <1>2, <1>4, <1>5, <1>7, <1>9, <1>10, <1>12, <1>14, <1>15, <1>16, <1>17, <1>18, WriteStep

LEMMA PutObjectFailsStep ==
    ASSUME FileIInv, NEW p \in Procs, PutObjectFails(p)
    PROVE  FileIInv'
<1>1. PICK k, o : /\ k = req[p].key /\ o \in {obj[k], req[p].content}
                  /\ obj' = [obj EXCEPT ![k] = o]
  BY DEF PutObjectFails
<1>2. /\ req[p].pc = "put" /\ Writing(req[p]) /\ Goto(p, Idle) /\ Fault /\ Because(k, "put")
      /\ UNCHANGED <<file, bg, rest, cacheVars, started>>
  BY <1>1 DEF PutObjectFails, At, Writing
<1>3. FileTypeOK /\ Shape(req[p]) /\ Progress(req[p]) /\ Alone /\ req[p] \in ReqRec
  BY DEF FileIInv, Shape
<1>4. ~ Writing(Idle) /\ Idle.key = Null
  BY IdleOK DEF Writing
<1>5. Moved(p, Idle)
  BY <1>2, IdleOK, GotoMoves
<1>6. k \in Keys \cup Bgs /\ k \notin pre /\ req[p].content \in Contents
  BY <1>1, <1>2, <1>3, KeyOf DEF FileTypeOK, Shape
<1>7. /\ obj' \in [Keys \cup Bgs -> Contents \cup {Null}]
      /\ \A j \in Keys \cup Bgs : j # k => obj'[j] = obj[j]
  BY <1>1, <1>3, <1>6 DEF FileTypeOK
<1>8. \A f \in Ids : file[f].key # k
  <2>1. CASE req[p].op = "file"
    BY <1>1, <1>2, <1>3, <1>6, <2>1 DEF Progress
  <2>2. CASE k \in Bgs
    <3>1. \A f \in Ids : file[f].key \in Keys \cup {Null}
      BY <1>3 DEF FileTypeOK, Row
    <3> QED
      BY <2>2, <3>1, FileAssumption
  <2> QED
    BY <1>1, <1>2, <1>3, <2>1, <2>2 DEF Shape
<1>9. /\ cause' \in [Keys \cup Bgs -> SUBSET Causes] /\ faults' \in 0..MaxFaults
      /\ "put" \in cause'[k] /\ \A j \in Keys \cup Bgs : cause[j] \subseteq cause'[j]
  BY <1>2, <1>6, BecauseOK, FaultOK DEF Causes
<1>11. KeysKept
  BY <1>2, <1>3 DEF KeysKept, FileTypeOK
<1>12. ASSUME NEW x \in Procs \ {p} PROVE Progress(req[x])'
  <2>1. PICK r : r = req'[x] /\ Same(r, req[x])
    BY <1>5 DEF Moved
  <2>2. r.key # k
    BY <1>1, <1>2, <1>3, <1>6, <2>1 DEF Alone, Same
  <2>3. r.key \in used \cup Bgs => r.key \in Keys \cup Bgs
    BY <1>3 DEF FileTypeOK
  <2>4. Progress(r)'
    BY <1>2, <1>7, <1>9, <1>11, <2>1, <2>2, <2>3, OtherProgress
  <2> QED
    BY <2>1, <2>4 DEF Progress, Writing
<1>13. \A j : /\ ~ Removes(req[p], j) /\ ~ Drops(req[p], j)
              /\ ~ Registers(req[p], j) /\ ~ Adds(req[p], j)
  BY <1>2 DEF Removes, Drops, Registers, Adds
<1>14. ASSUME NEW f \in Ids PROVE FileInv(f)'
  <2>1. file[f].key # Null => file[f].key \in Keys
    BY <1>3 DEF FileTypeOK, Row
  <2> QED
    BY <1>2, <1>5, <1>7, <1>8, <1>9, <1>11, <1>13, <2>1, SettlersKept, FileKept
<1>15. ASSUME NEW j \in Keys PROVE KeyInv(j)'
  <2>1. CASE j = k
    BY <1>9, <2>1 DEF KeyInv
  <2>2. CASE j # k
    <3>1. RowsOf(j)' = RowsOf(j)
      BY <1>2 DEF RowsOf, LiveFiles
    <3> QED
      BY <1>5, <1>7, <1>9, <1>11, <1>13, <2>2, <3>1, SettlersKept, KeyKept
  <2> QED
    BY <2>1, <2>2
<1>16. ASSUME NEW b \in Bgs PROVE BgInv(b)'
  <2>1. CASE b = k
    <3>1. bg[b].state = "absent"
      BY <1>1, <1>2, <1>3, <2>1, FileAssumption DEF Shape, Progress, FileTypeOK
    <3> QED
      BY <1>2, <1>9, <2>1, <3>1 DEF BgInv
  <2>2. CASE b # k
    BY <1>2, <1>5, <1>7, <1>9, <1>13, <2>2, SettlersKept, BgKept
  <2> QED
    BY <2>1, <2>2
<1>17. ListOK'
  BY <1>2, <1>5, ListKept
<1>18. OneActive' /\ file' \in [Ids -> Row]
       /\ bg' \in [Bgs -> [state: {"absent", "live", "deleted"}, active: 0..2]]
  BY <1>2, <1>3 DEF FileTypeOK, FileIInv, OneActive
<1>19. /\ UNCHANGED <<rest, started>> /\ \A f \in Ids : file'[f].key = file[f].key
  BY <1>2
<1> QED
  BY <1>4, <1>5, <1>7, <1>9, <1>12, <1>14, <1>15, <1>16, <1>17, <1>18, <1>19, IdleOK, WriteStep

LEMMA DeleteObjectStep ==
    ASSUME FileIInv, NEW p \in Procs, DeleteObject(p)
    PROVE  FileIInv'
<1>1. PICK q, k : q = AfterObject(req[p]) /\ k = req[p].key
  OBVIOUS
<1>2. /\ req[p].pc = "object" /\ Deleting(req[p]) /\ Goto(p, q)
      /\ UNCHANGED <<file, bg, rest, cacheVars, faults, cause, started>>
  BY <1>1 DEF DeleteObject, At, Deleting
<1>3. FileTypeOK /\ Shape(req[p]) /\ Alone
  BY DEF FileIInv
<1>4. /\ q \in ReqRec /\ q.op = req[p].op /\ q.key = k /\ q.f = req[p].f
      /\ q.pc = IF q.op = "bg" THEN "early" ELSE "row"
  BY <1>1, <1>2, AfterObjectOK
<1>5. Moved(p, q)
  BY <1>2, <1>4, GotoMoves
<1>6. (q.op = "file" /\ k \in Keys) \/ (q.op = "bg" /\ k \in Bgs)
  <2>1. \/ req[p].op = "file" /\ req[p].key \in Keys
        \/ req[p].op = "bg" /\ req[p].key \in Bgs
    BY <1>2, <1>3 DEF Shape
  <2> QED
    BY <1>1, <1>4, <2>1
<1>7. /\ obj' \in [Keys \cup Bgs -> Contents \cup {Null}] /\ obj'[k] = Null
      /\ \A j \in Keys \cup Bgs : j # k => obj'[j] = obj[j]
  BY <1>1, <1>3, <1>6 DEF DeleteObject, FileTypeOK
<1>8. Shape(q)'
  BY <1>1, <1>2, <1>3, <1>4 DEF Shape, Writing, Deleting
<1>9. Progress(q)'
  BY <1>4, <1>7 DEF Progress, Writing
<1>10. KeysKept
  BY <1>2, <1>3 DEF KeysKept, FileTypeOK
<1>11. ASSUME NEW o \in Procs \ {p} PROVE Progress(req[o])'
  <2>1. PICK r : r = req'[o] /\ Same(r, req[o])
    BY <1>5 DEF Moved
  <2>2. CASE r.key # k
    <3>1. r.key \in used \cup Bgs => r.key \in Keys \cup Bgs
      BY <1>3 DEF FileTypeOK
    <3>2. Progress(r)'
      BY <1>2, <1>7, <1>10, <2>1, <2>2, <3>1, OtherProgress
    <3> QED
      BY <2>1, <3>2 DEF Progress, Writing
  <2>3. CASE r.key = k
    <3>1. Writing(r) => k \in pre
      BY <1>1, <2>1, <2>3, <1>3 DEF Alone, Same, Writing
    <3>2. k \in pre => k \in Keys /\ k \notin Bgs
      BY <1>3, FileAssumption DEF FileTypeOK
    <3>3. Writing(r) => r.op = "file"
      BY <2>1, <2>3, <3>1, <3>2 DEF FileIInv, Shape, Same, Writing
    <3>4. k \in pre => \E g \in Ids : file[g].key = k
      BY <1>1, <1>2, <1>3, <3>2 DEF Shape
    <3>5. Progress(r)'
      BY <1>2, <1>7, <2>3, <3>1, <3>3, <3>4 DEF Progress, Writing
    <3> QED
      BY <2>1, <3>5 DEF Progress, Writing
  <2> QED
    BY <2>2, <2>3
<1>12. \A j : /\ ~ Removes(req[p], j) /\ ~ Drops(req[p], j)
              /\ ~ Registers(req[p], j) /\ ~ Adds(req[p], j)
  BY <1>2 DEF Removes, Drops, Registers, Adds
<1>13. ASSUME NEW f \in Ids PROVE FileInv(f)'
  <2>1. file[f].key # Null => file[f].key \in Keys
    BY <1>3 DEF FileTypeOK, Row
  <2>2. CASE file[f].key # k
    BY <1>2, <1>5, <1>7, <1>10, <1>12, <2>1, <2>2, SettlersKept, FileKept
  <2>3. CASE file[f].key = k
    <3>1. FileInv(f) /\ k # Null
      BY <1>6, FileAssumption DEF FileIInv
    <3>2. q.op = "file"
      BY <1>6, <2>1, <2>3, <3>1, FileAssumption
    <3>3. Removes(req'[p], k)
      BY <1>4, <1>5, <3>2 DEF Moved, Removes
    <3>4. Recorded(file[f]) => Recorded(file[f])'
      BY <1>2, <1>7, <2>3, <3>3 DEF Recorded, Removes
    <3> QED
      BY <1>2, <3>1, <3>4 DEF FileInv
  <2> QED
    BY <2>2, <2>3
<1>14. ASSUME NEW j \in Keys PROVE KeyInv(j)'
  <2>1. CASE j = k
    BY <1>7, <2>1 DEF KeyInv
  <2>2. CASE j # k
    <3>1. RowsOf(j)' = RowsOf(j)
      BY <1>2 DEF RowsOf, LiveFiles
    <3> QED
      BY <1>2, <1>5, <1>7, <1>10, <1>12, <2>2, <3>1, SettlersKept, KeyKept
  <2> QED
    BY <2>1, <2>2
<1>15. ASSUME NEW b \in Bgs PROVE BgInv(b)'
  <2>1. CASE b = k
    <3>1. q.op = "bg"
      BY <1>6, <2>1, FileAssumption
    <3>2. Drops(req'[p], k)
      BY <1>4, <1>5, <3>1 DEF Moved, Drops
    <3> QED
      BY <1>7, <2>1, <3>2 DEF BgInv, Drops
  <2>2. CASE b # k
    BY <1>2, <1>5, <1>7, <1>12, <2>2, SettlersKept, BgKept
  <2> QED
    BY <2>1, <2>2
<1>16. ListOK'
  BY <1>2, <1>5, ListKept
<1>17. OneActive' /\ file' \in [Ids -> Row] /\ cause' \in [Keys \cup Bgs -> SUBSET Causes]
       /\ bg' \in [Bgs -> [state: {"absent", "live", "deleted"}, active: 0..2]]
  BY <1>2, <1>3 DEF FileTypeOK, FileIInv, OneActive
<1>18. ~ Writing(q)
  BY <1>4 DEF Writing
<1> QED
  BY <1>1, <1>2, <1>4, <1>5, <1>7, <1>8, <1>9, <1>11, <1>13, <1>14, <1>15, <1>16, <1>17, <1>18,
     WriteStep

LEMMA InsertFileStep ==
    ASSUME FileIInv, NEW p \in Procs, NEW f \in Ids, InsertFile(p, f)
    PROVE  FileIInv'
<1>1. PICK k, c, row : /\ k = req[p].key /\ c = req[p].content
                       /\ row = [state |-> "live", key |-> k, owner |-> req[p].u,
                                 image |-> req[p].image, size |-> c.size]
  OBVIOUS
<1>2. /\ req[p].pc = "insert" /\ req[p].op = "file" /\ Writing(req[p]) /\ Goto(p, Idle)
      /\ file[f] = NoRow /\ file' = [file EXCEPT ![f] = row]
      /\ UNCHANGED <<obj, bg, rest, cacheVars, faults, started>>
  BY <1>1 DEF InsertFile, At, Writing
<1>3. FileTypeOK /\ Shape(req[p]) /\ Progress(req[p]) /\ Alone /\ req[p] \in ReqRec
  BY DEF FileIInv, Shape
<1>4. /\ k \in used /\ k \in Keys /\ k \notin Bgs /\ k # Null /\ c \in Contents
      /\ k \in pre => WithinLimits(c.size)
      /\ k \notin pre => Accepts(req[p].image, c)
  BY <1>1, <1>2, <1>3, FileAssumption DEF Shape, FileTypeOK
<1>5. /\ c.size \in 0..MaxAttach
      /\ c.size <= IF k \in pre THEN MaxAttach ELSE MaxFile
      /\ k \in pre \/ VerifyMagicNumber(req[p].image, c)
  <2>1. c.size \in Nat
    BY <1>4, FileAssumption
  <2> QED
    BY <1>4, <2>1, FileAssumption DEF WithinLimits, Accepts
<1>6. row \in Row
  BY <1>1, <1>3, <1>4, <1>5 DEF ReqRec, Row
<1>7. /\ file' \in [Ids -> Row] /\ file'[f] = row
      /\ \A g \in Ids \ {f} : file'[g] = file[g]
  BY <1>2, <1>3, <1>6 DEF FileTypeOK
<1>8. file[f].key = Null /\ file[f].state = "absent"
  BY <1>2 DEF NoRow
<1>9. Moved(p, Idle)
  BY <1>2, IdleOK, GotoMoves
<1>10. /\ cause' \in [Keys \cup Bgs -> SUBSET Causes]
       /\ \A j \in Keys \cup Bgs : cause[j] \subseteq cause'[j]
       /\ (\E g \in Ids : file[g].key = k) => "shared" \in cause'[k]
  BY <1>1, <1>3, <1>4 DEF InsertFile, FileTypeOK, Causes
<1>11. KeysKept
  BY <1>2, <1>3 DEF KeysKept, FileTypeOK
<1>12. row.key = k /\ row.state = "live" /\ row.size = c.size /\ row.image = req[p].image
  BY <1>1
<1>13. ASSUME NEW o \in Procs \ {p} PROVE Progress(req[o])'
  <2>1. PICK r : r = req'[o] /\ Same(r, req[o])
    BY <1>9 DEF Moved
  <2>2. CASE r.key # k
    <3>1. r.key \in used \cup Bgs => r.key \in Keys \cup Bgs /\ r.key # Null
      BY <1>3, FileAssumption DEF FileTypeOK
    <3>2. Progress(r)'
      BY <1>2, <1>7, <1>8, <1>10, <1>11, <1>12, <2>1, <2>2, <3>1, OtherProgress
    <3> QED
      BY <2>1, <3>2 DEF Progress, Writing
  <2>3. CASE r.key = k
    <3>1. k \in pre /\ k \in pre'
      BY <1>1, <1>2, <1>3, <2>1, <2>3 DEF Alone, Same
    <3>2. Writing(r) => r.op = "file"
      BY <1>4, <2>1, <2>3 DEF FileIInv, Shape, Same, Writing
    <3>3. r.pc = "insert" /\ obj[k] # Null => obj[k] = r.content \/ "reput" \in cause[k]
      BY <2>1, <2>3, <3>2 DEF FileIInv, Progress, Same, Writing
    <3>4. Progress(r)'
      BY <1>2, <1>4, <1>7, <1>10, <1>12, <2>3, <3>1, <3>2, <3>3 DEF Progress, Writing
    <3> QED
      BY <2>1, <3>4 DEF Progress, Writing
  <2> QED
    BY <2>2, <2>3
<1>14. \A j : /\ ~ Removes(req[p], j) /\ ~ Drops(req[p], j) /\ ~ Adds(req[p], j)
              /\ Registers(req[p], j) => j = k
  BY <1>1, <1>2 DEF Removes, Drops, Registers, Adds
<1>15. FileInv(f)'
  <2>1. \A g \in Ids \ {f} : file'[g].key = k => "shared" \in cause'[k]
    BY <1>7, <1>10
  <2>2. obj[k] = Null => "shared" \in cause'[k]
    BY <1>1, <1>2, <1>3, <1>10 DEF Progress
  <2>3. obj[k] # Null => obj[k] = c \/ "reput" \in cause[k]
    BY <1>1, <1>2, <1>3 DEF Progress
  <2>4. obj'[row.key] # Null => \/ "reput" \in cause'[row.key]
                                \/ /\ obj'[row.key].size = row.size
                                   /\ row.key \in pre' \/ VerifyMagicNumber(row.image, obj'[row.key])
    BY <1>2, <1>4, <1>5, <1>10, <1>12, <2>3
  <2>5. Recorded(row)'
    BY <1>2, <1>4, <1>5, <1>12, <2>2, <2>4 DEF Recorded
  <2>6. Recorded(file[f])'
    BY <1>7, <2>5 DEF Recorded
  <2> QED
    BY <1>2, <1>4, <1>7, <1>12, <2>1, <2>6 DEF FileInv
<1>16. ASSUME NEW g \in Ids PROVE FileInv(g)'
  <2>1. CASE g = f
    BY <1>15, <2>1
  <2>2. CASE g # f
    <3>1. file[g].key # Null => file[g].key \in Keys
      BY <1>3 DEF FileTypeOK, Row
    <3>2. file'[f].key = file[g].key => "shared" \in cause'[file[g].key]
      BY <1>7, <1>10, <1>12
    <3> QED
      BY <1>2, <1>7, <1>9, <1>10, <1>11, <1>14, <2>2, <3>1, <3>2, SettlersKept, FileKept
  <2> QED
    BY <2>1, <2>2
<1>17. ASSUME NEW j \in Keys PROVE KeyInv(j)'
  <2>1. CASE j = k
    <3>1. f \in RowsOf(j)'
      BY <1>7, <1>12, <2>1 DEF RowsOf, LiveFiles
    <3> QED
      BY <3>1 DEF KeyInv
  <2>2. CASE j # k
    <3>1. RowsOf(j) \subseteq RowsOf(j)'
      BY <1>7, <1>8 DEF RowsOf, LiveFiles
    <3> QED
      BY <1>2, <1>9, <1>10, <1>11, <1>14, <2>2, <3>1, SettlersKept, KeyKept
  <2> QED
    BY <2>1, <2>2
<1>18. ASSUME NEW b \in Bgs PROVE BgInv(b)'
  BY <1>2, <1>9, <1>10, <1>14, SettlersKept, BgKept
<1>19. ListOK'
  BY <1>2, <1>9, ListKept
<1>20. /\ OneActive' /\ obj' \in [Keys \cup Bgs -> Contents \cup {Null}]
       /\ bg' \in [Bgs -> [state: {"absent", "live", "deleted"}, active: 0..2]]
  BY <1>2, <1>3 DEF FileTypeOK, FileIInv, OneActive
<1>21. ~ Writing(Idle) /\ Idle.key = Null
  BY IdleOK DEF Writing
<1>22. \A g \in Ids : file[g].key # Null => file'[g].key = file[g].key
  BY <1>7, <1>8
<1> QED
  BY <1>2, <1>7, <1>9, <1>10, <1>13, <1>16, <1>17, <1>18, <1>19, <1>20, <1>21, <1>22, IdleOK,
     WriteStep

LEMMA DeleteFileRowStep ==
    ASSUME FileIInv, NEW p \in Procs, DeleteFileRow(p)
    PROVE  FileIInv'
<1>1. PICK k, f : k = req[p].key /\ f = req[p].f
  OBVIOUS
<1>2. /\ req[p].pc = "row" /\ req[p].op = "file" /\ Deleting(req[p]) /\ Goto(p, Idle)
      /\ file' = [file EXCEPT ![f].state = "deleted"]
      /\ UNCHANGED <<obj, bg, rest, cacheVars, faults, cause, started>>
  BY <1>1 DEF DeleteFileRow, At, Deleting
<1>3. FileTypeOK /\ Shape(req[p]) /\ Progress(req[p])
  BY DEF FileIInv
<1>4. f \in Ids /\ k \in Keys /\ k \notin Bgs /\ k # Null /\ file[f].key = k
  BY <1>1, <1>2, <1>3, FileAssumption DEF Shape
<1>5. FileInv(f) /\ file[f] \in Row
  BY <1>3, <1>4 DEF FileIInv, FileTypeOK
<1>6. /\ file' \in [Ids -> Row]
      /\ file'[f].state = "deleted" /\ file'[f].key = k
      /\ \A g \in Ids \ {f} : file'[g] = file[g]
  <2>1. [file[f] EXCEPT !.state = "deleted"] \in Row
    BY <1>5 DEF Row
  <2>2. /\ [file[f] EXCEPT !.state = "deleted"].state = "deleted"
        /\ [file[f] EXCEPT !.state = "deleted"].key = k
    BY <1>4, <1>5 DEF Row
  <2> QED
    BY <1>2, <1>3, <1>4, <2>1, <2>2 DEF FileTypeOK
<1>7. Moved(p, Idle)
  BY <1>2, IdleOK, GotoMoves
<1>8. KeysKept
  BY <1>2, <1>3 DEF KeysKept, FileTypeOK
<1>9. \A g \in Ids : file'[g].key = file[g].key
  BY <1>4, <1>6
<1>10. ASSUME NEW o \in Procs \ {p} PROVE Progress(req[o])'
  <2>1. PICK r : r = req'[o] /\ Same(r, req[o])
    BY <1>7 DEF Moved
  <2>2. Progress(r)'
    BY <1>2, <1>8, <1>9, <2>1, OtherProgress
  <2> QED
    BY <2>1, <2>2 DEF Progress, Writing
<1>11. \A j : /\ Removes(req[p], j) => j = k
              /\ ~ Drops(req[p], j) /\ ~ Registers(req[p], j) /\ ~ Adds(req[p], j)
  BY <1>1, <1>2 DEF Removes, Drops, Registers, Adds
<1>12. ASSUME NEW g \in Ids PROVE FileInv(g)'
  <2>1. CASE g = f
    <3>1. k \in used
      BY <1>4, <1>5 DEF FileInv, NoRow
    <3>2. \A h \in Ids \ {f} : file[h].key = k => "shared" \in cause[k]
      BY <1>4, <1>5 DEF FileInv
    <3> QED
      BY <1>2, <1>6, <1>9, <2>1, <3>1, <3>2 DEF FileInv
  <2>2. CASE g # f
    <3>1. file[g].key = k => "shared" \in cause'[k]
      BY <1>2, <1>4, <1>5, <2>2 DEF FileInv
    <3>2. (\E o \in Procs : Removes(req[o], file[g].key)) =>
             \/ cause'[file[g].key] \cap {"row", "shared"} # {}
             \/ \E o \in Procs : Removes(req'[o], file[g].key)
      BY <1>7, <1>11, <3>1, SettlersKept
    <3> QED
      BY <1>2, <1>6, <1>8, <1>9, <2>2, <3>2, FileKept
  <2> QED
    BY <2>1, <2>2
<1>13. ASSUME NEW j \in Keys PROVE KeyInv(j)'
  <2>1. CASE j = k
    <3>1. k \notin pre => obj[k] = Null \/ cause[k] # {}
      BY <1>1, <1>2, <1>3 DEF Progress
    <3> QED
      BY <1>2, <2>1, <3>1 DEF KeyInv
  <2>2. CASE j # k
    <3>1. RowsOf(j) \subseteq RowsOf(j)'
      BY <1>4, <1>6, <2>2 DEF RowsOf, LiveFiles
    <3> QED
      BY <1>2, <1>7, <1>8, <1>11, <2>2, <3>1, SettlersKept, KeyKept
  <2> QED
    BY <2>1, <2>2
<1>14. ASSUME NEW b \in Bgs PROVE BgInv(b)'
  BY <1>2, <1>7, <1>11, SettlersKept, BgKept
<1>15. ListOK'
  BY <1>2, <1>7, ListKept
<1>16. /\ OneActive' /\ obj' \in [Keys \cup Bgs -> Contents \cup {Null}]
       /\ bg' \in [Bgs -> [state: {"absent", "live", "deleted"}, active: 0..2]]
       /\ cause' \in [Keys \cup Bgs -> SUBSET Causes]
  BY <1>2, <1>3 DEF FileTypeOK, FileIInv, OneActive
<1>17. ~ Writing(Idle) /\ Idle.key = Null
  BY IdleOK DEF Writing
<1> QED
  BY <1>2, <1>6, <1>7, <1>9, <1>10, <1>12, <1>13, <1>14, <1>15, <1>16, <1>17, IdleOK, WriteStep

\* A row of site_backgrounds changes: what follows for the files and for the others.
LEMMA BgRowStep ==
    ASSUME FileIInv, NEW p \in Procs, NEW q, Moved(p, q), Shape(q)', Progress(q)', ~ Writing(q),
           q.key = Null, NEW b \in Bgs, req[p].op = "bg", req[p].key = b,
           UNCHANGED <<obj, file, rest, faults, started, cause>>,
           bg' \in [Bgs -> [state: {"absent", "live", "deleted"}, active: 0..2]],
           \A a \in Bgs : a # b => bg'[a] = bg[a], bg'[b].active \in {0, bg[b].active},
           \A o \in Procs \ {p} : Writing(req[o]) => req[o].key # b,
           BgInv(b)', ListOK'
    PROVE  FileIInv'
<1>2. FileTypeOK /\ KeysKept
  BY DEF FileIInv, FileTypeOK, KeysKept
<1>3. ASSUME NEW o \in Procs \ {p} PROVE Progress(req[o])'
  <2>1. PICK r : r = req'[o] /\ Same(r, req[o])
    BY DEF Moved
  <2>2. CASE r.key # b
    <3>1. Progress(r)'
      BY <1>2, <2>1, <2>2, OtherProgress
    <3> QED
      BY <2>1, <3>1 DEF Progress, Writing
  <2>3. CASE r.key = b
    <3>1. ~ Writing(r)
      BY <2>1, <2>3 DEF Same, Writing
    <3>2. r.pc \in {"early", "row"} /\ r.key \notin pre => obj[r.key] = Null \/ cause[r.key] # {}
      BY <2>1 DEF FileIInv, Progress, Same
    <3>3. Progress(r)'
      BY <3>1, <3>2 DEF Progress, Writing
    <3> QED
      BY <2>1, <3>3 DEF Progress, Writing
  <2> QED
    BY <2>2, <2>3
<1>4. \A j : ~ Removes(req[p], j) /\ ~ Registers(req[p], j)
             /\ (Drops(req[p], j) \/ Adds(req[p], j) => j = b)
  BY DEF Removes, Registers, Drops, Adds
<1>5. ASSUME NEW f \in Ids PROVE FileInv(f)'
  BY <1>2, <1>4, SettlersKept, FileKept
<1>6. ASSUME NEW k \in Keys PROVE KeyInv(k)'
  <2>1. RowsOf(k)' = RowsOf(k)
    BY DEF RowsOf, LiveFiles
  <2> QED
    BY <1>2, <1>4, <2>1, SettlersKept, KeyKept
<1>7. ASSUME NEW a \in Bgs PROVE BgInv(a)'
  <2>1. CASE a = b
    BY <2>1
  <2>2. CASE a # b
    BY <1>4, <2>2, SettlersKept, BgKept
  <2> QED
    BY <2>1, <2>2
<1>8. OneActive'
  BY DEF FileIInv, OneActive
<1>9. /\ obj' \in [Keys \cup Bgs -> Contents \cup {Null}] /\ file' \in [Ids -> Row]
      /\ cause' \in [Keys \cup Bgs -> SUBSET Causes]
  BY <1>2 DEF FileTypeOK
<1> QED
  BY <1>3, <1>5, <1>6, <1>7, <1>8, <1>9, WriteStep

\* Nobody else brings the object of the background that p brings or deletes.
LEMMA BgAlone ==
    ASSUME FileIInv, NEW p \in Procs, req[p].op = "bg", req[p].pc \in {"insert", "row"}
    PROVE  /\ req[p].key \in Bgs /\ req[p].key \notin pre
           /\ \A o \in Procs \ {p} : Writing(req[o]) => req[o].key # req[p].key
<1>1. Shape(req[p]) /\ Alone /\ FileTypeOK
  BY DEF FileIInv
<1>2. req[p].key \in Bgs
  BY <1>1 DEF Shape, Writing, Deleting
<1>3. req[p].key \notin pre
  BY <1>1, <1>2, FileAssumption DEF FileTypeOK
<1> QED
  BY <1>1, <1>2, <1>3 DEF Alone

LEMMA InsertBackgroundStep ==
    ASSUME FileIInv, NEW p \in Procs, InsertBackground(p)
    PROVE  FileIInv'
<1>1. PICK b : b = req[p].key
  OBVIOUS
<1>2. PICK q : q = [Idle EXCEPT !.pc = "evict"]
  OBVIOUS
<1>3. /\ q \in ReqRec /\ q.key = Null /\ q.pc = "evict"
  BY <1>2 DEF Idle, ReqRec
<1>4. /\ req[p].pc = "insert" /\ req[p].op = "bg" /\ BgChanged(p, q, {"fill"})
      /\ bg' = [bg EXCEPT ![b].state = "live"]
      /\ UNCHANGED <<obj, file, rest, excuse, faults, cause, started>>
  BY <1>1, <1>2 DEF InsertBackground, At
<1>5. Moved(p, q)
  BY <1>3, <1>4, BgChangedMoves
<1>6. Shape(q)' /\ Progress(q)' /\ ~ Writing(q)
  BY <1>3 DEF Shape, Progress, Writing, Deleting
<1>7. /\ b \in Bgs /\ \A o \in Procs \ {p} : Writing(req[o]) => req[o].key # b
  BY <1>1, <1>4, BgAlone
<1>8. FileTypeOK /\ Progress(req[p])
  BY DEF FileIInv
<1>9. /\ bg' \in [Bgs -> [state: {"absent", "live", "deleted"}, active: 0..2]]
      /\ bg'[b].state = "live" /\ bg'[b].active = bg[b].active
      /\ \A a \in Bgs : a # b => bg'[a] = bg[a]
  <2>1. bg \in [Bgs -> [state: {"absent", "live", "deleted"}, active: 0..2]]
    BY <1>8 DEF FileTypeOK
  <2> QED
    BY <1>4, <1>7, <2>1
<1>10. BgInv(b)'
  <2>1. obj[b] # Null
    BY <1>1, <1>4, <1>8 DEF Progress
  <2> QED
    BY <1>4, <1>9, <2>1 DEF BgInv
<1>11. ListOK'
  <2>1. req'[p].pc = "evict"
    BY <1>3, <1>5 DEF Moved
  <2>2. list' \in {"none", "fresh", "stale"} /\ excuse' \in 0..1
    BY <1>4, <1>8 DEF FileTypeOK, BgChanged
  <2> QED
    BY <2>1, <2>2 DEF ListOK, ListStaleExcused
<1> QED
  BY <1>1, <1>3, <1>4, <1>5, <1>6, <1>7, <1>9, <1>10, <1>11, BgRowStep

LEMMA DeleteBackgroundRowStep ==
    ASSUME FileIInv, NEW p \in Procs, DeleteBackgroundRow(p)
    PROVE  FileIInv'
<1>1. PICK b : b = req[p].key
  OBVIOUS
<1>2. /\ req[p].pc = "row" /\ req[p].op = "bg" /\ BgChanged(p, Idle, {"fill"}) /\ excuse' = 1
      /\ bg' = [bg EXCEPT ![b] = [state |-> "deleted", active |-> 0]]
      /\ UNCHANGED <<obj, file, rest, faults, cause, started>>
  BY <1>1 DEF DeleteBackgroundRow, At
<1>3. Moved(p, Idle)
  BY <1>2, IdleOK, BgChangedMoves
<1>4. b \in Bgs /\ b \notin pre /\ \A o \in Procs \ {p} : Writing(req[o]) => req[o].key # b
  BY <1>1, <1>2, BgAlone
<1>5. FileTypeOK /\ Progress(req[p])
  BY DEF FileIInv
<1>6. /\ bg' \in [Bgs -> [state: {"absent", "live", "deleted"}, active: 0..2]]
      /\ bg'[b].state = "deleted" /\ bg'[b].active = 0
      /\ \A a \in Bgs : a # b => bg'[a] = bg[a]
  <2>1. bg \in [Bgs -> [state: {"absent", "live", "deleted"}, active: 0..2]]
    BY <1>5 DEF FileTypeOK
  <2> QED
    BY <1>2, <1>4, <2>1
<1>7. BgInv(b)'
  <2>1. obj[b] = Null \/ cause[b] # {}
    BY <1>1, <1>2, <1>4, <1>5 DEF Progress
  <2> QED
    BY <1>2, <1>6, <2>1 DEF BgInv
<1>8. ListOK'
  BY <1>2, <1>5 DEF FileTypeOK, BgChanged, ListOK, ListStaleExcused
<1>9. ~ Writing(Idle) /\ Idle.key = Null
  BY IdleOK DEF Writing
<1> QED
  BY <1>1, <1>2, <1>3, <1>4, <1>6, <1>7, <1>8, <1>9, IdleOK, BgRowStep
-----------------------------------------------------------------------------
(* The invariant.                                                          *)

LEMMA FileStart == FileInit => FileIInv
<1> SUFFICES ASSUME FileInit PROVE FileIInv
  OBVIOUS
<1>1. FileTypeOK
  <2>2. Idle \in ReqRec /\ NoRow \in Row
    BY FileAssumption, IdleOK DEF NoRow, Row
  <2> QED
    BY <2>2, FileAssumption DEF FileInit, FileTypeOK, ReqRec
<1>2. ASSUME NEW p \in Procs PROVE Shape(req[p]) /\ Progress(req[p])
  BY IdleOK DEF FileInit, Shape, Progress, Writing, Deleting
<1>3. Alone
  BY IdleOK DEF FileInit, Alone, Writing
<1>4. ASSUME NEW f \in Ids PROVE FileInv(f)
  BY DEF FileInit, FileInv, NoRow
<1>5. (\A k \in Keys : KeyInv(k)) /\ (\A b \in Bgs : BgInv(b)) /\ OneActive /\ ListStaleExcused
  BY DEF FileInit, KeyInv, BgInv, OneActive, ListStaleExcused
<1> QED
  BY <1>1, <1>2, <1>3, <1>4, <1>5 DEF FileIInv

LEMMA FileStepKeeps ==
    ASSUME FileIInv, [FileNext]_fileVars
    PROVE  FileIInv'
<1>1. CASE UNCHANGED fileVars
  BY <1>1 DEF fileVars, FileIInv, FileTypeOK, Shape, Progress, Writing, Deleting, Alone, FileInv, Recorded,
     KeyInv, RowsOf, LiveFiles, BgInv, OneActive, ListStaleExcused, Removes, Registers, Drops, Adds
<1>2. CASE Expire
  BY <1>2, ExpireStep
<1>3. CASE \E k \in Keys : \/ CreatePresignedUpload(k) \/ UrlExpires(k)
                           \/ \E c \in Contents : ClientPut(k, c)
  BY <1>3, CreatePresignedUploadStep, UrlExpiresStep, ClientPutStep
<1>4. ASSUME NEW p \in Procs,
             \/ PutObject(p) \/ PutObjectFails(p) \/ SetActive(p) \/ SetActiveMisses(p)
             \/ SetActiveFails(p) \/ InsertBackground(p) \/ InsertFails(p) \/ StatObject(p)
             \/ SelectFile(p) \/ DeleteObject(p) \/ DeleteObjectLost(p) \/ DeleteFileRow(p)
             \/ DeleteBackgroundRow(p) \/ DeleteRowFails(p) \/ ListBackgrounds(p) \/ Fill(p)
             \/ Evict(p) \/ EvictLost(p)
      PROVE  FileIInv'
  BY <1>4, PutObjectStep, PutObjectFailsStep, SetActiveStep, SetActiveFailsStep, InsertBackgroundStep, InsertFailsStep, StatObjectStep, SelectFileStep,
     DeleteObjectStep, DeleteObjectLostStep, DeleteFileRowStep, DeleteBackgroundRowStep,
     DeleteRowFailsStep, ListBackgroundsStep, FillStep, EvictStep
<1>5. ASSUME NEW p \in Procs, NEW f \in Ids,
             InsertFile(p, f) \/ \E u \in Users : DeleteFile(p, u, f)
      PROVE  FileIInv'
  BY <1>5, InsertFileStep, DeleteFileStep
<1>6. ASSUME NEW p \in Procs, NEW u \in Users, NEW i \in 0..1, NEW k \in Keys,
             CompletePresignedUpload(p, u, i, k) \/ \E c \in Contents : Upload(p, u, i, c, k)
      PROVE  FileIInv'
  BY <1>6, CompletePresignedUploadStep, UploadStep
<1>7. ASSUME NEW p \in Procs, NEW b \in Bgs,
             \/ DeleteBackground(p, b) \/ SetActiveBackground(p, b)
             \/ \E c \in Contents : AddBackground(p, b, c)
      PROVE  FileIInv'
  BY <1>7, DeleteBackgroundStep, SetActiveBackgroundStep, AddBackgroundStep
<1> QED
  BY <1>1, <1>2, <1>3, <1>4, <1>5, <1>6, <1>7 DEF FileNext

\* The inductive invariant of the file store: the handlers know what the objects and rows
\* they left behind look like.
THEOREM FileInductive == FileSpec => []FileIInv
<1>1. FileInit => FileIInv
  BY FileStart
<1>2. FileIInv /\ [FileNext]_fileVars => FileIInv'
  BY FileStepKeeps
<1> QED
  BY <1>1, <1>2, PTL DEF FileSpec

\* Tables and object store belong together at every moment of every order of the steps of
\* fileRepo and siteRepo and of every failure between them (ObjectsMatchRows).
THEOREM RowsAndObjects == FileSpec => []ObjectsMatchRows
<1>1. FileIInv => ObjectsMatchRows
  <2> SUFFICES ASSUME FileIInv PROVE ObjectsMatchRows
    OBVIOUS
  <2>1. \A q, k : /\ Removes(q, k) \/ Drops(q, k) \/ Registers(q, k) \/ Adds(q, k)
                        => q.key = k /\ q.pc \in {"put", "insert", "object", "early", "row"}
    BY DEF Removes, Drops, Registers, Adds
  <2>2. RowHasObject
    <3>1. ASSUME NEW f \in LiveFiles, obj[file[f].key] = Null
          PROVE  Busy(file[f].key) \/ cause[file[f].key] \cap {"row", "shared"} # {}
      <4>1. FileInv(f) /\ file[f].state = "live"
        BY DEF FileIInv, LiveFiles
      <4> QED
        BY <2>1, <3>1, <4>1 DEF FileInv, Recorded, Busy
    <3>2. ASSUME NEW b \in Bgs, bg[b].state = "live", obj[b] = Null
          PROVE  Busy(b) \/ "row" \in cause[b]
      BY <2>1, <3>2 DEF FileIInv, BgInv, Busy
    <3> QED
      BY <3>1, <3>2 DEF RowHasObject
  <2>3. ObjectHasRow
    <3>1. ASSUME NEW k \in Keys, obj[k] # Null, RowsOf(k) = {}
          PROVE  Busy(k) \/ k \in pre \/ cause[k] # {}
      BY <2>1, <3>1 DEF FileIInv, KeyInv, Busy
    <3>2. ASSUME NEW b \in Bgs, obj[b] # Null, bg[b].state # "live"
          PROVE  Busy(b) \/ cause[b] # {}
      BY <2>1, <3>2 DEF FileIInv, BgInv, Busy
    <3> QED
      BY <3>1, <3>2 DEF ObjectHasRow
  <2> QED
    BY <2>2, <2>3 DEF ObjectsMatchRows, FileIInv
<1> QED
  BY <1>1, FileInductive, PTL

\* A file is what its row says, whoever completes an upload and whenever (FilesAsRecorded):
\* only another PUT through the presigned URL can change it.
THEOREM FilesStayAsRecorded == FileSpec => []FilesAsRecorded
<1>1. FileIInv => FilesAsRecorded
  <2> SUFFICES ASSUME FileIInv, NEW f \in LiveFiles
               PROVE  LET r == file[f]  c == obj[r.key] IN
                      /\ r.size <= IF r.key \in pre THEN MaxAttach ELSE MaxFile
                      /\ c # Null => \/ "reput" \in cause[r.key]
                                     \/ /\ c.size = r.size
                                        /\ r.key \in pre \/ VerifyMagicNumber(r.image, c)
    BY DEF FilesAsRecorded
  <2>1. Recorded(file[f])
    BY DEF FileIInv, FileInv, LiveFiles
  <2> QED
    BY <2>1 DEF Recorded
<1> QED
  BY <1>1, FileInductive, PTL

\* A listed background is outdated only for one of the reasons ListStaleExcused names.
THEOREM ListExcused == FileSpec => []ListStaleExcused
  BY FileInductive, PTL DEF FileIInv
==============================================================================
