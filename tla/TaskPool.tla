------------------------------ MODULE TaskPool ------------------------------
(***************************************************************************)
(* The in-process task queue (pkg/task): callers submit and cancel tasks,  *)
(* a scheduler hands them to workers, a worker runs a task function in a   *)
(* goroutine of its own with a timeout and puts a failed task back for     *)
(* another attempt, and Stop waits for a WaitGroup that counts the tasks.  *)
(* Each lock, atomic operation and channel operation is a step.  The       *)
(* scheduler wakes up on a notification or every 100 ms, so it may wake up *)
(* at any time and the notifications need no state.                        *)
(***************************************************************************)
EXTENDS Integers, FiniteSets

CONSTANTS
    Tasks,        \* task ids
    Callers,      \* goroutines that call TaskQueue
    WorkerCount,  \* workers, in the order in which the scheduler visits them
    Priority,     \* priority of each task
    MaxRetries,   \* Task.MaxRetries
    MaxQueueSize, \* TaskQueueConfig.MaxQueueSize
    NoTask        \* a nil *Task

ASSUME ConstantsAssumption ==
    /\ IsFiniteSet(Tasks) /\ IsFiniteSet(Callers)
    /\ WorkerCount \in Nat \ {0}
    /\ Priority \in [Tasks -> Nat]
    /\ MaxRetries \in Nat
    /\ MaxQueueSize \in Nat \ {0}
    /\ NoTask \notin Tasks

VARIABLES
    status,     \* Task.Status; "new" before the task is submitted
    retryCount, \* Task.RetryCount
    taskQueue,  \* pool.taskQueue
    retryQueue, \* pool.retryQueue
    wg,         \* pool.wg
    stats,      \* pool.stats: TotalTasks, SuccessTasks + FailedTasks
    shutdown,   \* isShutdown, and shutdownChan closed
    scheduler,  \* the scheduler: next worker to visit and task to hand over
    worker,     \* workers; "inbox" is taskChan
    caller,     \* callers of Submit and CancelTask
    stopper,    \* the caller of Stop
    running     \* task functions that are running, per task

Workers == 1..WorkerCount
OptTask == Tasks \cup {NoTask}
pool == <<taskQueue, retryQueue, wg, stats>>
poolVars == <<status, retryCount, pool, shutdown, scheduler, worker, caller, stopper, running>>

IdleCaller == [pc |-> "idle", t |-> NoTask]
Rest == [pc |-> "visit", i |-> 1, t |-> NoTask]

PoolTypeOK ==
    /\ status \in [Tasks -> {"new", "pending", "running", "success", "failed", "cancelled"}]
    /\ retryCount \in [Tasks -> 0..MaxRetries]
    /\ taskQueue \subseteq Tasks /\ retryQueue \subseteq Tasks
    /\ wg \in Nat
    /\ stats \in [total: Nat, ended: Nat]
    /\ shutdown \in BOOLEAN
    /\ scheduler \in [pc: {"visit", "send", "exited"}, i: 1..(WorkerCount + 1), t: OptTask]
    /\ worker \in [Workers -> [pc: {"select", "start", "wait", "finish", "exited"},
                               busy: BOOLEAN, t: OptTask, inbox: OptTask]]
    /\ caller \in [Callers -> [pc: {"idle", "push", "cancel"}, t: OptTask]]
    /\ stopper \in {"idle", "wait", "done"}
    /\ running \in [Tasks -> Nat]

PoolInit ==
    /\ status = [t \in Tasks |-> "new"]
    /\ retryCount = [t \in Tasks |-> 0]
    /\ taskQueue = {} /\ retryQueue = {} /\ wg = 0
    /\ stats = [total |-> 0, ended |-> 0]
    /\ shutdown = FALSE
    /\ scheduler = Rest
    /\ worker = [w \in Workers |-> [pc |-> "select", busy |-> FALSE, t |-> NoTask,
                                    inbox |-> NoTask]]
    /\ caller = [p \in Callers |-> IdleCaller]
    /\ stopper = "idle"
    /\ running = [t \in Tasks |-> 0]
-----------------------------------------------------------------------------
(* TaskQueue.Submit, SubmitFunc.                                           *)

\* The size check: a full queue refuses (ErrQueueFull).
Room == Cardinality(taskQueue) < MaxQueueSize

\* The task is registered, and refused by the pool after Stop (ErrPoolShutdown) ...
Submit(p, t) ==
    /\ caller[p].pc = "idle" /\ status[t] = "new"
    /\ Room
    /\ status' = [status EXCEPT ![t] = "pending"]
    /\ caller' = [caller EXCEPT ![p] = IF shutdown THEN IdleCaller ELSE [pc |-> "push", t |-> t]]
    /\ UNCHANGED <<retryCount, pool, shutdown, scheduler, worker, stopper, running>>

\* ... but counted and queued later: Stop may have come in between.
PushTask(p) ==
    /\ caller[p].pc = "push"
    /\ wg' = wg + 1
    /\ stats' = [stats EXCEPT !.total = @ + 1]
    /\ taskQueue' = taskQueue \cup {caller[p].t}
    /\ caller' = [caller EXCEPT ![p] = IdleCaller]
    /\ UNCHANGED <<status, retryCount, retryQueue, shutdown, scheduler, worker, stopper, running>>

\* CancelTask reads the status and writes it without synchronisation.
CancelTask(p, t) ==
    /\ caller[p].pc = "idle" /\ status[t] = "pending"
    /\ caller' = [caller EXCEPT ![p] = [pc |-> "cancel", t |-> t]]
    /\ UNCHANGED <<status, retryCount, pool, shutdown, scheduler, worker, stopper, running>>

CancelWrite(p) ==
    /\ caller[p].pc = "cancel"
    /\ status' = [status EXCEPT ![caller[p].t] = "cancelled"]
    /\ caller' = [caller EXCEPT ![p] = IdleCaller]
    /\ UNCHANGED <<retryCount, pool, shutdown, scheduler, worker, stopper, running>>
-----------------------------------------------------------------------------
(* The scheduler.                                                          *)

\* PopTask: a task of the highest priority.  Tasks of one priority leave in the
\* order of CreatedAt, which is not kept here: any of them may be first.
Firsts(q) == {t \in q : \A s \in q : Priority[s] <= Priority[t]}

\* dispatchTasks pops the retry queue first.
NextQueueNoRetry == taskQueue
NextQueue == IF retryQueue # {} THEN retryQueue ELSE taskQueue

\* dispatchTasks, one worker: a busy one is skipped, an empty queue or the last
\* worker ends the round, and the scheduler waits to be woken up by taskDoneChan or
\* by its timer (i = 1).
Visit ==
    LET i == scheduler.i IN
    /\ scheduler.pc = "visit"
    /\ \/ /\ i \in Workers => ~worker[i].busy /\ NextQueue = {}
          /\ scheduler' = Rest
          /\ UNCHANGED <<taskQueue, retryQueue>>
       \/ /\ i \in Workers /\ worker[i].busy
          /\ scheduler' = [scheduler EXCEPT !.i = i + 1]
          /\ UNCHANGED <<taskQueue, retryQueue>>
       \/ /\ i \in Workers /\ ~worker[i].busy
          /\ \E t \in Firsts(NextQueue) :
                /\ scheduler' = [pc |-> "send", i |-> i, t |-> t]
                /\ taskQueue' = IF NextQueue = taskQueue THEN taskQueue \ {t} ELSE taskQueue
                /\ retryQueue' = IF NextQueue = taskQueue THEN retryQueue ELSE retryQueue \ {t}
    /\ UNCHANGED <<status, retryCount, wg, stats, shutdown, worker, caller, stopper, running>>

\* worker.taskChan <- task blocks while the worker has not taken its last task.
Send ==
    LET i == scheduler.i IN
    /\ scheduler.pc = "send" /\ worker[i].inbox = NoTask
    /\ worker' = [worker EXCEPT ![i].inbox = scheduler.t]
    /\ scheduler' = [pc |-> "visit", i |-> i + 1, t |-> NoTask]
    /\ UNCHANGED <<status, retryCount, pool, shutdown, caller, stopper, running>>

\* <-p.shutdownChan, unless select takes another ready case first.
SchedulerExits ==
    /\ scheduler = Rest /\ shutdown
    /\ scheduler' = [scheduler EXCEPT !.pc = "exited"]
    /\ UNCHANGED <<status, retryCount, pool, shutdown, worker, caller, stopper, running>>
-----------------------------------------------------------------------------
(* A worker.                                                               *)

Take(w) ==
    /\ worker[w].pc = "select" /\ worker[w].inbox # NoTask
    /\ worker' = [worker EXCEPT ![w].pc = "start", ![w].t = worker[w].inbox,
                                ![w].inbox = NoTask]
    /\ UNCHANGED <<status, retryCount, pool, shutdown, scheduler, caller, stopper, running>>

\* <-w.stopChan
WorkerExits(w) ==
    /\ worker[w].pc = "select" /\ stopper = "done"
    /\ worker' = [worker EXCEPT ![w].pc = "exited"]
    /\ UNCHANGED <<status, retryCount, pool, shutdown, scheduler, caller, stopper, running>>

\* execute: busy, running, and the goroutine of the task function.  The status is
\* not looked at: a cancelled task runs like any other.
Execute(w) ==
    LET t == worker[w].t IN
    /\ worker[w].pc = "start"
    /\ worker' = [worker EXCEPT ![w].pc = "wait", ![w].busy = TRUE]
    /\ status' = [status EXCEPT ![t] = "running"]
    /\ running' = [running EXCEPT ![t] = @ + 1]
    /\ UNCHANGED <<retryCount, pool, shutdown, scheduler, caller, stopper>>

\* A failed attempt is followed by another while retries are left.
MayRetry(t) == retryCount[t] < MaxRetries

\* retryTask: the worker still owes its own Done, so the task is counted again.
RetryTaskUncounted(t) ==
    /\ retryCount' = [retryCount EXCEPT ![t] = @ + 1]
    /\ retryQueue' = retryQueue \cup {t}
    /\ UNCHANGED wg
RetryTask(t) ==
    /\ retryCount' = [retryCount EXCEPT ![t] = @ + 1]
    /\ retryQueue' = retryQueue \cup {t}
    /\ wg' = wg + 1

\* notifyTaskSuccess, notifyTaskFailed
Notify == stats' = [stats EXCEPT !.ended = @ + 1]

Ends(w) == worker' = [worker EXCEPT ![w].pc = "finish"]

\* The task function returned nil.
Succeeds(w) ==
    LET t == worker[w].t IN
    /\ worker[w].pc = "wait"
    /\ status' = [status EXCEPT ![t] = "success"]
    /\ running' = [running EXCEPT ![t] = @ - 1]
    /\ Notify /\ Ends(w)
    /\ UNCHANGED <<retryCount, taskQueue, retryQueue, wg, shutdown, scheduler, caller, stopper>>

\* It returned an error or panicked: another attempt, or the task has failed.
Fails(w) ==
    LET t == worker[w].t IN
    /\ worker[w].pc = "wait"
    /\ status' = [status EXCEPT ![t] = "failed"]
    /\ running' = [running EXCEPT ![t] = @ - 1]
    /\ IF MayRetry(t)
       THEN RetryTask(t) /\ UNCHANGED stats
       ELSE Notify /\ UNCHANGED <<retryCount, retryQueue, wg>>
    /\ Ends(w)
    /\ UNCHANGED <<taskQueue, shutdown, scheduler, caller, stopper>>

\* ctx.Done(): the task has failed for good, its function runs on unattended.
TimesOutRetried(w) ==
    LET t == worker[w].t IN
    /\ worker[w].pc = "wait"
    /\ status' = [status EXCEPT ![t] = "failed"]
    /\ IF MayRetry(t)
       THEN RetryTask(t) /\ UNCHANGED stats
       ELSE Notify /\ UNCHANGED <<retryCount, retryQueue, wg>>
    /\ Ends(w)
    /\ UNCHANGED <<taskQueue, shutdown, scheduler, caller, stopper, running>>
TimesOut(w) ==
    /\ worker[w].pc = "wait"
    /\ status' = [status EXCEPT ![worker[w].t] = "failed"]
    /\ Notify /\ Ends(w)
    /\ UNCHANGED <<retryCount, taskQueue, retryQueue, wg, shutdown, scheduler, caller,
                   stopper, running>>

\* A function that outlived its timeout returns; nobody receives its result.
LateReturn(t) ==
    /\ running[t] > Cardinality({w \in Workers : worker[w].pc = "wait" /\ worker[w].t = t})
    /\ running' = [running EXCEPT ![t] = @ - 1]
    /\ UNCHANGED <<status, retryCount, pool, shutdown, scheduler, worker, caller, stopper>>

\* The deferred function of execute: not busy any more, wg.Done().
Finish(w) ==
    /\ worker[w].pc = "finish"
    /\ worker' = [worker EXCEPT ![w].pc = "select", ![w].busy = FALSE, ![w].t = NoTask]
    /\ wg' = wg - 1
    /\ UNCHANGED <<status, retryCount, taskQueue, retryQueue, stats, shutdown, scheduler,
                   caller, stopper, running>>
-----------------------------------------------------------------------------
(* Stop.                                                                   *)

\* The first caller of Stop; later ones return at once.
Stop ==
    /\ stopper = "idle"
    /\ shutdown' = TRUE
    /\ stopper' = "wait"
    /\ UNCHANGED <<status, retryCount, pool, scheduler, worker, caller, running>>

\* p.wg.Wait() returns and every worker is told to stop.
Wait ==
    /\ stopper = "wait" /\ wg = 0
    /\ stopper' = "done"
    /\ UNCHANGED <<status, retryCount, pool, shutdown, scheduler, worker, caller, running>>

Calling(p) == PushTask(p) \/ CancelWrite(p)
Scheduling == Visit \/ Send \/ SchedulerExits
Working(w) ==
    \/ Take(w) \/ WorkerExits(w) \/ Execute(w) \/ Succeeds(w) \/ Fails(w)
    \/ TimesOut(w) \/ Finish(w)

PoolNext ==
    \/ \E p \in Callers : Calling(p) \/ \E t \in Tasks : Submit(p, t) \/ CancelTask(p, t)
    \/ Scheduling
    \/ \E w \in Workers : Working(w)
    \/ \E t \in Tasks : LateReturn(t)
    \/ Stop \/ Wait

PoolSpec == PoolInit /\ [][PoolNext]_poolVars

\* The Go scheduler runs the goroutines of the pool when they can run, and timers
\* fire.  Nobody is obliged to submit, cancel or stop, and a task function may hang.
PoolFairness ==
    /\ WF_poolVars(Scheduling) /\ WF_poolVars(Wait)
    /\ \A w \in Workers : WF_poolVars(Working(w))

PoolFairSpec == PoolSpec /\ PoolFairness
-----------------------------------------------------------------------------
(* Properties.                                                             *)

\* The pool has accepted t and not yet settled it.
InWorker(w) == {worker[w].inbox} \cup (IF worker[w].pc \in {"start", "wait"} THEN {worker[w].t} ELSE {})
Held == (taskQueue \cup retryQueue \cup {scheduler.t} \cup UNION {InWorker(w) : w \in Workers})
          \ {NoTask}

\* pool.wg counts each accepted task once, through queues, hand-over, attempts and
\* retries, and each attempt until its deferred Done: Done never takes it below
\* zero, and the Wait of Stop returns only when no accepted task is left.
WaitGroupExact ==
    wg = Cardinality(Held) + Cardinality({w \in Workers : worker[w].pc = "finish"})

\* GetStats adds up: every task of TotalTasks is held by the pool or counted once in
\* SuccessTasks or FailedTasks, whatever retries and timeouts it went through.
StatsAddUp == stats.total = stats.ended + Cardinality(Held)

\* The pool keeps its books: WaitGroup and statistics agree with the tasks it holds, also
\* while Submit and Stop overlap, and no task is retried more often than MaxRetries.
Bookkeeping == PoolTypeOK /\ WaitGroupExact /\ StatsAddUp

\* Two attempts of one task never run at the same time, also when the first one
\* outlives its timeout.
AttemptsDisjoint == \A t \in Tasks : running[t] <= 1

\* An accepted task is settled by success, failure or timeout as long as the pool is
\* not stopped: blocked hand-overs, hanging functions and retries included.
TasksSettle == \A t \in Tasks : t \in Held ~> t \notin Held \/ shutdown

\* "Wait until all tasks are done" (worker_pool.go, Stop): Stop returns.
StopReturns == stopper = "wait" ~> stopper = "done"
=============================================================================
