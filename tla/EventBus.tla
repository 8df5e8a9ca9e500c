------------------------------ MODULE EventBus ------------------------------
(***************************************************************************)
(* pkg/eventbus over the in-memory connection of pkg/mq, as the auth and   *)
(* blog services wire it: callers of PublishAsync and PublishSync, one     *)
(* worker goroutine, consumers and callers of Close, interleaved at every  *)
(* channel operation, atomic and critical section.  Payloads are left out: *)
(* an event is a number and a topic.                                       *)
(***************************************************************************)
EXTENDS Integers, Sequences, FiniteSets

CONSTANTS
    Topics,
    Publishers,   \* goroutines that call PublishAsync or PublishSync
    Consumers,    \* goroutines of Subscribe
    Closers,      \* goroutines that call Close
    PendingSize,  \* config.PendingBufferSize
    QueueSize,    \* bufferSize of the memory connection
    MaxEvents     \* bound on the number of events

ASSUME ConstantsAssumption ==
    PendingSize \in Nat \ {0} /\ QueueSize \in Nat \ {0} /\ MaxEvents \in Nat

VARIABLES
    closed,      \* eb.closed
    stopped,     \* stopCh is closed
    pending,     \* the buffered channel of accepted events
    pendingOpen, \* pending is not closed
    producers,   \* topics in eb.producers
    connClosed,  \* memoryConnection.closed, and its queues are closed
    queue,       \* the buffered channel of each topic
    worker,      \* the worker goroutine
    pub,         \* publishers
    sub,         \* consumers
    closer,      \* callers of Close
    events,      \* events so far
    fate,        \* history: what became of each event
    taken        \* history: the events of each topic, in the order of receipt

bus == <<closed, stopped, pending, pendingOpen>>
mq == <<producers, connClosed, queue>>
vars == <<bus, mq, worker, pub, sub, closer, events, fate, taken>>

Event == [id: 1..MaxEvents, topic: Topics, sync: BOOLEAN]
None == [id |-> 0, topic |-> "none", sync |-> FALSE]

\* accepted: PublishAsync returned nil; failed: an error was returned or logged.
Fates == {"none", "accepted", "calling", "sent", "received", "rejected", "handled",
          "failed", "dropped", "panicked"}

TypeOK ==
    /\ closed \in BOOLEAN /\ stopped \in BOOLEAN
    /\ pendingOpen \in BOOLEAN /\ connClosed \in BOOLEAN
    /\ pending \in Seq(Event) /\ Len(pending) <= PendingSize
    /\ producers \subseteq Topics
    /\ queue \in [Topics -> Seq(Event)] /\ \A t \in Topics : Len(queue[t]) <= QueueSize
    /\ worker \in [pc: {"recv", "check", "lookup", "send", "select", "exited"},
                   ev: Event \cup {None}]
    /\ pub \in [Publishers -> [pc: {"idle", "enqueue", "lookup", "send", "select"},
                               ev: Event \cup {None}, topic: Topics \cup {"none"}]]
    /\ sub \in [Consumers -> [pc: {"none", "recv", "handle", "ended"}, live: BOOLEAN,
                              topic: Topics \cup {"none"}, ev: Event \cup {None}]]
    /\ closer \in [Closers -> {"idle", "stop", "pending", "wait", "lock", "done"}]
    /\ events \in 0..MaxEvents
    /\ fate \in [1..MaxEvents -> Fates]
    /\ taken \in [Topics -> Seq(Event)]

IdlePub == [pc |-> "idle", ev |-> None, topic |-> "none"]
NoSub == [pc |-> "none", live |-> FALSE, topic |-> "none", ev |-> None]

Init ==
    /\ closed = FALSE /\ stopped = FALSE /\ pendingOpen = TRUE /\ connClosed = FALSE
    /\ pending = <<>>
    /\ producers = {}
    /\ queue = [t \in Topics |-> <<>>]
    /\ worker = [pc |-> "recv", ev |-> None]
    /\ pub = [p \in Publishers |-> IdlePub]
    /\ sub = [c \in Consumers |-> NoSub]
    /\ closer = [c \in Closers |-> "idle"]
    /\ events = 0
    /\ fate = [i \in 1..MaxEvents |-> "none"]
    /\ taken = [t \in Topics |-> <<>>]

Becomes(ev, f) == fate' = [fate EXCEPT ![ev.id] = f]
-----------------------------------------------------------------------------
(* PublishAsync: the check of closed and the channel send are two steps.   *)

PublishAsync(p, t) ==
    /\ pub[p].pc = "idle" /\ ~closed /\ events < MaxEvents
    /\ pub' = [pub EXCEPT ![p] = [IdlePub EXCEPT !.pc = "enqueue", !.topic = t]]
    /\ UNCHANGED <<bus, mq, worker, sub, closer, events, fate, taken>>

\* select { case pending <- ev: ... default: ErrEventBusFull }
Room(q) == Len(q) < PendingSize

Enqueue(p) ==
    LET ev == [id |-> events + 1, topic |-> pub[p].topic, sync |-> FALSE] IN
    /\ pub[p].pc = "enqueue" /\ events < MaxEvents
    /\ events' = events + 1
    /\ pub' = [pub EXCEPT ![p] = IdlePub]
    /\ \/ /\ pendingOpen /\ Room(pending)
          /\ pending' = Append(pending, ev)
          /\ Becomes(ev, "accepted")
       \/ /\ pendingOpen /\ ~Room(pending)
          /\ UNCHANGED pending
          /\ Becomes(ev, "failed")
       \/ /\ ~pendingOpen                    \* send on closed channel
          /\ UNCHANGED pending
          /\ Becomes(ev, "panicked")
    /\ UNCHANGED <<closed, stopped, pendingOpen, mq, worker, sub, closer, taken>>
-----------------------------------------------------------------------------
(* publishRaw, for the worker and for PublishSync.                         *)

\* getOrCreateProducer under eb.mu: a closed connection creates no producer.
\* The caller goes on to Send, or returns the error.
Lookup(t) == t \in producers \/ ~connClosed
Created(t) == IF t \in producers THEN producers ELSE producers \cup {t}

\* memoryProducer.Send: the check of conn.closed, then the select.
QueueRoom(t) == Len(queue[t]) < QueueSize
EnlistLost(ev) == UNCHANGED queue
Enlist(ev) == queue' = [queue EXCEPT ![ev.topic] = Append(@, ev)]

PublishSync(p, t) ==
    LET ev == [id |-> events + 1, topic |-> t, sync |-> TRUE] IN
    /\ pub[p].pc = "idle" /\ ~closed /\ events < MaxEvents
    /\ events' = events + 1
    /\ pub' = [pub EXCEPT ![p] = [pc |-> "lookup", ev |-> ev, topic |-> t]]
    /\ Becomes(ev, "calling")
    /\ UNCHANGED <<bus, mq, worker, sub, closer, taken>>

SyncLookup(p) ==
    LET ev == pub[p].ev IN
    /\ pub[p].pc = "lookup"
    /\ IF Lookup(ev.topic)
       THEN /\ producers' = Created(ev.topic)
            /\ pub' = [pub EXCEPT ![p].pc = "send"]
            /\ UNCHANGED fate
       ELSE /\ pub' = [pub EXCEPT ![p] = IdlePub]
            /\ Becomes(ev, "failed")
            /\ UNCHANGED producers
    /\ UNCHANGED <<bus, connClosed, queue, worker, sub, closer, events, taken>>

SyncSend(p) ==
    /\ pub[p].pc = "send"
    /\ IF connClosed
       THEN pub' = [pub EXCEPT ![p] = IdlePub] /\ Becomes(pub[p].ev, "failed")
       ELSE pub' = [pub EXCEPT ![p].pc = "select"] /\ UNCHANGED fate
    /\ UNCHANGED <<bus, mq, worker, sub, closer, events, taken>>

SyncSelect(p) ==
    LET ev == pub[p].ev IN
    /\ pub[p].pc = "select"
    /\ IF connClosed THEN UNCHANGED queue /\ Becomes(ev, "panicked")  \* closed channel
       ELSE QueueRoom(ev.topic) /\ Enlist(ev) /\ Becomes(ev, "sent")
    /\ pub' = [pub EXCEPT ![p] = IdlePub]
    /\ UNCHANGED <<bus, producers, connClosed, worker, sub, closer, events, taken>>

\* The deadline of the caller's context passes while the queue is full.
SyncTimeout(p) ==
    /\ pub[p].pc = "select"
    /\ pub' = [pub EXCEPT ![p] = IdlePub]
    /\ Becomes(pub[p].ev, "failed")
    /\ UNCHANGED <<bus, mq, worker, sub, closer, events, taken>>
-----------------------------------------------------------------------------
(* The worker.                                                             *)

WorkerRecv ==
    /\ worker.pc = "recv" /\ pending # <<>>
    /\ worker' = [pc |-> "check", ev |-> Head(pending)]
    /\ pending' = Tail(pending)
    /\ UNCHANGED <<closed, stopped, pendingOpen, mq, pub, sub, closer, events, fate, taken>>

\* range ends when the channel is closed and empty.
WorkerEnds ==
    /\ worker.pc = "recv" /\ pending = <<>> /\ ~pendingOpen
    /\ worker' = [pc |-> "exited", ev |-> None]
    /\ UNCHANGED <<bus, mq, pub, sub, closer, events, fate, taken>>

\* After stopCh is closed the worker gives up its event and all that follow.
WorkerCheck ==
    /\ worker.pc = "check"
    /\ IF stopped
       THEN /\ worker' = [pc |-> "exited", ev |-> None]
            /\ fate' = [i \in 1..MaxEvents |->
                          IF i = worker.ev.id \/ \E n \in DOMAIN pending : pending[n].id = i
                          THEN "dropped" ELSE fate[i]]
       ELSE /\ worker' = [worker EXCEPT !.pc = "lookup"]
            /\ UNCHANGED fate
    /\ UNCHANGED <<bus, mq, pub, sub, closer, events, taken>>

\* An error is logged, and the worker takes the next event.
WorkerFails ==
    /\ worker' = [pc |-> "recv", ev |-> None]
    /\ Becomes(worker.ev, "failed")

WorkerLookup ==
    LET ev == worker.ev IN
    /\ worker.pc = "lookup"
    /\ IF Lookup(ev.topic)
       THEN /\ producers' = Created(ev.topic)
            /\ worker' = [worker EXCEPT !.pc = "send"]
            /\ UNCHANGED fate
       ELSE WorkerFails /\ UNCHANGED producers
    /\ UNCHANGED <<bus, connClosed, queue, pub, sub, closer, events, taken>>

WorkerSend ==
    /\ worker.pc = "send"
    /\ IF connClosed THEN WorkerFails
       ELSE worker' = [worker EXCEPT !.pc = "select"] /\ UNCHANGED fate
    /\ UNCHANGED <<bus, mq, pub, sub, closer, events, taken>>

WorkerSelect ==
    LET ev == worker.ev IN
    /\ worker.pc = "select"
    /\ IF connClosed THEN UNCHANGED queue /\ Becomes(ev, "panicked")
       ELSE QueueRoom(ev.topic) /\ Enlist(ev) /\ Becomes(ev, "sent")
    /\ worker' = [pc |-> "recv", ev |-> None]
    /\ UNCHANGED <<bus, producers, connClosed, pub, sub, closer, events, taken>>

\* config.PublishTimeout passes.
WorkerTimeoutNever == FALSE
WorkerTimeout ==
    /\ worker.pc = "select"
    /\ WorkerFails
    /\ UNCHANGED <<bus, mq, pub, sub, closer, events, taken>>
-----------------------------------------------------------------------------
(* Subscribe, Consume and Unsubscribe.                                     *)

Subscribe(c, t) ==
    /\ sub[c].pc = "none" /\ ~connClosed
    /\ sub' = [sub EXCEPT ![c] = [pc |-> "recv", live |-> TRUE, topic |-> t, ev |-> None]]
    /\ UNCHANGED <<bus, mq, worker, pub, closer, events, fate, taken>>

ReceivePeek(c) ==
    LET t == sub[c].topic IN
    /\ sub[c].pc = "recv" /\ queue[t] # <<>> /\ Len(taken[t]) < MaxEvents
    /\ sub' = [sub EXCEPT ![c].pc = "handle", ![c].ev = Head(queue[t])]
    /\ taken' = [taken EXCEPT ![t] = Append(@, Head(queue[t]))]
    /\ Becomes(Head(queue[t]), "received")
    /\ UNCHANGED <<bus, mq, worker, pub, closer, events>>

\* A cancelled consumer may still receive: select picks any ready case.
Receive(c) ==
    LET t == sub[c].topic IN
    /\ sub[c].pc = "recv" /\ queue[t] # <<>>
    /\ queue' = [queue EXCEPT ![t] = Tail(@)]
    /\ sub' = [sub EXCEPT ![c].pc = "handle", ![c].ev = Head(queue[t])]
    /\ taken' = [taken EXCEPT ![t] = Append(@, Head(queue[t]))]
    /\ Becomes(Head(queue[t]), "received")
    /\ UNCHANGED <<bus, producers, connClosed, worker, pub, closer, events>>

\* The handler returns; NackFunc of the memory queue does nothing.
Handle(c) ==
    /\ sub[c].pc = "handle"
    /\ \E f \in {"handled", "rejected"} : Becomes(sub[c].ev, f)
    /\ sub' = [sub EXCEPT ![c].pc = "recv", ![c].ev = None]
    /\ UNCHANGED <<bus, mq, worker, pub, closer, events, taken>>

ConsumeEnds(c) ==
    /\ sub[c].pc = "recv"
    /\ ~sub[c].live \/ (connClosed /\ queue[sub[c].topic] = <<>>)
    /\ sub' = [sub EXCEPT ![c].pc = "ended"]
    /\ UNCHANGED <<bus, mq, worker, pub, closer, events, fate, taken>>

Unsubscribe(c) ==
    /\ sub[c].live
    /\ sub' = [sub EXCEPT ![c].live = FALSE]
    /\ UNCHANGED <<bus, mq, worker, pub, closer, events, fate, taken>>
-----------------------------------------------------------------------------
(* Close.                                                                  *)

Close(c) ==
    /\ closer[c] = "idle"
    /\ closed' = TRUE
    /\ closer' = [closer EXCEPT ![c] = IF closed THEN "done" ELSE "stop"]
    /\ UNCHANGED <<stopped, pending, pendingOpen, mq, worker, pub, sub, events, fate, taken>>

CloseStop(c) ==
    /\ closer[c] = "stop"
    /\ stopped' = TRUE
    /\ closer' = [closer EXCEPT ![c] = "pending"]
    /\ UNCHANGED <<closed, pending, pendingOpen, mq, worker, pub, sub, events, fate, taken>>

ClosePending(c) ==
    /\ closer[c] = "pending"
    /\ pendingOpen' = FALSE
    /\ closer' = [closer EXCEPT ![c] = "wait"]
    /\ UNCHANGED <<closed, stopped, pending, mq, worker, pub, sub, events, fate, taken>>

\* eb.workerWg.Wait()
CloseWait(c) ==
    /\ closer[c] = "wait" /\ worker.pc = "exited"
    /\ closer' = [closer EXCEPT ![c] = "lock"]
    /\ UNCHANGED <<bus, mq, worker, pub, sub, events, fate, taken>>

\* Under eb.mu: close the producers, forget them, close the connection.
CloseConn(c) ==
    /\ closer[c] = "lock"
    /\ producers' = {}
    /\ connClosed' = TRUE
    /\ closer' = [closer EXCEPT ![c] = "done"]
    /\ UNCHANGED <<bus, queue, worker, pub, sub, events, fate, taken>>

Publishing(p) == Enqueue(p) \/ SyncLookup(p) \/ SyncSend(p) \/ SyncSelect(p) \/ SyncTimeout(p)
Working ==
    \/ WorkerRecv \/ WorkerEnds \/ WorkerCheck \/ WorkerLookup
    \/ WorkerSend \/ WorkerSelect \/ WorkerTimeout
Consuming(c) == Receive(c) \/ Handle(c) \/ ConsumeEnds(c)
Closing(c) == CloseStop(c) \/ ClosePending(c) \/ CloseWait(c) \/ CloseConn(c)

Next ==
    \/ \E p \in Publishers :
          Publishing(p) \/ \E t \in Topics : PublishAsync(p, t) \/ PublishSync(p, t)
    \/ Working
    \/ \E c \in Consumers :
          Consuming(c) \/ Unsubscribe(c) \/ \E t \in Topics : Subscribe(c, t)
    \/ \E c \in Closers : Close(c) \/ Closing(c)

Spec == Init /\ [][Next]_vars

\* The Go scheduler runs every goroutine that can run, and deadlines pass.
\* Nobody is obliged to publish, subscribe or close.
Fairness ==
    /\ WF_vars(Working)
    /\ \A p \in Publishers : WF_vars(Publishing(p))
    /\ \A c \in Consumers : WF_vars(Consuming(c))
    /\ \A c \in Closers : WF_vars(Closing(c))

FairSpec == Spec /\ Fairness
-----------------------------------------------------------------------------
(* Properties.                                                             *)

\* Async events of one topic reach the consumers in the order in which
\* PublishAsync accepted them, each at most once, whatever publishers, sync
\* events and competing consumers do.
InOrderOnce ==
    \A t \in Topics : \A i, j \in 1..Len(taken[t]) :
        i < j /\ ~taken[t][i].sync /\ ~taken[t][j].sync => taken[t][i].id < taken[t][j].id

Ids(s) == {s[n].id : n \in 1..Len(s)}

\* Close takes the connection away only after the worker is gone, so the worker
\* never sends on a closed queue and never finds eb.producers = nil.
WorkerOutlived == connClosed => worker.pc = "exited"

\* An accepted event is in the buffer or with the worker until it is sent, reported as
\* failed or given up by the worker once Close has stopped it (CloseWaits is about those);
\* a sent one is in the queue of its topic.  None vanishes in between, and the connection
\* the worker sends them on outlives it.
NothingVanishes ==
    /\ TypeOK
    /\ WorkerOutlived
    /\ \A i \in 1..MaxEvents :
          /\ fate[i] = "accepted" => i \in Ids(pending) \cup {worker.ev.id}
          /\ fate[i] = "sent" => \E t \in Topics : i \in Ids(queue[t])

\* What the comment on EventBus.Close promises: it waits until the pending events have
\* been sent, so that none that PublishAsync accepted is given up once Close is done.
\* The code does not keep it: Close closes stopCh first, and the worker looks at stopCh
\* before it sends.
CloseWaits ==
    (\E c \in Closers : closer[c] = "done")
        => \A i \in 1..MaxEvents : fate[i] \notin {"accepted", "dropped"}

\* Close always returns: a full queue holds the worker up for PublishTimeout only.
CloseReturns == \A c \in Closers : closer[c] # "idle" ~> closer[c] = "done"

\* An accepted event does not stay in the buffer, also when the queues of other
\* topics are full and nobody consumes them: it is sent or given up, unless the
\* bus is closed.
BufferDrains == \A i \in 1..MaxEvents : fate[i] = "accepted" ~> fate[i] # "accepted" \/ closed
=============================================================================
