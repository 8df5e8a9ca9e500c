---------------------------- MODULE SharedProofs ----------------------------
(***************************************************************************)
(* Proofs about the two packages that every service shares.                *)
(*                                                                         *)
(* The event bus (EventBus), for any topics, publishers, consumers,        *)
(* callers of Close and buffer sizes: no event vanishes between            *)
(* PublishAsync and the consumers, and the asynchronous events of a topic  *)
(* arrive in the order of acceptance.  The order is kept along the whole   *)
(* line: received events, then the queue of the topic, then the event the  *)
(* worker carries, then the buffer.                                        *)
(*                                                                         *)
(* Token sessions (TokenSession): a revoked token stays refused.  A        *)
(* blacklist key is set with the time the token had left when its handler  *)
(* computed it, any number of clock ticks earlier, rounded down to         *)
(* seconds: the invariant carries that bound from the computation to the   *)
(* SETEX and from there to every later check.                              *)
(***************************************************************************)
EXTENDS EventBus, TokenSession, SequenceTheorems, TLAPS

USE DEF bus, mq

\* The ids of the asynchronous events of a sequence, and their order.
Async(s) == {s[n].id : n \in {m \in 1..Len(s) : ~s[m].sync}}
Rising(s) == \A i, j \in 1..Len(s) : i < j /\ ~s[i].sync /\ ~s[j].sync => s[i].id < s[j].id
AllAsync(s) == \A n \in 1..Len(s) : ~s[n].sync
Lower(A, B) == \A a \in A : \A b \in B : a < b

\* The id of the event the worker carries, if it carries one.
Work == {worker.ev.id} \ {0}
Busy(pc) == pc \in {"check", "lookup", "send", "select"}

WorkerRec == [pc: {"recv", "check", "lookup", "send", "select", "exited"},
              ev: Event \cup {None}]
PubRec == [pc: {"idle", "enqueue", "lookup", "send", "select"},
           ev: Event \cup {None}, topic: Topics \cup {"none"}]
SubRec == [pc: {"none", "recv", "handle", "ended"}, live: BOOLEAN,
           topic: Topics \cup {"none"}, ev: Event \cup {None}]

\* What the goroutines hold at each place.
WorkerAt(w) ==
    /\ w \in WorkerRec
    /\ IF Busy(w.pc) THEN w.ev \in Event /\ ~w.ev.sync ELSE w.ev = None
PubAt(q) ==
    /\ q \in PubRec
    /\ q.pc = "enqueue" => q.topic \in Topics
    /\ q.pc \in {"lookup", "send", "select"} => q.ev \in Event /\ q.ev.sync
SubAt(q) ==
    /\ q \in SubRec
    /\ q.pc \in {"recv", "handle"} => q.topic \in Topics
    /\ q.pc = "handle" => q.ev \in Event

Places ==
    /\ WorkerAt(worker)
    /\ AllAsync(pending)
    /\ \A p \in Publishers : PubAt(pub[p])
    /\ \A c \in Consumers : SubAt(sub[c])

\* Close waits for the worker before it touches the connection.
Shut ==
    /\ WorkerOutlived
    /\ \A c \in Closers : closer[c] = "lock" => worker.pc = "exited"

Kept ==
    \A i \in 1..MaxEvents :
        /\ fate[i] = "accepted" => i \in Ids(pending) \cup Work
        /\ fate[i] = "sent" => \E t \in Topics : i \in Ids(queue[t])

\* The line of a topic: received, queued, carried, buffered, not yet published.
Line(t) ==
    /\ Rising(taken[t]) /\ Rising(queue[t])
    /\ Lower(Async(taken[t]), Async(queue[t]))
    /\ Lower(Async(taken[t]) \cup Async(queue[t]), Work \cup Async(pending))
    /\ Lower(Async(taken[t]) \cup Async(queue[t]), {events + 1})

Order ==
    /\ Rising(pending)
    /\ Lower(Work, Async(pending))
    /\ Lower(Work \cup Async(pending), {events + 1})
    /\ \A t \in Topics : Line(t)

IInv == TypeOK /\ Places /\ Shut /\ Kept /\ Order
-----------------------------------------------------------------------------
(* Sequences of events.                                                    *)

LEMMA EventId == \A e \in Event : e.id \in 1..MaxEvents /\ e.id \in Nat /\ e.id # 0
  BY ConstantsAssumption DEF Event

LEMMA AsyncIds ==
    ASSUME NEW s \in Seq(Event)
    PROVE  Async(s) \subseteq 1..MaxEvents /\ Ids(s) \subseteq 1..MaxEvents
<1>1. \A n \in 1..Len(s) : s[n] \in Event
  OBVIOUS
<1> QED
  BY <1>1, EventId DEF Async, Ids

LEMMA AppendFacts ==
    ASSUME NEW s \in Seq(Event), NEW e \in Event
    PROVE  /\ Append(s, e) \in Seq(Event) /\ Len(Append(s, e)) = Len(s) + 1
           /\ Ids(Append(s, e)) = Ids(s) \cup {e.id}
           /\ Async(Append(s, e)) = Async(s) \cup (IF e.sync THEN {} ELSE {e.id})
           /\ AllAsync(s) /\ ~e.sync => AllAsync(Append(s, e))
           /\ Rising(s) /\ (e.sync \/ Lower(Async(s), {e.id})) => Rising(Append(s, e))
<1> DEFINE r == Append(s, e)
<1>1. r \in Seq(Event) /\ Len(r) = Len(s) + 1 /\ Len(s) \in Nat
  OBVIOUS
<1>2. (\A n \in 1..Len(s) : r[n] = s[n]) /\ r[Len(s) + 1] = e
  OBVIOUS
<1> HIDE DEF r
<1>3. 1..Len(r) = (1..Len(s)) \cup {Len(s) + 1}
  BY <1>1
<1>4. Ids(r) = Ids(s) \cup {e.id}
  BY <1>2, <1>3 DEF Ids
<1>5. Async(r) = Async(s) \cup (IF e.sync THEN {} ELSE {e.id})
  BY <1>2, <1>3 DEF Async
<1>6. AllAsync(s) /\ ~e.sync => AllAsync(r)
  BY <1>2, <1>3 DEF AllAsync
<1>7. ASSUME Rising(s), e.sync \/ Lower(Async(s), {e.id}) PROVE Rising(r)
  <2> SUFFICES ASSUME NEW i \in 1..Len(r), NEW j \in 1..Len(r), i < j, ~r[i].sync, ~r[j].sync
               PROVE  r[i].id < r[j].id
    BY DEF Rising
  <2>1. i \in 1..Len(s) /\ r[i] = s[i]
    BY <1>1, <1>2
  <2>2. CASE j \in 1..Len(s)
    BY <1>2, <1>7, <2>1, <2>2 DEF Rising
  <2>3. CASE j = Len(s) + 1
    <3>1. r[j] = e /\ s[i].id \in Async(s)
      BY <1>2, <2>1, <2>3 DEF Async
    <3> QED
      BY <1>7, <2>1, <3>1 DEF Lower
  <2> QED
    BY <1>3, <2>2, <2>3
<1> QED
  BY <1>1, <1>4, <1>5, <1>6, <1>7 DEF r

LEMMA TailFacts ==
    ASSUME NEW s \in Seq(Event), s # <<>>
    PROVE  /\ Tail(s) \in Seq(Event) /\ Len(Tail(s)) = Len(s) - 1 /\ Head(s) \in Event
           /\ Ids(s) = Ids(Tail(s)) \cup {Head(s).id}
           /\ Async(Tail(s)) \subseteq Async(s)
           /\ ~Head(s).sync => Head(s).id \in Async(s)
           /\ AllAsync(s) => AllAsync(Tail(s)) /\ ~Head(s).sync
           /\ Rising(s) => /\ Rising(Tail(s))
                           /\ ~Head(s).sync => Lower({Head(s).id}, Async(Tail(s)))
<1> DEFINE r == Tail(s)
           h == Head(s)
<1>1. r \in Seq(Event) /\ Len(s) \in Nat \ {0} /\ Len(r) = Len(s) - 1 /\ h \in Event
  OBVIOUS
<1>2. h = s[1] /\ \A n \in 1..Len(r) : r[n] = s[n + 1] /\ n + 1 \in 1..Len(s)
  BY <1>1
<1> HIDE DEF r, h
<1>3. 1 \in 1..Len(s) /\ \A m \in 1..Len(s) : m = 1 \/ (m - 1 \in 1..Len(r) /\ r[m - 1] = s[m])
  <2> SUFFICES ASSUME NEW m \in 1..Len(s), m # 1
               PROVE  m - 1 \in 1..Len(r) /\ r[m - 1] = s[m]
    BY <1>1
  <2>1. m - 1 \in 1..Len(r) /\ (m - 1) + 1 = m
    BY <1>1
  <2> QED
    BY <1>2, <2>1
<1>4. Ids(s) = Ids(r) \cup {h.id}
  BY <1>2, <1>3 DEF Ids
<1>5. Async(r) \subseteq Async(s) /\ (~h.sync => h.id \in Async(s))
  BY <1>2, <1>3 DEF Async
<1>6. AllAsync(s) => AllAsync(r) /\ ~h.sync
  BY <1>2, <1>3 DEF AllAsync
<1>7. ASSUME Rising(s) PROVE Rising(r)
  <2> SUFFICES ASSUME NEW i \in 1..Len(r), NEW j \in 1..Len(r), i < j, ~r[i].sync, ~r[j].sync
               PROVE  r[i].id < r[j].id
    BY DEF Rising
  <2>1. i + 1 < j + 1 /\ i + 1 \in 1..Len(s) /\ j + 1 \in 1..Len(s)
    BY <1>1, <1>2
  <2> QED
    BY <1>2, <1>7, <2>1 DEF Rising
<1>8. ASSUME Rising(s), ~h.sync PROVE Lower({h.id}, Async(r))
  <2> SUFFICES ASSUME NEW j \in 1..Len(r), ~r[j].sync PROVE h.id < r[j].id
    BY DEF Lower, Async
  <2>1. 1 < j + 1 /\ j + 1 \in 1..Len(s) /\ r[j] = s[j + 1]
    BY <1>1, <1>2
  <2> QED
    BY <1>2, <1>3, <1>8, <2>1 DEF Rising
<1> QED
  BY <1>1, <1>4, <1>5, <1>6, <1>7, <1>8 DEF r, h
-----------------------------------------------------------------------------
(* What most steps leave alone.                                            *)

\* The line stays in order when nothing enters it and the worker at most lets go.
LEMMA OrderKept ==
    ASSUME IInv, Work' \subseteq Work, UNCHANGED <<pending, queue, taken>>,
           events' \in Nat, events' >= events
    PROVE  Order'
<1>1. events \in Nat /\ pending \in Seq(Event) /\ worker.ev.id \in Nat
  BY EventId DEF IInv, TypeOK, Places, WorkerAt, None
<1>2. Async(pending) \subseteq Nat /\ Work \subseteq Nat
  BY <1>1, AsyncIds DEF Work
<1>3. \A t \in Topics : Line(t)'
  <2> SUFFICES ASSUME NEW t \in Topics PROVE Line(t)'
    OBVIOUS
  <2>1. Async(taken[t]) \subseteq Nat /\ Async(queue[t]) \subseteq Nat
    BY AsyncIds DEF IInv, TypeOK
  <2>2. Line(t)
    BY DEF IInv, Order
  <2> QED
    BY <1>1, <2>1, <2>2 DEF Line, Lower
<1>4. Order
  BY DEF IInv
<1>5. Rising(pending)' /\ Lower(Work, Async(pending))'
  BY <1>4 DEF Order, Lower
<1>6. Lower(Work \cup Async(pending), {events + 1})'
  <2> SUFFICES ASSUME NEW a \in Work' \cup Async(pending') PROVE a < events' + 1
    BY DEF Lower
  <2>1. a \in Nat /\ a \in Work \cup Async(pending)
    BY <1>2
  <2>2. a < events + 1
    BY <1>4, <2>1 DEF Order, Lower
  <2>3. \A m, n \in Nat : a < m + 1 /\ n >= m => a < n + 1
    BY <2>1
  <2> QED
    BY <1>1, <2>2, <2>3
<1> QED
  BY <1>3, <1>5, <1>6 DEF Order

\* No event vanishes when buffer and queues stay and fates only leave the two states.
LEMMA KeptKept ==
    ASSUME IInv, UNCHANGED <<pending, queue>>,
           \A i \in 1..MaxEvents :
              /\ fate'[i] = "accepted" => fate[i] = "accepted" /\ (i \in Work => i \in Work')
              /\ fate'[i] = "sent" => fate[i] = "sent"
    PROVE  Kept'
  BY DEF IInv, Kept

LEMMA BecomesFacts ==
    ASSUME TypeOK, NEW ev, NEW f \in Fates, Becomes(ev, f)
    PROVE  /\ fate' \in [1..MaxEvents -> Fates]
           /\ \A i \in 1..MaxEvents : fate'[i] = IF i = ev.id THEN f ELSE fate[i]
  BY DEF TypeOK, Becomes

LEMMA PubMoves ==
    ASSUME TypeOK, Places, NEW p \in Publishers, NEW q, PubAt(q), pub' = [pub EXCEPT ![p] = q]
    PROVE  pub' \in [Publishers -> PubRec] /\ \A o \in Publishers : PubAt(pub'[o])
<1>1. \A o \in Publishers : PubAt(pub'[o])
  BY DEF TypeOK, Places
<1>2. \A o \in Publishers : pub'[o] \in PubRec
  BY <1>1 DEF PubAt
<1> QED
  BY <1>1, <1>2 DEF TypeOK

LEMMA PubGoes ==
    ASSUME TypeOK, Places, NEW p \in Publishers, pub[p].pc \in {"lookup", "send"},
           NEW pc \in {"send", "select"}, pub' = [pub EXCEPT ![p].pc = pc]
    PROVE  pub' \in [Publishers -> PubRec] /\ \A o \in Publishers : PubAt(pub'[o])
<1> DEFINE q == [pub[p] EXCEPT !.pc = pc]
<1>1. pub[p] \in PubRec /\ PubAt(pub[p])
  BY DEF TypeOK, Places, PubAt
<1>2. q \in PubRec /\ q.pc = pc /\ q.ev = pub[p].ev
  BY <1>1 DEF PubRec
<1>3. PubAt(q)
  BY <1>1, <1>2 DEF PubAt
<1>4. pub' = [pub EXCEPT ![p] = q]
  OBVIOUS
<1> HIDE DEF q
<1> QED
  BY <1>3, <1>4, PubMoves

LEMMA IdlePubAt == PubAt(IdlePub)
  BY DEF PubAt, PubRec, IdlePub

\* A step of a publisher that touches at most the producers, the number of events and
\* the fate of an event that is neither buffered nor sent afterwards.
LEMMA PublisherFrame ==
    ASSUME IInv, pub' \in [Publishers -> PubRec], \A o \in Publishers : PubAt(pub'[o]),
           UNCHANGED <<bus, connClosed, queue, worker, sub, closer, taken>>,
           producers' \subseteq Topics, events' \in 0..MaxEvents, events' >= events,
           fate' \in [1..MaxEvents -> Fates],
           \A i \in 1..MaxEvents : fate'[i] \in {"accepted", "sent"} => fate'[i] = fate[i]
    PROVE  IInv'
<1>1. TypeOK'
  BY DEF IInv, TypeOK, PubRec
<1>2. Places'
  BY DEF IInv, Places
<1>3. Shut'
  BY DEF IInv, Shut, WorkerOutlived
<1>4. Kept'
  BY KeptKept DEF Work
<1>5. Order'
  BY OrderKept, ConstantsAssumption DEF Work
<1> QED
  BY <1>1, <1>2, <1>3, <1>4, <1>5 DEF IInv

LEMMA PublishAsyncStep ==
    ASSUME IInv, NEW p \in Publishers, NEW t \in Topics, PublishAsync(p, t)
    PROVE  IInv'
<1> DEFINE q == [IdlePub EXCEPT !.pc = "enqueue", !.topic = t]
<1>1. PubAt(q)
  BY DEF PubAt, PubRec, IdlePub
<1>2. pub' = [pub EXCEPT ![p] = q]
  BY DEF PublishAsync
<1> HIDE DEF q
<1>3. pub' \in [Publishers -> PubRec] /\ \A o \in Publishers : PubAt(pub'[o])
  BY <1>1, <1>2, PubMoves DEF IInv
<1>4. /\ UNCHANGED <<bus, connClosed, queue, worker, sub, closer, taken>>
      /\ producers' = producers /\ events' = events /\ fate' = fate
  BY DEF PublishAsync
<1>5. /\ producers \subseteq Topics /\ events \in 0..MaxEvents /\ events >= events
      /\ fate \in [1..MaxEvents -> Fates]
  BY ConstantsAssumption DEF IInv, TypeOK
<1> QED
  BY <1>3, <1>4, <1>5, PublisherFrame

LEMMA PublishSyncStep ==
    ASSUME IInv, NEW p \in Publishers, NEW t \in Topics, PublishSync(p, t)
    PROVE  IInv'
<1> DEFINE ev == [id |-> events + 1, topic |-> t, sync |-> TRUE]
           q == [pc |-> "lookup", ev |-> ev, topic |-> t]
<1>1. events \in 0..MaxEvents /\ events' = events + 1 /\ events < MaxEvents
  BY DEF PublishSync, IInv, TypeOK
<1>2. ev \in Event /\ ev.sync
  BY <1>1, ConstantsAssumption DEF Event
<1>3. PubAt(q)
  BY <1>2 DEF PubAt, PubRec
<1>4. pub' = [pub EXCEPT ![p] = q] /\ Becomes(ev, "calling")
  BY DEF PublishSync
<1> HIDE DEF q, ev
<1>5. pub' \in [Publishers -> PubRec] /\ \A o \in Publishers : PubAt(pub'[o])
  BY <1>3, <1>4, PubMoves DEF IInv
<1>6. /\ fate' \in [1..MaxEvents -> Fates]
      /\ \A i \in 1..MaxEvents : fate'[i] = IF i = ev.id THEN "calling" ELSE fate[i]
  BY <1>4, BecomesFacts DEF IInv, Fates
<1>7. /\ UNCHANGED <<bus, connClosed, queue, worker, sub, closer, taken>>
      /\ producers' \subseteq Topics /\ events' \in 0..MaxEvents /\ events' >= events
  BY <1>1, ConstantsAssumption DEF PublishSync, IInv, TypeOK
<1> QED
  BY <1>5, <1>6, <1>7, PublisherFrame

\* PublishSync returns: with an error, or with the panic of a send on a closed channel.
LEMMA SyncReturns ==
    ASSUME IInv, NEW p \in Publishers, NEW f \in {"failed", "panicked"},
           pub' = [pub EXCEPT ![p] = IdlePub], Becomes(pub[p].ev, f),
           UNCHANGED <<bus, mq, worker, sub, closer, events, taken>>
    PROVE  IInv'
<1>1. pub' \in [Publishers -> PubRec] /\ \A o \in Publishers : PubAt(pub'[o])
  BY IdlePubAt, PubMoves DEF IInv
<1>2. /\ fate' \in [1..MaxEvents -> Fates]
      /\ \A i \in 1..MaxEvents : fate'[i] = IF i = pub[p].ev.id THEN f ELSE fate[i]
  BY BecomesFacts DEF IInv, Fates
<1>3. /\ UNCHANGED <<bus, connClosed, queue, worker, sub, closer, taken>>
      /\ producers' \subseteq Topics /\ events' \in 0..MaxEvents /\ events' >= events
  BY ConstantsAssumption DEF IInv, TypeOK
<1> QED
  BY <1>1, <1>2, <1>3, PublisherFrame

LEMMA SyncLookupStep == ASSUME IInv, NEW p \in Publishers, SyncLookup(p) PROVE IInv'
<1> DEFINE ev == pub[p].ev
<1>1. pub[p].pc = "lookup" /\ ev \in Event
  BY DEF SyncLookup, IInv, Places, PubAt
<1>2. CASE Lookup(ev.topic)
  <2>1. /\ producers' = Created(ev.topic) /\ pub' = [pub EXCEPT ![p].pc = "send"]
        /\ fate' = fate /\ events' = events
        /\ UNCHANGED <<bus, connClosed, queue, worker, sub, closer, taken>>
    BY <1>2 DEF SyncLookup
  <2>2. producers' \subseteq Topics
    BY <1>1, <2>1 DEF Created, IInv, TypeOK, Event
  <2>3. pub' \in [Publishers -> PubRec] /\ \A o \in Publishers : PubAt(pub'[o])
    BY <1>1, <2>1, PubGoes DEF IInv
  <2>4. events \in 0..MaxEvents /\ events >= events /\ fate \in [1..MaxEvents -> Fates]
    BY ConstantsAssumption DEF IInv, TypeOK
  <2> QED
    BY <2>1, <2>2, <2>3, <2>4, PublisherFrame
<1>3. CASE ~Lookup(ev.topic)
  <2>1. /\ pub' = [pub EXCEPT ![p] = IdlePub] /\ Becomes(pub[p].ev, "failed")
        /\ UNCHANGED <<bus, mq, worker, sub, closer, events, taken>>
    BY <1>3 DEF SyncLookup
  <2> QED
    BY <2>1, SyncReturns
<1> QED
  BY <1>2, <1>3

LEMMA SyncSendStep == ASSUME IInv, NEW p \in Publishers, SyncSend(p) PROVE IInv'
<1>1. CASE connClosed
  <2>1. /\ pub' = [pub EXCEPT ![p] = IdlePub] /\ Becomes(pub[p].ev, "failed")
        /\ UNCHANGED <<bus, mq, worker, sub, closer, events, taken>>
    BY <1>1 DEF SyncSend
  <2> QED
    BY <2>1, SyncReturns
<1>2. CASE ~connClosed
  <2>1. /\ pub[p].pc = "send" /\ pub' = [pub EXCEPT ![p].pc = "select"]
        /\ fate' = fate /\ events' = events /\ producers' = producers
        /\ UNCHANGED <<bus, connClosed, queue, worker, sub, closer, taken>>
    BY <1>2 DEF SyncSend
  <2>2. pub' \in [Publishers -> PubRec] /\ \A o \in Publishers : PubAt(pub'[o])
    BY <2>1, PubGoes DEF IInv
  <2>3. /\ events \in 0..MaxEvents /\ events >= events /\ fate \in [1..MaxEvents -> Fates]
        /\ producers \subseteq Topics
    BY ConstantsAssumption DEF IInv, TypeOK
  <2> QED
    BY <2>1, <2>2, <2>3, PublisherFrame
<1> QED
  BY <1>1, <1>2

\* PublishAsync's send: the new event goes to the end of the line.
LEMMA EnqueueStep == ASSUME IInv, NEW p \in Publishers, Enqueue(p) PROVE IInv'
<1> DEFINE ev == [id |-> events + 1, topic |-> pub[p].topic, sync |-> FALSE]
<1>1. events \in 0..MaxEvents /\ events < MaxEvents /\ events' = events + 1 /\ events \in Nat
  BY ConstantsAssumption DEF Enqueue, IInv, TypeOK
<1>2. ev \in Event /\ ~ev.sync /\ ev.id = events + 1
  BY <1>1, ConstantsAssumption DEF Enqueue, IInv, Places, PubAt, Event
<1>3. /\ pub' = [pub EXCEPT ![p] = IdlePub]
      /\ UNCHANGED <<closed, stopped, pendingOpen, mq, worker, sub, closer, taken>>
      /\ \/ Room(pending) /\ pending' = Append(pending, ev) /\ Becomes(ev, "accepted")
         \/ pending' = pending /\ Becomes(ev, "failed")
         \/ pending' = pending /\ Becomes(ev, "panicked")
  BY DEF Enqueue
<1> HIDE DEF ev
<1>4. pub' \in [Publishers -> PubRec] /\ \A o \in Publishers : PubAt(pub'[o])
  BY <1>3, IdlePubAt, PubMoves DEF IInv
<1>5. ASSUME pending' = pending, NEW f \in {"failed", "panicked"}, Becomes(ev, f)
      PROVE  IInv'
  <2>1. /\ fate' \in [1..MaxEvents -> Fates]
        /\ \A i \in 1..MaxEvents : fate'[i] = IF i = ev.id THEN f ELSE fate[i]
    BY <1>5, BecomesFacts DEF IInv, Fates
  <2>2. /\ UNCHANGED <<bus, connClosed, queue, worker, sub, closer, taken>>
        /\ producers' \subseteq Topics /\ events' \in 0..MaxEvents /\ events' >= events
    BY <1>1, <1>3, <1>5, ConstantsAssumption DEF IInv, TypeOK
  <2> QED
    BY <1>4, <2>1, <2>2, PublisherFrame
<1>6. CASE Room(pending) /\ pending' = Append(pending, ev) /\ Becomes(ev, "accepted")
  <2>1. pending \in Seq(Event) /\ worker.ev.id \in Nat
    BY EventId DEF IInv, TypeOK, Places, WorkerAt, None
  <2>2. /\ pending' \in Seq(Event) /\ Len(pending') = Len(pending) + 1
        /\ Ids(pending') = Ids(pending) \cup {ev.id}
        /\ Async(pending') = Async(pending) \cup {ev.id}
        /\ AllAsync(pending')
        /\ Rising(pending) /\ Lower(Async(pending), {ev.id}) => Rising(pending')
    BY <1>2, <1>6, <2>1, AppendFacts DEF IInv, Places
  <2>3. /\ fate' \in [1..MaxEvents -> Fates]
        /\ \A i \in 1..MaxEvents : fate'[i] = IF i = ev.id THEN "accepted" ELSE fate[i]
    BY <1>6, BecomesFacts DEF IInv, Fates
  <2>4. TypeOK'
    <3>1. Len(pending') <= PendingSize
      BY <1>6, <2>1, <2>2, ConstantsAssumption DEF Room
    <3> QED
      BY <1>1, <1>3, <1>4, <2>2, <2>3, <3>1, ConstantsAssumption DEF IInv, TypeOK, PubRec
  <2>5. Places'
    BY <1>3, <1>4, <2>2 DEF IInv, Places
  <2>6. Shut'
    BY <1>3 DEF IInv, Shut, WorkerOutlived
  <2>7. Kept'
    BY <1>2, <1>3, <2>2, <2>3 DEF IInv, Kept, Work
  <2>8. Order'
    <3>1. Work' = Work /\ Order
      BY <1>3 DEF Work, IInv
    <3>2. Async(pending) \subseteq Nat /\ Work \subseteq Nat
      BY <2>1, AsyncIds DEF Work
    <3>3. Rising(pending') /\ Lower(Work, Async(pending'))
      BY <1>2, <2>2, <3>1 DEF Order, Lower
    <3>4. Lower(Work \cup Async(pending'), {events' + 1})
      <4> SUFFICES ASSUME NEW a \in Work \cup Async(pending') PROVE a < (events + 1) + 1
        BY <1>1 DEF Lower
      <4>1. a = events + 1 \/ a \in Work \cup Async(pending)
        BY <1>2, <2>2
      <4>2. a \in Nat /\ (a = events + 1 \/ a < events + 1)
        BY <1>1, <3>1, <3>2, <4>1 DEF Order, Lower
      <4> QED
        BY <1>1, <4>2
    <3>5. \A t \in Topics : Line(t)'
      <4> SUFFICES ASSUME NEW t \in Topics PROVE Line(t)'
        OBVIOUS
      <4> DEFINE A == Async(taken[t]) \cup Async(queue[t])
      <4>1. A \subseteq Nat
        BY AsyncIds DEF IInv, TypeOK
      <4>2. Line(t)
        BY <3>1 DEF Order
      <4>3. taken' = taken /\ queue' = queue
        BY <1>3
      <4>4. Lower(A, Work \cup Async(pending'))
        BY <1>2, <2>2, <4>2 DEF Line, Lower
      <4>5. Lower(A, {events' + 1})
        <5> SUFFICES ASSUME NEW a \in A PROVE a < (events + 1) + 1
          BY <1>1 DEF Lower
        <5>1. a \in Nat /\ a < events + 1
          BY <4>1, <4>2 DEF Line, Lower
        <5> QED
          BY <1>1, <5>1
      <4> QED
        BY <3>1, <4>2, <4>3, <4>4, <4>5 DEF Line
    <3> QED
      BY <3>1, <3>3, <3>4, <3>5 DEF Order
  <2> QED
    BY <2>4, <2>5, <2>6, <2>7, <2>8 DEF IInv
<1> QED
  BY <1>3, <1>5, <1>6
-----------------------------------------------------------------------------
(* Sending to the queue of a topic: a synchronous event overtakes the      *)
(* buffer, an asynchronous one comes from the worker, the head of the line. *)

LEMMA EnlistFacts ==
    ASSUME IInv, NEW e \in Event, QueueRoom(e.topic), Enlist(e),
           UNCHANGED <<pending, taken, events>>,
           \/ e.sync /\ Work' = Work
           \/ e.id \in Work /\ Work' = {}
    PROVE  /\ queue' \in [Topics -> Seq(Event)]
           /\ \A t \in Topics : /\ Len(queue'[t]) <= QueueSize
                                /\ Ids(queue[t]) \subseteq Ids(queue'[t])
           /\ e.topic \in Topics /\ e.id \in Ids(queue'[e.topic])
           /\ Order'
<1> DEFINE u == e.topic
<1>1. u \in Topics /\ queue \in [Topics -> Seq(Event)] /\ events \in Nat
  <2>1. u \in Topics
    BY DEF Event
  <2>2. queue \in [Topics -> Seq(Event)] /\ events \in Nat
    BY ConstantsAssumption DEF IInv, TypeOK
  <2> QED
    BY <2>1, <2>2
<1>2. queue'[u] = Append(queue[u], e) /\ \A t \in Topics \ {u} : queue'[t] = queue[t]
  BY <1>1 DEF Enlist
<1>3. /\ queue'[u] \in Seq(Event) /\ Len(queue'[u]) = Len(queue[u]) + 1
      /\ Ids(queue'[u]) = Ids(queue[u]) \cup {e.id}
      /\ Async(queue'[u]) = Async(queue[u]) \cup (IF e.sync THEN {} ELSE {e.id})
      /\ Rising(queue[u]) /\ (e.sync \/ Lower(Async(queue[u]), {e.id})) => Rising(queue'[u])
  <2> DEFINE q == queue[u]
  <2>1. q \in Seq(Event) /\ queue'[u] = Append(q, e)
    BY <1>1, <1>2
  <2> HIDE DEF q, u
  <2>2. /\ queue'[u] \in Seq(Event) /\ Len(queue'[u]) = Len(q) + 1
        /\ Ids(queue'[u]) = Ids(q) \cup {e.id}
        /\ Async(queue'[u]) = Async(q) \cup (IF e.sync THEN {} ELSE {e.id})
        /\ Rising(q) /\ (e.sync \/ Lower(Async(q), {e.id})) => Rising(queue'[u])
    BY <2>1, AppendFacts
  <2> QED
    BY <2>2 DEF q
<1>4. queue' \in [Topics -> Seq(Event)]
  BY <1>1, <1>2, <1>3 DEF Enlist
<1>5. \A t \in Topics : Len(queue'[t]) <= QueueSize /\ Ids(queue[t]) \subseteq Ids(queue'[t])
  <2>1. Len(queue'[u]) <= QueueSize
    BY <1>1, <1>3, ConstantsAssumption DEF QueueRoom
  <2> QED
    BY <1>2, <1>3, <2>1 DEF IInv, TypeOK
<1>6. \A t \in Topics : Line(t)
  BY DEF IInv, Order
<1>7. Line(u)'
  <2>1. CASE e.sync /\ Work' = Work
    <3>1. Async(queue'[u]) = Async(queue[u]) /\ Rising(queue'[u])
      BY <1>1, <1>3, <1>6, <2>1 DEF Line
    <3> QED
      BY <1>1, <1>6, <2>1, <3>1 DEF Line
  <2>2. CASE e.id \in Work /\ Work' = {} /\ ~e.sync
    <3> DEFINE A == Async(taken[u])
               B == Async(queue[u])
               P == Async(pending)
    <3>1. /\ Rising(taken[u]) /\ Rising(queue[u]) /\ Lower(A, B)
          /\ Lower(A \cup B, Work \cup P) /\ Lower(A \cup B, {events + 1})
      BY <1>1, <1>6 DEF Line
    <3>2. Lower(Work, P) /\ Lower(Work \cup P, {events + 1})
      BY DEF IInv, Order
    <3>3. Async(queue'[u]) = B \cup {e.id} /\ e.id \in Work
      BY <1>3, <2>2
    <3> HIDE DEF A, B, P
    <3>4. Lower(A, B \cup {e.id}) /\ Lower(B, {e.id})
      BY <3>1, <3>3 DEF Lower
    <3>5. Rising(queue'[u])
      BY <1>3, <3>1, <3>4 DEF B
    <3>6. Lower(A \cup (B \cup {e.id}), {} \cup P) /\ Lower(A \cup (B \cup {e.id}), {events + 1})
      BY <3>1, <3>2, <3>3 DEF Lower
    <3> QED
      BY <2>2, <3>1, <3>3, <3>4, <3>5, <3>6 DEF Line, A, B, P
  <2>3. CASE e.id \in Work /\ Work' = {} /\ e.sync
    <3>1. Async(queue'[u]) = Async(queue[u]) /\ Rising(queue'[u])
      BY <1>1, <1>3, <1>6, <2>3 DEF Line
    <3> QED
      BY <1>1, <1>6, <2>3, <3>1 DEF Line, Lower
  <2> QED
    BY <2>1, <2>2, <2>3
<1>8. \A t \in Topics : Line(t)'
  <2> SUFFICES ASSUME NEW t \in Topics, t # u PROVE Line(t)'
    BY <1>7
  <2>1. queue'[t] = queue[t] /\ Line(t) /\ Work' \subseteq Work
    BY <1>2, <1>6
  <2> QED
    BY <2>1 DEF Line, Lower
<1>9. Order'
  <2>1. Order /\ Work' \subseteq Work
    BY DEF IInv
  <2> QED
    BY <1>8, <2>1 DEF Order, Lower
<1> QED
  BY <1>1, <1>3, <1>4, <1>5, <1>9

\* What a send does to the fates.
LEMMA SentKept ==
    ASSUME IInv, NEW e \in Event, e.topic \in Topics, e.id \in Ids(queue'[e.topic]),
           \A t \in Topics : Ids(queue[t]) \subseteq Ids(queue'[t]),
           Becomes(e, "sent"), UNCHANGED pending, Work \ {e.id} \subseteq Work'
    PROVE  fate' \in [1..MaxEvents -> Fates] /\ Kept'
<1>1. /\ fate' \in [1..MaxEvents -> Fates]
      /\ \A i \in 1..MaxEvents : fate'[i] = IF i = e.id THEN "sent" ELSE fate[i]
  BY BecomesFacts DEF IInv, Fates
<1>2. \A i \in 1..MaxEvents : fate'[i] = "accepted" => i \in Ids(pending') \cup Work'
  BY <1>1 DEF IInv, Kept
<1>3. \A i \in 1..MaxEvents : fate'[i] = "sent" => \E t \in Topics : i \in Ids(queue'[t])
  BY <1>1 DEF IInv, Kept
<1> QED
  BY <1>1, <1>2, <1>3 DEF Kept

LEMMA SyncSelectStep == ASSUME IInv, NEW p \in Publishers, SyncSelect(p) PROVE IInv'
<1> DEFINE ev == pub[p].ev
<1>1. /\ pub[p].pc = "select" /\ ev \in Event /\ ev.sync
      /\ pub' = [pub EXCEPT ![p] = IdlePub]
      /\ UNCHANGED <<bus, producers, connClosed, worker, sub, closer, events, taken>>
  BY DEF SyncSelect, IInv, Places, PubAt
<1>2. CASE connClosed
  <2>1. queue' = queue /\ Becomes(pub[p].ev, "panicked")
    BY <1>2 DEF SyncSelect
  <2> QED
    BY <1>1, <2>1, SyncReturns
<1>3. CASE ~connClosed
  <2>1. QueueRoom(ev.topic) /\ Enlist(ev) /\ Becomes(ev, "sent")
    BY <1>3 DEF SyncSelect
  <2>2. Work' = Work /\ UNCHANGED <<pending, taken, events>>
    BY <1>1 DEF Work
  <2> HIDE DEF ev
  <2>3. /\ queue' \in [Topics -> Seq(Event)]
        /\ \A t \in Topics : Len(queue'[t]) <= QueueSize /\ Ids(queue[t]) \subseteq Ids(queue'[t])
        /\ ev.topic \in Topics /\ ev.id \in Ids(queue'[ev.topic])
        /\ Order'
    BY <1>1, <2>1, <2>2, EnlistFacts
  <2>4. fate' \in [1..MaxEvents -> Fates] /\ Kept'
    BY <1>1, <2>1, <2>2, <2>3, SentKept
  <2>5. pub' \in [Publishers -> PubRec] /\ \A o \in Publishers : PubAt(pub'[o])
    BY <1>1, IdlePubAt, PubMoves DEF IInv
  <2>6. TypeOK'
    BY <1>1, <2>3, <2>4, <2>5 DEF IInv, TypeOK, PubRec
  <2>7. Places' /\ Shut'
    BY <1>1, <2>5 DEF IInv, Places, Shut, WorkerOutlived
  <2> QED
    BY <2>3, <2>4, <2>6, <2>7 DEF IInv
<1> QED
  BY <1>2, <1>3
-----------------------------------------------------------------------------
(* The worker.                                                             *)

\* A step of the worker that leaves buffer and queues alone.
LEMMA WorkerFrame ==
    ASSUME IInv, WorkerAt(worker'), Work' \subseteq Work,
           worker.pc = "exited" => worker'.pc = "exited",
           UNCHANGED <<bus, connClosed, queue, pub, sub, closer, events, taken>>,
           producers' \subseteq Topics, fate' \in [1..MaxEvents -> Fates],
           \A i \in 1..MaxEvents :
              /\ fate'[i] = "accepted" => fate[i] = "accepted" /\ (i \in Work => i \in Work')
              /\ fate'[i] = "sent" => fate[i] = "sent"
    PROVE  IInv'
<1>1. TypeOK'
  BY DEF IInv, TypeOK, WorkerAt, WorkerRec
<1>2. Places'
  BY DEF IInv, Places
<1>3. Shut'
  BY DEF IInv, Shut, WorkerOutlived
<1>4. Kept'
  BY KeptKept
<1>5. Order'
  <2>1. events' \in Nat /\ events' >= events
    BY ConstantsAssumption DEF IInv, TypeOK
  <2> QED
    BY <2>1, OrderKept
<1> QED
  BY <1>1, <1>2, <1>3, <1>4, <1>5 DEF IInv

LEMMA WorkerGoes ==
    ASSUME IInv, Busy(worker.pc), NEW pc, Busy(pc), worker' = [worker EXCEPT !.pc = pc]
    PROVE  WorkerAt(worker') /\ Work' = Work
<1>1. worker \in WorkerRec /\ worker.ev \in Event /\ ~worker.ev.sync
  BY DEF IInv, Places, WorkerAt
<1>2. worker' \in WorkerRec /\ worker'.pc = pc /\ worker'.ev = worker.ev
  BY <1>1 DEF WorkerRec, Busy
<1> QED
  BY <1>1, <1>2 DEF WorkerAt, Work

LEMMA WorkerRests ==
    ASSUME NEW pc \in {"recv", "exited"}, worker' = [pc |-> pc, ev |-> None]
    PROVE  WorkerAt(worker') /\ Work' = {} /\ worker'.pc = pc
  BY DEF WorkerAt, WorkerRec, Busy, Work, None

LEMMA WorkerFailsStep ==
    ASSUME IInv, Busy(worker.pc), WorkerFails,
           UNCHANGED <<bus, mq, pub, sub, closer, events, taken>>
    PROVE  IInv'
<1>1. WorkerAt(worker') /\ Work' = {} /\ Becomes(worker.ev, "failed")
  BY WorkerRests DEF WorkerFails
<1>2. /\ fate' \in [1..MaxEvents -> Fates]
      /\ \A i \in 1..MaxEvents : fate'[i] = IF i = worker.ev.id THEN "failed" ELSE fate[i]
  BY <1>1, BecomesFacts DEF IInv, Fates
<1>3. \A i \in 1..MaxEvents :
         /\ fate'[i] = "accepted" => fate[i] = "accepted" /\ (i \in Work => i \in Work')
         /\ fate'[i] = "sent" => fate[i] = "sent"
  BY <1>2 DEF Work
<1>4. producers' \subseteq Topics /\ worker.pc # "exited"
  BY DEF IInv, TypeOK, Busy
<1> QED
  BY <1>1, <1>2, <1>3, <1>4, WorkerFrame

\* The worker takes the head of the buffer: the next of the line.
LEMMA WorkerRecvStep == ASSUME IInv, WorkerRecv PROVE IInv'
<1> DEFINE h == Head(pending)
<1>1. /\ worker.pc = "recv" /\ pending # <<>> /\ pending \in Seq(Event)
      /\ worker' = [pc |-> "check", ev |-> h] /\ pending' = Tail(pending)
      /\ UNCHANGED <<closed, stopped, pendingOpen, mq, pub, sub, closer, events, fate, taken>>
  BY DEF WorkerRecv, IInv, TypeOK
<1>2. /\ pending' \in Seq(Event) /\ Len(pending') = Len(pending) - 1 /\ h \in Event
      /\ Ids(pending) = Ids(pending') \cup {h.id}
      /\ Async(pending') \subseteq Async(pending) /\ h.id \in Async(pending)
      /\ AllAsync(pending') /\ ~h.sync
      /\ Rising(pending') /\ Lower({h.id}, Async(pending'))
  BY <1>1, TailFacts DEF IInv, Places, Order
<1> HIDE DEF h
<1>3. WorkerAt(worker') /\ worker'.ev = h /\ worker'.pc = "check"
  BY <1>1, <1>2 DEF WorkerAt, WorkerRec, Busy
<1>4. Work = {} /\ Work' = {h.id}
  BY <1>1, <1>2, <1>3, EventId DEF Work, IInv, Places, WorkerAt, Busy, None
<1>5. TypeOK'
  <2>1. Len(pending') <= PendingSize
    BY <1>1, <1>2, ConstantsAssumption DEF IInv, TypeOK
  <2> QED
    BY <1>1, <1>2, <1>3, <2>1 DEF IInv, TypeOK, WorkerAt, WorkerRec
<1>6. Places'
  BY <1>1, <1>2, <1>3 DEF IInv, Places
<1>7. Shut'
  BY <1>1 DEF IInv, Shut, WorkerOutlived
<1>8. Kept'
  BY <1>1, <1>2, <1>4 DEF IInv, Kept
<1>9. Order'
  <2>1. Order /\ Work' \cup Async(pending') \subseteq Async(pending)
    BY <1>2, <1>4 DEF IInv
  <2>2. \A t \in Topics : Line(t)'
    BY <1>1, <2>1 DEF Order, Line, Lower
  <2> QED
    BY <1>1, <1>2, <1>4, <2>1, <2>2 DEF Order, Lower
<1> QED
  BY <1>5, <1>6, <1>7, <1>8, <1>9 DEF IInv

LEMMA WorkerEndsStep == ASSUME IInv, WorkerEnds PROVE IInv'
<1>1. /\ WorkerAt(worker') /\ Work' = {} /\ worker'.pc = "exited"
      /\ UNCHANGED <<bus, mq, pub, sub, closer, events, fate, taken>>
  BY WorkerRests DEF WorkerEnds
<1>2. Work = {}
  BY DEF WorkerEnds, IInv, Places, WorkerAt, Busy, Work, None
<1>3. producers' \subseteq Topics /\ fate' \in [1..MaxEvents -> Fates]
  BY <1>1 DEF IInv, TypeOK
<1>4. \A i \in 1..MaxEvents :
         /\ fate'[i] = "accepted" => fate[i] = "accepted" /\ (i \in Work => i \in Work')
         /\ fate'[i] = "sent" => fate[i] = "sent"
  BY <1>1, <1>2
<1> QED
  BY <1>1, <1>3, <1>4, WorkerFrame

LEMMA WorkerCheckStep == ASSUME IInv, WorkerCheck PROVE IInv'
<1>1. /\ worker.pc = "check" /\ Busy(worker.pc)
      /\ UNCHANGED <<bus, mq, pub, sub, closer, events, taken>>
  BY DEF WorkerCheck, Busy
<1>2. producers' \subseteq Topics /\ fate \in [1..MaxEvents -> Fates]
  BY <1>1 DEF IInv, TypeOK
<1>3. CASE stopped
  <2> DEFINE Given(i) == i = worker.ev.id \/ \E n \in DOMAIN pending : pending[n].id = i
  <2>1. /\ worker' = [pc |-> "exited", ev |-> None]
        /\ fate' = [i \in 1..MaxEvents |-> IF Given(i) THEN "dropped" ELSE fate[i]]
    BY <1>3 DEF WorkerCheck
  <2>2. WorkerAt(worker') /\ Work' = {}
    BY <2>1, WorkerRests
  <2>3. fate' \in [1..MaxEvents -> Fates]
    BY <1>2, <2>1 DEF Fates
  <2>4. \A i \in 1..MaxEvents :
           /\ fate'[i] = "accepted" => fate[i] = "accepted" /\ (i \in Work => i \in Work')
           /\ fate'[i] = "sent" => fate[i] = "sent"
    BY <2>1 DEF Work
  <2> QED
    BY <1>1, <1>2, <2>2, <2>3, <2>4, WorkerFrame
<1>4. CASE ~stopped
  <2>1. worker' = [worker EXCEPT !.pc = "lookup"] /\ fate' = fate /\ Busy("lookup")
    BY <1>4 DEF WorkerCheck, Busy
  <2>2. WorkerAt(worker') /\ Work' = Work
    BY <1>1, <2>1, WorkerGoes
  <2> QED
    BY <1>1, <1>2, <2>1, <2>2, WorkerFrame
<1> QED
  BY <1>3, <1>4

LEMMA WorkerLookupStep == ASSUME IInv, WorkerLookup PROVE IInv'
<1> DEFINE ev == worker.ev
<1>1. /\ worker.pc = "lookup" /\ Busy(worker.pc) /\ ev \in Event
      /\ UNCHANGED <<bus, connClosed, queue, pub, sub, closer, events, taken>>
  BY DEF WorkerLookup, Busy, IInv, Places, WorkerAt
<1>2. CASE Lookup(ev.topic)
  <2>1. /\ producers' = Created(ev.topic) /\ worker' = [worker EXCEPT !.pc = "send"]
        /\ fate' = fate /\ Busy("send")
    BY <1>2 DEF WorkerLookup, Busy
  <2>2. producers' \subseteq Topics /\ fate' \in [1..MaxEvents -> Fates]
    BY <1>1, <2>1 DEF Created, IInv, TypeOK, Event
  <2>3. WorkerAt(worker') /\ Work' = Work
    BY <1>1, <2>1, WorkerGoes
  <2> QED
    BY <1>1, <2>1, <2>2, <2>3, WorkerFrame
<1>3. CASE ~Lookup(ev.topic)
  <2>1. WorkerFails /\ producers' = producers
    BY <1>3 DEF WorkerLookup
  <2> QED
    BY <1>1, <2>1, WorkerFailsStep
<1> QED
  BY <1>2, <1>3

LEMMA WorkerSendStep == ASSUME IInv, WorkerSend PROVE IInv'
<1>1. /\ worker.pc = "send" /\ Busy(worker.pc)
      /\ UNCHANGED <<bus, mq, pub, sub, closer, events, taken>>
  BY DEF WorkerSend, Busy
<1>2. CASE connClosed
  BY <1>1, <1>2, WorkerFailsStep DEF WorkerSend
<1>3. CASE ~connClosed
  <2>1. worker' = [worker EXCEPT !.pc = "select"] /\ fate' = fate /\ Busy("select")
    BY <1>3 DEF WorkerSend, Busy
  <2>2. WorkerAt(worker') /\ Work' = Work
    BY <1>1, <2>1, WorkerGoes
  <2>3. producers' \subseteq Topics /\ fate' \in [1..MaxEvents -> Fates]
    BY <1>1, <2>1 DEF IInv, TypeOK
  <2> QED
    BY <1>1, <2>1, <2>2, <2>3, WorkerFrame
<1> QED
  BY <1>2, <1>3

\* The worker's send: the connection is open, because Close waits for the worker.
LEMMA WorkerSelectStep == ASSUME IInv, WorkerSelect PROVE IInv'
<1> DEFINE ev == worker.ev
<1>1. /\ worker.pc = "select" /\ ev \in Event /\ ~ev.sync
      /\ worker' = [pc |-> "recv", ev |-> None]
      /\ UNCHANGED <<bus, producers, connClosed, pub, sub, closer, events, taken>>
  BY DEF WorkerSelect, Busy, IInv, Places, WorkerAt
<1>2. ~connClosed
  BY <1>1 DEF IInv, Shut, WorkerOutlived
<1>3. QueueRoom(ev.topic) /\ Enlist(ev) /\ Becomes(ev, "sent")
  BY <1>2 DEF WorkerSelect
<1>4. WorkerAt(worker') /\ Work' = {} /\ worker'.pc = "recv"
  BY <1>1, WorkerRests
<1>5. Work = {ev.id}
  BY <1>1, EventId DEF Work
<1> HIDE DEF ev
<1>6. /\ queue' \in [Topics -> Seq(Event)]
      /\ \A t \in Topics : Len(queue'[t]) <= QueueSize /\ Ids(queue[t]) \subseteq Ids(queue'[t])
      /\ ev.topic \in Topics /\ ev.id \in Ids(queue'[ev.topic])
      /\ Order'
  <2>1. UNCHANGED <<pending, taken, events>> /\ ev.id \in Work /\ Work' = {}
    BY <1>1, <1>4, <1>5
  <2> QED
    BY <1>1, <1>3, <2>1, EnlistFacts
<1>7. fate' \in [1..MaxEvents -> Fates] /\ Kept'
  <2>1. pending' = pending /\ Work \ {ev.id} \subseteq Work'
    BY <1>1, <1>5
  <2> QED
    BY <1>1, <1>3, <1>6, <2>1, SentKept
<1>8. TypeOK'
  BY <1>1, <1>4, <1>6, <1>7 DEF IInv, TypeOK, WorkerAt, WorkerRec
<1>9. Places'
  BY <1>1, <1>4 DEF IInv, Places
<1>10. Shut'
  BY <1>1, <1>2 DEF IInv, Shut, WorkerOutlived
<1> QED
  BY <1>6, <1>7, <1>8, <1>9, <1>10 DEF IInv

LEMMA WorkerTimeoutStep == ASSUME IInv, WorkerTimeout PROVE IInv'
  BY WorkerFailsStep DEF WorkerTimeout, Busy
-----------------------------------------------------------------------------
(* Consumers and Close.                                                    *)

LEMMA SubMoves ==
    ASSUME TypeOK, Places, NEW c \in Consumers, NEW q, SubAt(q), sub' = [sub EXCEPT ![c] = q]
    PROVE  sub' \in [Consumers -> SubRec] /\ \A o \in Consumers : SubAt(sub'[o])
<1>1. \A o \in Consumers : SubAt(sub'[o])
  BY DEF TypeOK, Places
<1>2. \A o \in Consumers : sub'[o] \in SubRec
  BY <1>1 DEF SubAt
<1> QED
  BY <1>1, <1>2 DEF TypeOK

\* A step of a consumer that receives nothing.
LEMMA ConsumerFrame ==
    ASSUME IInv, NEW c \in Consumers, NEW q, SubAt(q), sub' = [sub EXCEPT ![c] = q],
           UNCHANGED <<bus, mq, worker, pub, closer, events, taken>>,
           fate' \in [1..MaxEvents -> Fates],
           \A i \in 1..MaxEvents : fate'[i] \in {"accepted", "sent"} => fate'[i] = fate[i]
    PROVE  IInv'
<1>1. sub' \in [Consumers -> SubRec] /\ \A o \in Consumers : SubAt(sub'[o])
  BY SubMoves DEF IInv
<1>2. TypeOK'
  BY <1>1 DEF IInv, TypeOK, SubRec
<1>3. Places'
  BY <1>1 DEF IInv, Places
<1>4. Shut'
  BY DEF IInv, Shut, WorkerOutlived
<1>5. Kept'
  BY KeptKept DEF Work
<1>6. Order'
  <2>1. events' \in Nat /\ events' >= events /\ Work' \subseteq Work
    BY ConstantsAssumption DEF IInv, TypeOK, Work
  <2> QED
    BY <2>1, OrderKept
<1> QED
  BY <1>2, <1>3, <1>4, <1>5, <1>6 DEF IInv

LEMMA SubscribeStep ==
    ASSUME IInv, NEW c \in Consumers, NEW t \in Topics, Subscribe(c, t)
    PROVE  IInv'
<1> DEFINE q == [pc |-> "recv", live |-> TRUE, topic |-> t, ev |-> None]
<1>1. SubAt(q)
  BY DEF SubAt, SubRec
<1>2. /\ sub' = [sub EXCEPT ![c] = q] /\ fate' = fate
      /\ UNCHANGED <<bus, mq, worker, pub, closer, events, taken>>
  BY DEF Subscribe
<1>3. fate \in [1..MaxEvents -> Fates]
  BY DEF IInv, TypeOK
<1> HIDE DEF q
<1> QED
  BY <1>1, <1>2, <1>3, ConsumerFrame

LEMMA ConsumeEndsStep ==
    ASSUME IInv, NEW c \in Consumers, ConsumeEnds(c) \/ Unsubscribe(c)
    PROVE  IInv'
<1>1. SubAt(sub[c]) /\ sub[c] \in SubRec /\ sub \in [Consumers -> SubRec]
  BY DEF IInv, TypeOK, Places, SubAt, SubRec
<1>2. \E q : SubAt(q) /\ sub' = [sub EXCEPT ![c] = q]
  <2>1. CASE ConsumeEnds(c)
    <3> DEFINE q == [sub[c] EXCEPT !.pc = "ended"]
    <3>1. q \in SubRec /\ q.pc = "ended"
      BY <1>1 DEF SubRec
    <3>2. SubAt(q)
      BY <3>1 DEF SubAt
    <3>3. sub' = [sub EXCEPT ![c] = q]
      BY <2>1 DEF ConsumeEnds
    <3> QED
      BY <3>2, <3>3
  <2>2. CASE Unsubscribe(c)
    <3> DEFINE q == [sub[c] EXCEPT !.live = FALSE]
    <3>1. q \in SubRec /\ q.pc = sub[c].pc /\ q.topic = sub[c].topic /\ q.ev = sub[c].ev
      BY <1>1 DEF SubRec
    <3>2. SubAt(q)
      BY <1>1, <3>1 DEF SubAt
    <3>3. sub' = [sub EXCEPT ![c] = q]
      BY <2>2 DEF Unsubscribe
    <3> QED
      BY <3>2, <3>3
  <2> QED
    BY <2>1, <2>2
<1>3. fate' = fate /\ UNCHANGED <<bus, mq, worker, pub, closer, events, taken>>
  BY DEF ConsumeEnds, Unsubscribe
<1>4. fate \in [1..MaxEvents -> Fates]
  BY DEF IInv, TypeOK
<1> QED
  BY <1>2, <1>3, <1>4, ConsumerFrame

LEMMA HandleStep == ASSUME IInv, NEW c \in Consumers, Handle(c) PROVE IInv'
<1> DEFINE q == [[sub[c] EXCEPT !.pc = "recv"] EXCEPT !.ev = None]
<1>1. /\ SubAt(sub[c]) /\ sub[c] \in SubRec /\ sub \in [Consumers -> SubRec]
      /\ sub[c].pc = "handle" /\ sub[c].topic \in Topics
  BY DEF IInv, TypeOK, Places, SubAt, SubRec, Handle
<1>2. q \in SubRec /\ q.pc = "recv" /\ q.topic = sub[c].topic
  BY <1>1 DEF SubRec
<1>3. SubAt(q)
  BY <1>1, <1>2 DEF SubAt
<1>4. sub' = [sub EXCEPT ![c] = q]
  BY <1>1 DEF Handle
<1> HIDE DEF q
<1>5. PICK f \in {"handled", "rejected"} : Becomes(sub[c].ev, f)
  BY DEF Handle
<1>6. /\ fate' \in [1..MaxEvents -> Fates]
      /\ \A i \in 1..MaxEvents : fate'[i] = IF i = sub[c].ev.id THEN f ELSE fate[i]
  BY <1>5, BecomesFacts DEF IInv, Fates
<1>7. UNCHANGED <<bus, mq, worker, pub, closer, events, taken>>
  BY DEF Handle
<1> QED
  BY <1>3, <1>4, <1>6, <1>7, ConsumerFrame

\* A consumer takes the head of its queue: the next of the line of its topic.
LEMMA ReceiveStep == ASSUME IInv, NEW c \in Consumers, Receive(c) PROVE IInv'
<1>0. PICK t \in Topics : t = sub[c].topic
  BY DEF IInv, Places, SubAt, Receive
<1> DEFINE h == Head(queue[t])
           q == [[sub[c] EXCEPT !.pc = "handle"] EXCEPT !.ev = h]
<1>1. /\ SubAt(sub[c]) /\ sub[c] \in SubRec /\ sub \in [Consumers -> SubRec]
      /\ sub[c].pc = "recv" /\ sub[c].topic = t
  BY <1>0 DEF IInv, TypeOK, Places, SubAt, SubRec, Receive
<1>2. /\ queue \in [Topics -> Seq(Event)] /\ taken \in [Topics -> Seq(Event)]
      /\ queue[t] \in Seq(Event) /\ taken[t] \in Seq(Event) /\ queue[t] # <<>>
  BY <1>1 DEF IInv, TypeOK, Receive
<1>3. /\ queue' = [queue EXCEPT ![t] = Tail(queue[t])]
      /\ taken' = [taken EXCEPT ![t] = Append(taken[t], h)]
      /\ sub' = [sub EXCEPT ![c] = q] /\ Becomes(h, "received")
      /\ UNCHANGED <<bus, producers, connClosed, worker, pub, closer, events>>
  BY <1>1 DEF Receive
<1>4. h \in Event
  BY <1>2, TailFacts
<1>5. SubAt(q)
  <2>1. q \in SubRec /\ q.pc = "handle" /\ q.topic = t /\ q.ev = h
    BY <1>1, <1>4 DEF SubRec
  <2> QED
    BY <1>1, <1>4, <2>1 DEF SubAt
<1> HIDE DEF q, h
<1>6. /\ queue'[t] = Tail(queue[t]) /\ taken'[t] = Append(taken[t], h)
      /\ \A u \in Topics \ {t} : queue'[u] = queue[u] /\ taken'[u] = taken[u]
  BY <1>1, <1>2, <1>3
<1> DEFINE A == Async(taken[t])
           B == Async(queue[t])
           H == IF h.sync THEN {} ELSE {h.id}
<1>7. /\ queue'[t] \in Seq(Event) /\ Len(queue'[t]) = Len(queue[t]) - 1
      /\ Ids(queue[t]) = Ids(queue'[t]) \cup {h.id}
      /\ Async(queue'[t]) \subseteq B /\ H \subseteq B
      /\ Rising(queue[t]) => Rising(queue'[t]) /\ Lower(H, Async(queue'[t]))
  BY <1>2, <1>6, TailFacts DEF h, Lower
<1>8. /\ taken'[t] \in Seq(Event) /\ Async(taken'[t]) = A \cup H
      /\ Rising(taken[t]) /\ (h.sync \/ Lower(A, {h.id})) => Rising(taken'[t])
  BY <1>2, <1>4, <1>6, AppendFacts
<1>9. sub' \in [Consumers -> SubRec] /\ \A o \in Consumers : SubAt(sub'[o])
  BY <1>3, <1>5, SubMoves DEF IInv
<1>10. /\ fate' \in [1..MaxEvents -> Fates]
       /\ \A i \in 1..MaxEvents : fate'[i] = IF i = h.id THEN "received" ELSE fate[i]
  BY <1>3, BecomesFacts DEF IInv, Fates
<1>11. TypeOK'
  <2>1. queue' \in [Topics -> Seq(Event)] /\ taken' \in [Topics -> Seq(Event)]
    BY <1>2, <1>3, <1>6, <1>7, <1>8
  <2>2. Len(queue'[t]) <= QueueSize
    BY <1>1, <1>2, <1>7, ConstantsAssumption DEF IInv, TypeOK
  <2>3. \A u \in Topics : Len(queue'[u]) <= QueueSize
    BY <1>6, <2>2 DEF IInv, TypeOK
  <2> QED
    BY <1>3, <1>9, <1>10, <2>1, <2>3 DEF IInv, TypeOK, SubRec
<1>12. Places' /\ Shut'
  BY <1>3, <1>9 DEF IInv, Places, Shut, WorkerOutlived
<1>13. Kept'
  <2>1. \A i \in 1..MaxEvents : fate'[i] = "accepted" => i \in Ids(pending') \cup Work'
    BY <1>3, <1>10 DEF IInv, Kept, Work
  <2>2. \A i \in 1..MaxEvents : fate'[i] = "sent" => \E u \in Topics : i \in Ids(queue'[u])
    <3> SUFFICES ASSUME NEW i \in 1..MaxEvents, fate'[i] = "sent"
                 PROVE  \E u \in Topics : i \in Ids(queue'[u])
      OBVIOUS
    <3>1. i # h.id /\ fate[i] = "sent"
      BY <1>10
    <3>2. PICK u \in Topics : i \in Ids(queue[u])
      BY <3>1 DEF IInv, Kept
    <3>3. i \in Ids(queue'[u])
      BY <1>6, <1>7, <3>1, <3>2
    <3> QED
      BY <3>3
  <2> QED
    BY <2>1, <2>2 DEF Kept
<1>14. Order'
  <2>1. Order /\ Work' = Work /\ pending' = pending /\ events' = events
    BY <1>3 DEF IInv, Work
  <2>2. Line(t)'
    <3>1. /\ Rising(taken[t]) /\ Rising(queue[t]) /\ Lower(A, B)
          /\ Lower(A \cup B, Work \cup Async(pending)) /\ Lower(A \cup B, {events + 1})
      BY <1>1, <2>1 DEF Order, Line
    <3> DEFINE C == Async(queue'[t])
    <3>2. C \subseteq B /\ H \subseteq B /\ Lower(H, C) /\ Async(taken'[t]) = A \cup H
      BY <1>7, <1>8, <3>1
    <3>3. h.sync \/ h.id \in B
      BY <1>7
    <3> HIDE DEF A, B, C, H
    <3>4. Lower(A \cup H, C) /\ (h.sync \/ Lower(A, {h.id}))
      BY <3>1, <3>2, <3>3 DEF Lower
    <3>5. /\ Lower((A \cup H) \cup C, Work \cup Async(pending))
          /\ Lower((A \cup H) \cup C, {events + 1})
      BY <3>1, <3>2 DEF Lower
    <3>6. Rising(taken'[t]) /\ Rising(queue'[t])
      BY <1>7, <1>8, <3>1, <3>4 DEF A
    <3> QED
      BY <2>1, <3>2, <3>4, <3>5, <3>6 DEF Line, C
  <2>3. \A u \in Topics : Line(u)'
    <3> SUFFICES ASSUME NEW u \in Topics, u # t PROVE Line(u)'
      BY <2>2
    <3>1. Line(u) /\ queue'[u] = queue[u] /\ taken'[u] = taken[u]
      BY <1>6, <2>1 DEF Order
    <3> QED
      BY <2>1, <3>1 DEF Line
  <2> QED
    BY <2>1, <2>3 DEF Order
<1> QED
  BY <1>11, <1>12, <1>13, <1>14 DEF IInv

\* Close takes buffer, queues and events as they are.
LEMMA CloseStep ==
    ASSUME IInv, NEW c \in Closers, Close(c) \/ Closing(c)
    PROVE  IInv'
<1>1. /\ UNCHANGED <<pending, queue, worker, pub, sub, events, fate, taken>>
      /\ closed' \in BOOLEAN /\ stopped' \in BOOLEAN /\ pendingOpen' \in BOOLEAN
      /\ connClosed' \in BOOLEAN /\ producers' \subseteq Topics
  BY DEF Close, Closing, CloseStop, ClosePending, CloseWait, CloseConn, IInv, TypeOK
<1>2. closer' \in [Closers -> {"idle", "stop", "pending", "wait", "lock", "done"}]
  BY DEF Close, Closing, CloseStop, ClosePending, CloseWait, CloseConn, IInv, TypeOK
<1>3. TypeOK'
  BY <1>1, <1>2 DEF IInv, TypeOK
<1>4. Places'
  BY <1>1 DEF IInv, Places
<1>5. Shut'
  BY <1>1 DEF Close, Closing, CloseStop, ClosePending, CloseWait, CloseConn, IInv, TypeOK,
        Shut, WorkerOutlived
<1>6. Kept'
  BY <1>1 DEF IInv, Kept, Work
<1>7. Order'
  <2>1. events' \in Nat /\ events' >= events /\ Work' \subseteq Work
    BY <1>1, ConstantsAssumption DEF IInv, TypeOK, Work
  <2> QED
    BY <1>1, <2>1, OrderKept
<1> QED
  BY <1>3, <1>4, <1>5, <1>6, <1>7 DEF IInv
-----------------------------------------------------------------------------
\* Every reachable state satisfies the invariant, whatever publishers, worker,
\* consumers and callers of Close do and in whatever order.
THEOREM Inductive == Spec => []IInv
<1>1. Init => IInv
  <2> SUFFICES ASSUME Init PROVE IInv
    OBVIOUS
  <2>1. TypeOK
    <3>1. IdlePub \in PubRec /\ NoSub \in SubRec
      BY DEF IdlePub, NoSub, PubRec, SubRec
    <3>2. pub \in [Publishers -> PubRec] /\ sub \in [Consumers -> SubRec]
      BY <3>1 DEF Init
    <3>3. /\ pending \in Seq(Event) /\ Len(pending) <= PendingSize
          /\ queue \in [Topics -> Seq(Event)] /\ taken \in [Topics -> Seq(Event)]
          /\ \A t \in Topics : Len(queue[t]) <= QueueSize
      BY ConstantsAssumption DEF Init
    <3>4. worker \in WorkerRec /\ events \in 0..MaxEvents /\ fate \in [1..MaxEvents -> Fates]
      BY ConstantsAssumption DEF Init, WorkerRec, Fates
    <3> QED
      BY <3>2, <3>3, <3>4 DEF Init, TypeOK, PubRec, SubRec, WorkerRec
  <2>2. Places
    <3>1. WorkerAt(worker) /\ \A c \in Consumers : SubAt(sub[c])
      BY DEF Init, WorkerAt, WorkerRec, Busy, SubAt, SubRec, NoSub
    <3>2. AllAsync(pending) /\ \A p \in Publishers : PubAt(pub[p])
      BY IdlePubAt DEF Init, AllAsync
    <3> QED
      BY <3>1, <3>2 DEF Places
  <2>3. Shut /\ Kept
    BY DEF Init, Shut, Kept, WorkerOutlived
  <2>4. Order
    <3>1. Work = {} /\ pending = <<>> /\ \A t \in Topics : taken[t] = <<>> /\ queue[t] = <<>>
      BY DEF Init, Work, None
    <3>2. Async(<<>>) = {} /\ Rising(<<>>)
      <4>1. 1..Len(<<>>) = {}
        OBVIOUS
      <4> QED
        BY <4>1 DEF Async, Rising
    <3>3. \A t \in Topics : Line(t)
      BY <3>1, <3>2 DEF Line, Lower
    <3> QED
      BY <3>1, <3>2, <3>3 DEF Order, Lower
  <2> QED
    BY <2>1, <2>2, <2>3, <2>4 DEF IInv
<1>2. IInv /\ [Next]_vars => IInv'
  <2> SUFFICES ASSUME IInv, [Next]_vars PROVE IInv'
    OBVIOUS
  <2>1. ASSUME NEW p \in Publishers, Publishing(p) PROVE IInv'
    <3>1. CASE SyncTimeout(p)
      BY <3>1, SyncReturns DEF SyncTimeout
    <3> QED
      BY <2>1, <3>1, EnqueueStep, SyncLookupStep, SyncSendStep, SyncSelectStep DEF Publishing
  <2>2. ASSUME NEW p \in Publishers, NEW t \in Topics, PublishAsync(p, t) \/ PublishSync(p, t)
        PROVE  IInv'
    BY <2>2, PublishAsyncStep, PublishSyncStep
  <2>3. CASE Working
    BY <2>3, WorkerRecvStep, WorkerEndsStep, WorkerCheckStep, WorkerLookupStep, WorkerSendStep,
       WorkerSelectStep, WorkerTimeoutStep DEF Working
  <2>4. ASSUME NEW c \in Consumers, Consuming(c) \/ Unsubscribe(c) PROVE IInv'
    BY <2>4, ReceiveStep, HandleStep, ConsumeEndsStep DEF Consuming
  <2>5. ASSUME NEW c \in Consumers, NEW t \in Topics, Subscribe(c, t) PROVE IInv'
    BY <2>5, SubscribeStep
  <2>6. ASSUME NEW c \in Closers, Close(c) \/ Closing(c) PROVE IInv'
    BY <2>6, CloseStep
  <2>7. CASE UNCHANGED vars
    <3>1. TypeOK' /\ Places' /\ Shut'
      BY <2>7 DEF vars, IInv, TypeOK, Places, Shut, WorkerOutlived
    <3>2. Kept'
      BY <2>7 DEF vars, IInv, Kept, Work
    <3>3. Order'
      BY <2>7 DEF vars, IInv, Order, Line, Work
    <3> QED
      BY <3>1, <3>2, <3>3 DEF IInv
  <2>8. CASE Next
    BY <2>1, <2>2, <2>3, <2>4, <2>5, <2>6, <2>8 DEF Next
  <2> QED
    BY <2>7, <2>8
<1> QED
  BY <1>1, <1>2, PTL DEF Spec

\* The asynchronous events of a topic are received in the order of acceptance and at
\* most once each, however many consumers compete for them.
THEOREM ArrivesInOrder == Spec => []InOrderOnce
<1>1. IInv => InOrderOnce
  BY DEF IInv, Order, Line, Rising, InOrderOnce
<1> QED
  BY <1>1, Inductive, PTL

\* An accepted event is buffered, carried or given up by Close, a sent one is queued, and
\* Close never takes the connection from under the worker.
THEOREM NoEventVanishes == Spec => []NothingVanishes
<1>1. IInv => NothingVanishes
  BY DEF IInv, Shut, Kept, Work, NothingVanishes
<1> QED
  BY <1>1, Inductive, PTL
-----------------------------------------------------------------------------
(* Token sessions.                                                         *)

\* The key of a revoked token, or the one a handler is about to set, lasts until
\* the last second of the token.
Covers(end, t) == end + Second > exp[t]

\* A token a handler works on has been issued.
Held(q) ==
    /\ q.pc \in {"find", "set"} => q.t \in Tokens /\ q.t[1] <= pairs
    /\ q.pc = "set" => Covers(now + q.ttl, q.t)

SessionInv ==
    /\ SessionTypeOK
    /\ \A t \in Tokens : t[1] > pairs => exp[t] = 0 /\ black[t] = 0
    /\ \A t \in Tokens : black[t] # 0 => Covers(black[t], t)
    /\ \A p \in Servers : Held(call[p])
-----------------------------------------------------------------------------
\* Rounding to whole seconds takes less than a second away.
LEMMA WholeBounds ==
    ASSUME NEW d \in Nat
    PROVE  Whole(d) \in Nat /\ Whole(d) + Second > d
<1>1. d % Second \in 0..(Second - 1) /\ d % Second <= d
  BY SMTT(20), SessionAssumption
<1> QED
  BY <1>1, SessionAssumption DEF Whole

\* tokenRemainingTTL and SETEX: a key set now lasts until the token's last second.
LEMMA TTLCovers ==
    ASSUME SessionTypeOK, NEW t \in Tokens
    PROVE  RemainingTTL(t) \in Nat /\ Covers(now + RemainingTTL(t), t)
<1> DEFINE d == IF exp[t] - now > 0 THEN exp[t] - now ELSE Second
<1>1. exp[t] \in Nat /\ now \in Nat /\ Second \in Nat \ {0}
  BY SessionAssumption DEF SessionTypeOK
<1>2. d \in Nat /\ d >= exp[t] - now
  BY <1>1
<1>3. Whole(d) \in Nat /\ Whole(d) + Second > d
  BY <1>2, WholeBounds
<1>4. RemainingTTL(t) = IF d < Second THEN Second ELSE Whole(d)
  BY DEF RemainingTTL
<1> HIDE DEF d
<1> QED
  BY <1>1, <1>2, <1>3, <1>4 DEF Covers

\* A token that parses has been issued.
LEMMA ValidIsIssued ==
    ASSUME SessionInv, NEW t \in Tokens \cup {NoToken}, NEW k, Valid(t, k)
    PROVE  t \in Tokens /\ t[1] <= pairs
<1>1. t \in Tokens /\ now < exp[t]
  BY DEF Valid
<1>2. t[1] \in Nat /\ pairs \in Nat /\ now \in Nat
  BY <1>1, SessionAssumption DEF SessionInv, SessionTypeOK, Tokens
<1> QED
  BY <1>1, <1>2 DEF SessionInv

\* What a handler holds when it is about to set a key.
LEMMA SetIsHeld ==
    ASSUME SessionInv, NEW t \in Tokens, t[1] <= pairs, NEW r \in Tokens \cup {NoToken},
           NEW q, q = At("set", t, r, RemainingTTL(t))
    PROVE  q \in Call /\ Held(q)
<1>1. RemainingTTL(t) \in Nat /\ Covers(now + RemainingTTL(t), t)
  BY TTLCovers DEF SessionInv
<1> QED
  BY <1>1 DEF At, Call, Held

\* The other places of a handler hold nothing that the clock could outrun.
LEMMA OtherIsHeld ==
    ASSUME NEW t \in Tokens, NEW q,
           \/ q = NoCall
           \/ q = At("admit", t, NoToken, 0)
           \/ q = At("find", t, NoToken, 0) /\ t[1] <= pairs
    PROVE  q \in Call /\ Held(q)
  BY DEF At, NoCall, Call, Held

LEMMA IdleIsHeld == NoCall \in Call /\ Held(NoCall)
  BY DEF At, NoCall, Call, Held
-----------------------------------------------------------------------------
\* A step of one handler that leaves clock, tokens and blacklist alone.
LEMMA HandlerStep ==
    ASSUME SessionInv, NEW p \in Servers, NEW q \in Call, Held(q),
           call' = [call EXCEPT ![p] = q],
           UNCHANGED <<now, pairs, exp, black>>, faults' \in 0..MaxFaults
    PROVE  SessionInv'
<1>1. \A r : Held(r)' <=> Held(r)
  BY DEF Held, Covers
<1>2. \A o \in Servers : call'[o] \in Call /\ Held(call'[o])
  BY DEF SessionInv, SessionTypeOK
<1>3. SessionTypeOK'
  BY <1>2 DEF SessionInv, SessionTypeOK
<1>4. \A o \in Servers : Held(call[o])'
  BY <1>1, <1>2
<1> QED
  BY <1>3, <1>4 DEF SessionInv, Covers

\* A new pair: no handler holds its tokens and no key is set for them.
LEMMA IssueStep ==
    ASSUME SessionInv, Issue, UNCHANGED <<now, black, faults>>
    PROVE  /\ SessionTypeOK' <=> (call \in [Servers -> Call])'
           /\ (\A t \in Tokens : t[1] > pairs => exp[t] = 0 /\ black[t] = 0)'
           /\ (\A t \in Tokens : black[t] # 0 => Covers(black[t], t))'
           /\ \A q : Held(q) => Held(q)'
           /\ \A t \in Tokens : t[1] <= pairs => exp'[t] = exp[t]
<1> DEFINE i == pairs + 1
<1>1. pairs \in Nat /\ now \in Nat /\ i \in 1..MaxPairs /\ pairs' = i
  BY SessionAssumption DEF SessionInv, SessionTypeOK, Issue
<1>2. Whole(now + AccessLife) \in Nat /\ Whole(now + RefreshLife) \in Nat
  BY <1>1, WholeBounds, SessionAssumption
<1>3. exp' \in [Tokens -> Nat]
  BY <1>1, <1>2 DEF SessionInv, SessionTypeOK, Issue
<1>4. \A t \in Tokens : t[1] \in Nat /\ (t[1] # i => exp'[t] = exp[t])
  BY <1>1, SessionAssumption DEF SessionInv, SessionTypeOK, Issue, Tokens
<1>5. \A t \in Tokens : black[t] # 0 => t[1] <= pairs
  BY <1>1, <1>4 DEF SessionInv
<1>6. \A t \in Tokens : t[1] <= pairs => exp'[t] = exp[t]
  BY <1>1, <1>4
<1>7. SessionTypeOK' <=> (call \in [Servers -> Call])'
  BY <1>1, <1>3 DEF SessionInv, SessionTypeOK
<1>8. \A q : Held(q) => Held(q)'
  <2> SUFFICES ASSUME NEW q, Held(q) PROVE Held(q)'
    OBVIOUS
  <2>1. CASE q.pc \in {"find", "set"}
    <3>1. q.t \in Tokens /\ q.t[1] <= pairs /\ exp'[q.t] = exp[q.t] /\ q.t[1] \in Nat
      BY <1>4, <1>6, <2>1 DEF Held
    <3> QED
      BY <1>1, <3>1 DEF Held, Covers
  <2> QED
    BY <2>1 DEF Held
<1>9. (\A t \in Tokens : t[1] > pairs => exp[t] = 0 /\ black[t] = 0)'
  BY <1>1, <1>4 DEF SessionInv
<1>10. (\A t \in Tokens : black[t] # 0 => Covers(black[t], t))'
  BY <1>5, <1>6 DEF SessionInv, Covers
<1> QED
  BY <1>6, <1>7, <1>8, <1>9, <1>10

LEMMA LoginStep == ASSUME SessionInv, Login PROVE SessionInv'
<1>1. call' = call /\ Issue /\ UNCHANGED <<now, black, faults>>
  BY DEF Login
<1>2. \A p \in Servers : Held(call[p])'
  BY <1>1, IssueStep DEF SessionInv
<1> QED
  BY <1>1, <1>2, IssueStep DEF SessionInv, SessionTypeOK

LEMMA RefreshIssueStep == ASSUME SessionInv, NEW p \in Servers, RefreshIssue(p) PROVE SessionInv'
<1> DEFINE t == call[p].t
           q == At("set", t, NoToken, RemainingTTL(t))
<1>1. /\ call' = [call EXCEPT ![p] = q]
      /\ Issue /\ UNCHANGED <<now, black, faults>>
  BY DEF RefreshIssue
<1>2. t \in Tokens /\ t[1] <= pairs
  BY DEF SessionInv, Held, RefreshIssue
<1>3. q \in Call /\ Held(q)
  BY <1>2, SetIsHeld
<1> HIDE DEF q
<1>4. \A o \in Servers : call'[o] \in Call /\ Held(call'[o])
  BY <1>1, <1>3 DEF SessionInv, SessionTypeOK
<1>5. \A o \in Servers : Held(call[o])'
  BY <1>1, <1>4, IssueStep
<1>6. call' \in [Servers -> Call]
  BY <1>1, <1>4 DEF SessionInv, SessionTypeOK
<1> QED
  BY <1>1, <1>5, <1>6, IssueStep DEF SessionInv

\* What AfterSet leaves behind: the second token of Logout, or nothing.
LEMMA AfterSetHolds ==
    ASSUME SessionInv, NEW p \in Servers, AfterSet(p), call[p].pc = "set"
    PROVE  \E q \in Call : call' = [call EXCEPT ![p] = q] /\ Held(q)
<1> DEFINE r == call[p].rest
           q == IF Valid(r, "refresh") THEN At("set", r, NoToken, RemainingTTL(r)) ELSE NoCall
<1>1. r \in Tokens \cup {NoToken}
  BY DEF SessionInv, SessionTypeOK, Call
<1>2. call' = [call EXCEPT ![p] = q]
  BY DEF AfterSet
<1>3. CASE Valid(r, "refresh")
  <2>1. r \in Tokens /\ r[1] <= pairs
    BY <1>1, <1>3, ValidIsIssued
  <2>2. q \in Call /\ Held(q)
    BY <1>3, <2>1, SetIsHeld
  <2> QED
    BY <1>2, <2>2
<1>4. CASE ~Valid(r, "refresh")
  BY <1>2, <1>4, IdleIsHeld
<1> QED
  BY <1>3, <1>4

LEMMA AddStep == ASSUME SessionInv, NEW p \in Servers, AddWithTTL(p) PROVE SessionInv'
<1> DEFINE t == call[p].t
<1>1. /\ call[p].pc = "set"
      /\ black' = [black EXCEPT ![t] = now + call[p].ttl]
      /\ AfterSet(p) /\ UNCHANGED <<now, pairs, exp, faults>>
  BY DEF AddWithTTL
<1>2. t \in Tokens /\ t[1] <= pairs /\ Covers(now + call[p].ttl, t)
  BY <1>1 DEF SessionInv, Held
<1>3. now \in Nat /\ pairs \in Nat /\ t[1] \in Nat /\ call[p].ttl \in Nat
  BY <1>2, SessionAssumption DEF SessionInv, SessionTypeOK, Call, Tokens
<1>4. PICK q \in Call : call' = [call EXCEPT ![p] = q] /\ Held(q)
  BY <1>1, AfterSetHolds
<1>5. \A r : Held(r)' <=> Held(r)
  BY <1>1 DEF Held, Covers
<1>6. \A o \in Servers : call'[o] \in Call /\ Held(call'[o])
  BY <1>4 DEF SessionInv, SessionTypeOK
<1>7. black' \in [Tokens -> Nat]
  BY <1>1, <1>2, <1>3 DEF SessionInv, SessionTypeOK
<1>8. \A u \in Tokens : black'[u] = IF u = t THEN now + call[p].ttl ELSE black[u]
  BY <1>1 DEF SessionInv, SessionTypeOK
<1>9. SessionTypeOK'
  BY <1>1, <1>4, <1>6, <1>7 DEF SessionInv, SessionTypeOK
<1>10. (\A u \in Tokens : u[1] > pairs => exp[u] = 0 /\ black[u] = 0)'
  BY <1>1, <1>2, <1>3, <1>8 DEF SessionInv
<1>11. (\A u \in Tokens : black[u] # 0 => Covers(black[u], u))'
  BY <1>1, <1>2, <1>8 DEF SessionInv, Covers
<1>12. \A o \in Servers : Held(call[o])'
  BY <1>5, <1>6
<1> QED
  BY <1>9, <1>10, <1>11, <1>12 DEF SessionInv

\* Time runs on: a key that covers its token when set a moment ago still does.
LEMMA TickStep == ASSUME SessionInv, Tick PROVE SessionInv'
<1>1. SessionTypeOK'
  BY SessionAssumption DEF SessionInv, SessionTypeOK, Tick
<1>2. \A p \in Servers : Held(call[p])'
  <2> SUFFICES ASSUME NEW p \in Servers PROVE Held(call[p])'
    OBVIOUS
  <2>1. Held(call[p]) /\ call' = call /\ now' = now + 1 /\ UNCHANGED <<pairs, exp>>
    BY DEF SessionInv, Tick
  <2>2. now \in Nat /\ call[p].ttl \in Nat /\ Second \in Nat
    BY SessionAssumption DEF SessionInv, SessionTypeOK, Call
  <2>3. call[p].t \in Tokens => exp[call[p].t] \in Nat
    BY DEF SessionInv, SessionTypeOK
  <2> QED
    BY <2>1, <2>2, <2>3 DEF Held, Covers
<1> QED
  BY <1>1, <1>2 DEF SessionInv, Covers, Tick

\* A check that lets a token past holds an issued token, whatever Redis answered.
LEMMA PassStep ==
    ASSUME SessionInv, NEW p \in Servers, NEW t \in Tokens, NEW pc, Pass(p, t, pc),
           pc = "admit" \/ (pc = "find" /\ t[1] <= pairs)
    PROVE  SessionInv'
<1> DEFINE q == At(pc, t, NoToken, 0)
<1>1. q \in Call /\ Held(q)
  BY OtherIsHeld
<1>2. faults' \in 0..MaxFaults
  BY SessionAssumption DEF SessionInv, SessionTypeOK, Pass, QueryFails
<1>3. call' = [call EXCEPT ![p] = q] /\ UNCHANGED <<now, pairs, exp, black>>
  BY DEF Pass
<1> HIDE DEF q
<1> QED
  BY <1>1, <1>2, <1>3, HandlerStep

LEMMA LogoutStep ==
    ASSUME SessionInv, NEW p \in Servers, NEW a \in Tokens \cup {NoToken},
           NEW r \in Tokens \cup {NoToken}, Logout(p, a, r)
    PROVE  SessionInv'
<1>1. UNCHANGED <<now, pairs, exp, black>> /\ faults' \in 0..MaxFaults
  BY DEF Logout, SessionInv, SessionTypeOK
<1>2. \E q \in Call : call' = [call EXCEPT ![p] = q] /\ Held(q)
  <2>1. CASE Valid(a, "access") /\ call' = [call EXCEPT ![p] = At("set", a, r, RemainingTTL(a))]
    <3>1. a \in Tokens /\ a[1] <= pairs
      BY <2>1, ValidIsIssued
    <3> QED
      BY <2>1, <3>1, SetIsHeld
  <2>2. CASE /\ Valid(r, "refresh")
             /\ call' = [call EXCEPT ![p] = At("set", r, NoToken, RemainingTTL(r))]
    <3>1. r \in Tokens /\ r[1] <= pairs
      BY <2>2, ValidIsIssued
    <3> QED
      BY <2>2, <3>1, SetIsHeld
  <2> QED
    BY <2>1, <2>2 DEF Logout
<1> QED
  BY <1>1, <1>2, HandlerStep

\* The steps that end a request or a failed SETEX.
LEMMA EndStep ==
    ASSUME SessionInv, NEW p \in Servers, Admit(p) \/ RefreshRefused(p) \/ AddFails(p)
    PROVE  SessionInv'
<1>1. CASE Admit(p) \/ RefreshRefused(p)
  <2>1. call' = [call EXCEPT ![p] = NoCall] /\ UNCHANGED <<now, pairs, exp, black, faults>>
    BY <1>1 DEF Admit, RefreshRefused
  <2>2. faults' \in 0..MaxFaults
    BY <2>1 DEF SessionInv, SessionTypeOK
  <2> QED
    BY <2>1, <2>2, IdleIsHeld, HandlerStep
<1>2. CASE AddFails(p)
  <2>1. \E q \in Call : call' = [call EXCEPT ![p] = q] /\ Held(q)
    BY <1>2, AfterSetHolds DEF AddFails
  <2>2. UNCHANGED <<now, pairs, exp, black>> /\ faults' \in 0..MaxFaults
    BY <1>2, SessionAssumption DEF AddFails, QueryFails, SessionInv, SessionTypeOK
  <2> QED
    BY <2>1, <2>2, HandlerStep
<1> QED
  BY <1>1, <1>2
-----------------------------------------------------------------------------
\* Every reachable state satisfies the invariant: whatever the interleaving of
\* issue, rotation, logout, checks, failing Redis commands and the clock.
THEOREM SessionInductive == SessionSpec => []SessionInv
<1>1. SessionInit => SessionInv
  <2> SUFFICES ASSUME SessionInit PROVE SessionInv
    OBVIOUS
  <2>1. SessionTypeOK
    BY IdleIsHeld, SessionAssumption DEF SessionInit, SessionTypeOK
  <2> QED
    BY <2>1, IdleIsHeld DEF SessionInit, SessionInv
<1>2. SessionInv /\ [SessionNext]_sessionVars => SessionInv'
  <2> SUFFICES ASSUME SessionInv, [SessionNext]_sessionVars PROVE SessionInv'
    OBVIOUS
  <2>1. CASE Login
    BY <2>1, LoginStep
  <2>2. CASE Tick
    BY <2>2, TickStep
  <2>3. ASSUME NEW p \in Servers, Admit(p) \/ RefreshRefused(p) \/ AddFails(p) PROVE SessionInv'
    BY <2>3, EndStep
  <2>4. ASSUME NEW p \in Servers, RefreshIssue(p) PROVE SessionInv'
    BY <2>4, RefreshIssueStep
  <2>5. ASSUME NEW p \in Servers, AddWithTTL(p) PROVE SessionInv'
    BY <2>5, AddStep
  <2>6. ASSUME NEW p \in Servers, NEW t \in Tokens, RefreshToken(p, t) PROVE SessionInv'
    <3>1. Pass(p, t, "find") /\ t[1] <= pairs
      BY <2>6, ValidIsIssued DEF RefreshToken
    <3> QED
      BY <3>1, PassStep
  <2>7. ASSUME NEW p \in Servers, NEW t \in Tokens, Gateway(p, t) PROVE SessionInv'
    BY <2>7, PassStep DEF Gateway
  <2>8. ASSUME NEW p \in Servers, NEW i \in 0..pairs, NEW j \in 0..pairs,
               Logout(p, IF i = 0 THEN NoToken ELSE <<i, "access">>,
                         IF j = 0 THEN NoToken ELSE <<j, "refresh">>)
        PROVE  SessionInv'
    <3> DEFINE a == IF i = 0 THEN NoToken ELSE <<i, "access">>
               r == IF j = 0 THEN NoToken ELSE <<j, "refresh">>
    <3>1. pairs \in 0..MaxPairs
      BY DEF SessionInv, SessionTypeOK
    <3>2. a \in Tokens \cup {NoToken} /\ r \in Tokens \cup {NoToken}
      BY <3>1, SessionAssumption DEF Tokens, Kinds
    <3> HIDE DEF a, r
    <3>3. Logout(p, a, r)
      BY <2>8 DEF a, r
    <3> QED
      BY <3>2, <3>3, LogoutStep
  <2>9. CASE UNCHANGED sessionVars
    <3>1. \A p \in Servers : Held(call[p])'
      BY <2>9 DEF sessionVars, SessionInv, Held, Covers
    <3>2. SessionTypeOK'
      BY <2>9 DEF sessionVars, SessionInv, SessionTypeOK
    <3> QED
      BY <2>9, <3>1, <3>2 DEF sessionVars, SessionInv, Covers
  <2> QED
    BY <2>1, <2>2, <2>3, <2>4, <2>5, <2>6, <2>7, <2>8, <2>9 DEF SessionNext
<1> QED
  BY <1>1, <1>2, PTL DEF SessionSpec

\* Clock, claims, keys and handlers keep their types in every reachable state.
THEOREM SessionTypes == SessionSpec => []SessionTypeOK
<1>1. SessionInv => SessionTypeOK
  BY DEF SessionInv
<1> QED
  BY <1>1, SessionInductive, PTL

\* Rotation and logout hold: once AddWithTTL has succeeded, neither the gateway nor
\* RefreshToken lets the token past, unless Redis fails to answer or the token is in
\* its last second.
THEOREM RevocationHolds == SessionSpec => RevokedIsRefused
<1> DEFINE Refused == \A p \in Servers :
             LET t == call'[p].t IN
             /\ call[p].pc = "idle" /\ call'[p].pc \in {"find", "admit"} /\ Revoked(t)
             => faults' > faults \/ now + Second > exp[t]
<1>1. SessionInv /\ [SessionNext]_sessionVars => [Refused]_sessionVars
  <2> SUFFICES ASSUME SessionInv, SessionNext, NEW p \in Servers, call[p].pc = "idle",
                      call'[p].pc \in {"find", "admit"}, Revoked(call'[p].t)
               PROVE  faults' > faults \/ now + Second > exp[call'[p].t]
    BY DEF Refused
  <2>1. \E t \in Tokens, pc \in {"find", "admit"} : Pass(p, t, pc)
    <3>1. call \in [Servers -> Call] /\ call' # call /\ call'[p] # NoCall
      BY DEF SessionInv, SessionTypeOK, NoCall, At
    <3>2. ~ Login /\ ~ Tick
      BY <3>1 DEF Login, Tick
    <3>3. PICK o \in Servers :
             \/ Admit(o) \/ RefreshRefused(o) \/ RefreshIssue(o)
             \/ AddWithTTL(o) \/ AddFails(o)
             \/ \E t \in Tokens : RefreshToken(o, t) \/ Gateway(o, t)
             \/ \E a, r : Logout(o, a, r)
      BY <3>2 DEF SessionNext
    <3>4. o = p
      BY <3>1, <3>3 DEF Admit, RefreshRefused, RefreshIssue, AddWithTTL, AddFails, AfterSet,
            RefreshToken, Gateway, Pass, Logout
    <3>5. ~ \E a, r : Logout(p, a, r)
      BY <3>1 DEF Logout, At
    <3> QED
      BY <3>3, <3>4, <3>5 DEF Admit, RefreshRefused, RefreshIssue, AddWithTTL, AddFails,
            RefreshToken, Gateway
  <2>2. PICK t \in Tokens, pc \in {"find", "admit"} : Pass(p, t, pc)
    BY <2>1
  <2>3. call'[p].t = t
    BY <2>2 DEF Pass, At, SessionInv, SessionTypeOK
  <2>4. CASE ~Listed(t)
    <3>1. now \in Nat /\ black[t] \in Nat /\ exp[t] \in Nat /\ Second \in Nat
      BY SessionAssumption DEF SessionInv, SessionTypeOK
    <3>2. Covers(black[t], t) /\ now >= black[t]
      BY <2>3, <2>4, <3>1 DEF SessionInv, Revoked, Listed
    <3> QED
      BY <2>3, <3>1, <3>2 DEF Covers
  <2>5. CASE QueryFails
    BY <2>5 DEF QueryFails, SessionInv, SessionTypeOK
  <2> QED
    BY <2>2, <2>4, <2>5 DEF Pass
<1> QED
  BY <1>1, SessionInductive, PTL DEF SessionSpec, RevokedIsRefused
=============================================================================
