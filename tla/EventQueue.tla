----------------------------- MODULE EventQueue -----------------------------
(***************************************************************************)
(* The event queue of one run: the per-thread batches that the             *)
(* sys.monitoring callbacks fill (crates/core/src/evqueue.rs, tls.rs), the *)
(* bounded ring that carries full batches from each thread, and the drain  *)
(* that the single consumer thread performs under the consumers lock.      *)
(*                                                                         *)
(* A ring is an rtrb single-producer single-consumer queue.  An event is   *)
(* the number of the push that recorded it, counted per thread; its        *)
(* payload and its timestamp tell no property of this module apart.  A     *)
(* thread's push and another thread's flush of the same batch exclude each *)
(* other here, as the GIL makes them; the tails a recorder reads without   *)
(* the GIL are not part of this module.                                    *)
(***************************************************************************)
EXTENDS Integers, Sequences, FiniteSets

CONSTANTS Threads,          \* the traced threads
          Exiting,          \* those of them that may exit during the run
          BatchN,           \* events a batch holds
          BatchesCapacity,  \* batches a thread's ring holds
          MaxEvents,        \* bound: events a thread records
          Turns             \* bound: next_consumer is kept modulo Turns

ASSUME ThreadsAssumption == IsFiniteSet(Threads) /\ Exiting \subseteq Threads
ASSUME SizesAssumption == BatchN \in Nat \ {0} /\ BatchesCapacity \in Nat \ {0}
ASSUME EventsAssumption == MaxEvents \in Nat
\* Counting modulo Turns leaves next_consumer % n as it is, for every n.
ASSUME TurnsAssumption ==
    Turns \in Nat \ {0} /\ \A n \in 1..Cardinality(Threads) : Turns % n = 0

VARIABLES
    monitoring,    \* the callbacks are installed
    callback,      \* callback[t]: where thread t's callback stands
    attached,      \* attached[t]: Cold.producer belongs to this queue
    batch,         \* batch[t]: the committed and uncommitted events of Cold.batch
    recorded,      \* recorded[t]: how many events t has pushed
    life,          \* life[t]: where the destruction of t's locals stands
    recorders,     \* RECORDERS: the threads a flush and a tail read reach
    consumers,     \* Shared.consumers, as the threads at the other end
    nextConsumer,  \* Shared.next_consumer
    rings,         \* rings[t]: the batches in t's ring
    dropped,       \* Shared.dropped
    closed,        \* Shared.closed
    drain,         \* the drain_batches call in progress
    hand,          \* the batches that call has put in its out vector
    flush,         \* the flush_every_thread call in progress
    lost,          \* history: events lost to a full ring
    uncharged      \* history: those of them nobody added to dropped

producerVars == <<callback, attached, batch, recorded, life, recorders>>
queueVars == <<monitoring, producerVars, consumers, nextConsumer, rings, dropped,
               closed, drain, hand, flush, lost, uncharged>>

Batches == [tid : Threads, events : Seq(1..MaxEvents)]
Events == Threads \X (1..MaxEvents)
EventsOf(b) == {b.tid} \X {b.events[i] : i \in DOMAIN b.events}

QueueInit ==
    /\ monitoring = TRUE
    /\ callback = [t \in Threads |-> "idle"]
    /\ attached = [t \in Threads |-> FALSE]
    /\ batch = [t \in Threads |-> <<>>]
    /\ recorded = [t \in Threads |-> 0]
    /\ life = [t \in Threads |-> "alive"]
    /\ recorders = {}
    /\ consumers = <<>>
    /\ nextConsumer = 0
    /\ rings = [t \in Threads |-> <<>>]
    /\ dropped = 0
    /\ closed = FALSE
    /\ drain = [on |-> FALSE, start |-> 0, i |-> 0, limit |-> 0]
    /\ hand = <<>>
    /\ flush = [on |-> FALSE, left |-> {}, lost |-> 0]
    /\ lost = {}
    /\ uncharged = {}

---------------------------------------------------------------------------
(* Recording an event.  A callback that is already running when monitoring *)
(* is switched off still pushes its event.                                 *)

EnterCallback(t) ==
    /\ monitoring /\ life[t] = "alive" /\ callback[t] = "idle"
    /\ recorded[t] < MaxEvents
    /\ callback' = [callback EXCEPT ![t] = "entered"]
    /\ UNCHANGED <<monitoring, attached, batch, recorded, life, recorders, consumers,
                   nextConsumer, rings, dropped, closed, drain, hand, flush, lost, uncharged>>

\* The event goes into the slot under the cursor, which moves past it.
WriteSlot(t, before) ==
    /\ batch' = [batch EXCEPT ![t] = Append(before, recorded[t] + 1)]
    /\ recorded' = [recorded EXCEPT ![t] = @ + 1]
    /\ callback' = [callback EXCEPT ![t] = "idle"]

\* Mutant: cursor <= end.
PushPastTheEnd(t) ==
    /\ callback[t] = "entered" /\ attached[t] /\ Len(batch[t]) <= BatchN
    /\ WriteSlot(t, batch[t])
    /\ UNCHANGED <<monitoring, attached, life, recorders, consumers, nextConsumer, rings,
                   dropped, closed, drain, hand, flush, lost, uncharged>>

PushFast(t) ==
    /\ callback[t] = "entered" /\ attached[t] /\ Len(batch[t]) < BatchN
    /\ WriteSlot(t, batch[t])
    /\ UNCHANGED <<monitoring, attached, life, recorders, consumers, nextConsumer, rings,
                   dropped, closed, drain, hand, flush, lost, uncharged>>

\* init_producer up to its push on the consumers, which waits for a drain.
InitProducer(t) ==
    /\ callback[t] = "entered" /\ ~attached[t] /\ ~drain.on
    /\ consumers' = Append(consumers, t)
    /\ attached' = [attached EXCEPT ![t] = TRUE]
    /\ callback' = [callback EXCEPT ![t] = "registering"]
    /\ UNCHANGED <<monitoring, batch, recorded, life, recorders, nextConsumer, rings,
                   dropped, closed, drain, hand, flush, lost, uncharged>>

\* register_current, which waits for a flush, then arm and the first event.
RegisterCurrent(t) ==
    /\ callback[t] = "registering" /\ ~flush.on
    /\ recorders' = recorders \cup {t}
    /\ WriteSlot(t, <<>>)
    /\ UNCHANGED <<monitoring, attached, life, consumers, nextConsumer, rings, dropped,
                   closed, drain, hand, flush, lost, uncharged>>

RingHasRoom(t) == Len(rings[t]) < BatchesCapacity

\* prod.push(batch): the ring gains the batch, or the events are lost.
Ship(t) ==
    LET full == [tid |-> t, events |-> batch[t]]
    IN  /\ rings' = IF RingHasRoom(t) THEN [rings EXCEPT ![t] = Append(@, full)] ELSE rings
        /\ lost' = IF RingHasRoom(t) THEN lost ELSE lost \cup EventsOf(full)

Rejected(t) == IF RingHasRoom(t) THEN 0 ELSE Len(batch[t])

\* The batch is full, or the event is too far from its base for a 32-bit
\* delta: ticks are abstract, so a batch of any length may meet the latter.
ShipAndRenew(t) ==
    /\ callback[t] = "entered" /\ attached[t]
    /\ Ship(t)
    /\ dropped' = dropped + Rejected(t)
    /\ WriteSlot(t, <<>>)
    /\ UNCHANGED <<monitoring, attached, life, recorders, consumers, nextConsumer, closed,
                   drain, hand, flush, uncharged>>

---------------------------------------------------------------------------
(* A thread that exits drops its Cold: it leaves RECORDERS, then flushes.   *)

Forget(t) ==
    /\ t \in Exiting /\ life[t] = "alive" /\ callback[t] = "idle" /\ ~flush.on
    /\ life' = [life EXCEPT ![t] = "forgotten"]
    /\ recorders' = recorders \ {t}
    /\ UNCHANGED <<monitoring, callback, attached, batch, recorded, consumers, nextConsumer,
                   rings, dropped, closed, drain, hand, flush, lost, uncharged>>

\* Mutant: the batch that was shipped stays armed.
FlushAndKeep(t) ==
    /\ batch' = batch
    /\ IF batch[t] = <<>> THEN UNCHANGED <<rings, lost>> ELSE Ship(t)

\* flush_partial: a batch with events is shipped, an empty one stays.
FlushPartial(t) ==
    /\ batch' = [batch EXCEPT ![t] = <<>>]
    /\ IF batch[t] = <<>> THEN UNCHANGED <<rings, lost>> ELSE Ship(t)

FlushAtExit(t) ==
    /\ life[t] = "forgotten"
    /\ life' = [life EXCEPT ![t] = "exited"]
    /\ FlushPartial(t)
    /\ uncharged' = uncharged \cup (lost' \ lost)
    /\ UNCHANGED <<monitoring, callback, attached, recorded, recorders, consumers,
                   nextConsumer, dropped, closed, drain, hand, flush>>

---------------------------------------------------------------------------
(* flush_every_thread, which holds RECORDERS from BeginFlush to EndFlush.   *)

BeginFlush ==
    /\ ~flush.on
    /\ flush' = [on |-> TRUE, left |-> recorders, lost |-> 0]
    /\ UNCHANGED <<monitoring, callback, attached, batch, recorded, life, recorders,
                   consumers, nextConsumer, rings, dropped, closed, drain, hand, lost, uncharged>>

\* Mutant: lost = .. where the code has lost += ..
FlushForgetsLosses(t) ==
    /\ flush.on /\ t \in flush.left
    /\ flush' = [flush EXCEPT !.left = @ \ {t}, !.lost = Rejected(t)]
    /\ FlushPartial(t)
    /\ UNCHANGED <<monitoring, callback, attached, recorded, life, recorders, consumers,
                   nextConsumer, dropped, closed, drain, hand, uncharged>>

FlushThread(t) ==
    /\ flush.on /\ t \in flush.left
    /\ flush' = [flush EXCEPT !.left = @ \ {t}, !.lost = @ + Rejected(t)]
    /\ FlushPartial(t)
    /\ UNCHANGED <<monitoring, callback, attached, recorded, life, recorders, consumers,
                   nextConsumer, dropped, closed, drain, hand, uncharged>>

\* The lock is released; what the call returns is still in flush.lost.
EndFlush ==
    /\ flush.on /\ flush.left = {}
    /\ flush' = [flush EXCEPT !.on = FALSE]
    /\ UNCHANGED <<monitoring, callback, attached, batch, recorded, life, recorders,
                   consumers, nextConsumer, rings, dropped, closed, drain, hand, lost, uncharged>>

RecordDropped ==
    /\ dropped' = dropped + flush.lost
    /\ flush' = [flush EXCEPT !.lost = 0]
    /\ UNCHANGED <<monitoring, callback, attached, batch, recorded, life, recorders,
                   consumers, nextConsumer, rings, closed, drain, hand, lost, uncharged>>

Close ==
    /\ closed' = TRUE
    /\ UNCHANGED <<monitoring, callback, attached, batch, recorded, life, recorders,
                   consumers, nextConsumer, rings, dropped, drain, hand, flush, lost, uncharged>>

---------------------------------------------------------------------------
(* drain_batches, which holds the consumers lock while drain.on.  It visits *)
(* every ring once, from one that moves with each call, and empties each    *)
(* until it has taken limit batches.                                        *)

BeginDrain(limit) ==
    /\ ~drain.on /\ consumers # <<>>
    /\ drain' = [on |-> TRUE, start |-> nextConsumer % Len(consumers), i |-> 0, limit |-> limit]
    /\ nextConsumer' = (nextConsumer + 1) % Turns
    /\ UNCHANGED <<monitoring, callback, attached, batch, recorded, life, recorders,
                   consumers, rings, dropped, closed, hand, flush, lost, uncharged>>

Visited == consumers[((drain.start + drain.i) % Len(consumers)) + 1]

\* Mutant: the limit is tested between pop and push.
DrainPopThenTest ==
    /\ drain.on /\ rings[Visited] # <<>>
    /\ hand' = IF Len(hand) + 1 < drain.limit THEN Append(hand, Head(rings[Visited])) ELSE hand
    /\ rings' = [rings EXCEPT ![Visited] = Tail(@)]
    /\ drain' = IF Len(hand) + 1 < drain.limit THEN drain ELSE [drain EXCEPT !.on = FALSE]
    /\ UNCHANGED <<monitoring, callback, attached, batch, recorded, life, recorders,
                   consumers, nextConsumer, dropped, closed, flush, lost, uncharged>>

DrainPop ==
    /\ drain.on /\ rings[Visited] # <<>>
    /\ hand' = Append(hand, Head(rings[Visited]))
    /\ rings' = [rings EXCEPT ![Visited] = Tail(@)]
    /\ drain' = IF Len(hand) + 1 < drain.limit THEN drain ELSE [drain EXCEPT !.on = FALSE]
    /\ UNCHANGED <<monitoring, callback, attached, batch, recorded, life, recorders,
                   consumers, nextConsumer, dropped, closed, flush, lost, uncharged>>

DrainNext ==
    /\ drain.on /\ rings[Visited] = <<>>
    /\ drain' = IF drain.i + 1 < Len(consumers) THEN [drain EXCEPT !.i = @ + 1]
                                                ELSE [drain EXCEPT !.on = FALSE]
    /\ UNCHANGED <<monitoring, callback, attached, batch, recorded, life, recorders,
                   consumers, nextConsumer, rings, dropped, closed, hand, flush, lost, uncharged>>

---------------------------------------------------------------------------
(* What a traced thread may do at any moment.                               *)

ThreadStep(t) ==
    \/ EnterCallback(t)
    \/ PushFast(t)
    \/ InitProducer(t)
    \/ RegisterCurrent(t)
    \/ ShipAndRenew(t)
    \/ Forget(t)
    \/ FlushAtExit(t)

=============================================================================
