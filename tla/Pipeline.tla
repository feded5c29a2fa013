------------------------------ MODULE Pipeline ------------------------------
(***************************************************************************)
(* The streaming exporter (crates/core/src/pipeline.rs) on the event queue *)
(* of one run, ended by Tracer::end (crates/py/src/tracer.rs): a           *)
(* serializer thread drains the producers' rings into a bounded fan-in,    *)
(* the writer thread carries the fan-in to the exporter, and the thread    *)
(* that ends the run switches monitoring off, flushes every thread, closes *)
(* the queue and joins the writer.                                         *)
(***************************************************************************)
EXTENDS EventQueue

CONSTANTS FaninBatches,     \* FANIN_BATCHES: batches the fan-in holds
          MayFail           \* the exporter's writes may fail

ASSUME FaninAssumption == FaninBatches \in Nat \ {0} /\ MayFail \in BOOLEAN

VARIABLES
    serializer,    \* where the serializer thread stands
    fanin,         \* the batches between full_tx and full_rx
    writer,        \* where the writer (run_pipeline's own thread) stands
    ring,          \* the batches the writer has popped and not written
    exported,      \* history: the batches write_batch has taken, in order
    reported,      \* the dropped count handed to finish, -1 before
    ending,        \* where Tracer::end stands
    cut            \* history: what each thread had recorded when the flush began

vars == <<queueVars, serializer, fanin, writer, ring, exported, reported, ending, cut>>

Init ==
    /\ QueueInit
    /\ serializer = "top"
    /\ fanin = <<>>
    /\ writer = "pop"
    /\ ring = <<>>
    /\ exported = <<>>
    /\ reported = -1
    /\ ending = "running"
    /\ cut = [t \in Threads |-> 0]

\* A thread's step leaves the two exporter threads and the ender alone.
Thread(t) ==
    /\ ThreadStep(t)
    /\ UNCHANGED <<serializer, fanin, writer, ring, exported, reported, ending, cut>>

---------------------------------------------------------------------------
(* The serializer's loop.  Waiting (backoff) is a step that is not taken.   *)

Slots == FaninBatches - Len(fanin)

\* Mutant: nobody asks whether full_rx is gone.
NeverAbandoned == FALSE

\* full_rx is gone: the writer returned early.
Abandoned == writer = "failed"

Leave ==
    /\ serializer = "top" /\ Abandoned
    /\ serializer' = "done"
    /\ UNCHANGED <<queueVars, fanin, writer, ring, exported, reported, ending, cut>>

\* Mutant: the drain is not limited to the open slots.
StartUnlimitedDrain ==
    /\ serializer = "top" /\ ~Abandoned /\ Slots > 0 /\ consumers # <<>>
    /\ BeginDrain(FaninBatches)
    /\ serializer' = "drain"
    /\ UNCHANGED <<fanin, writer, ring, exported, reported, ending, cut>>

StartDrain ==
    /\ serializer = "top" /\ ~Abandoned /\ Slots > 0 /\ consumers # <<>>
    /\ BeginDrain(Slots)
    /\ serializer' = "drain"
    /\ UNCHANGED <<fanin, writer, ring, exported, reported, ending, cut>>

\* Mutant: a queue without consumers is not asked whether it is closed.
NothingToDrainYet ==
    /\ serializer = "top" /\ ~Abandoned /\ Slots > 0 /\ consumers = <<>>
    /\ UNCHANGED <<queueVars, serializer, fanin, writer, ring, exported, reported, ending, cut>>

\* drain_batches returns 0 at once when no thread has recorded yet.
NothingToDrain ==
    /\ serializer = "top" /\ ~Abandoned /\ Slots > 0 /\ consumers = <<>>
    /\ serializer' = "check"
    /\ UNCHANGED <<queueVars, fanin, writer, ring, exported, reported, ending, cut>>

DrainStep ==
    /\ serializer = "drain"
    /\ DrainPop \/ DrainNext
    /\ UNCHANGED <<serializer, fanin, writer, ring, exported, reported, ending, cut>>

Drained ==
    /\ serializer = "drain" /\ ~drain.on
    /\ serializer' = IF hand = <<>> THEN "check" ELSE "push"
    /\ UNCHANGED <<queueVars, fanin, writer, ring, exported, reported, ending, cut>>

\* is_closed, read after the drain came back with nothing.
CheckClosed ==
    /\ serializer = "check"
    /\ serializer' = IF closed THEN "done" ELSE "top"
    /\ UNCHANGED <<queueVars, fanin, writer, ring, exported, reported, ending, cut>>

\* full_tx.push: it has no wait and no error path, only an expect.
PushFanin ==
    /\ serializer = "push"
    /\ fanin' = Append(fanin, Head(hand))
    /\ hand' = Tail(hand)
    /\ serializer' = IF Tail(hand) = <<>> THEN "top" ELSE "push"
    /\ UNCHANGED <<monitoring, callback, attached, batch, recorded, life, recorders,
                   consumers, nextConsumer, rings, dropped, closed, drain, flush, lost,
                   uncharged, writer, ring, exported, reported, ending, cut>>

Serializer ==
    \/ Leave \/ StartDrain \/ NothingToDrain \/ DrainStep \/ Drained
    \/ CheckClosed \/ PushFanin

---------------------------------------------------------------------------
(* The writer's loop and its last lap.                                      *)

PopFanin ==
    /\ writer \in {"pop", "lastpop"} /\ fanin # <<>>
    /\ ring' = Append(ring, Head(fanin))
    /\ fanin' = Tail(fanin)
    /\ writer' = IF writer = "pop" THEN "write" ELSE "lastpop"
    /\ UNCHANGED <<queueVars, serializer, exported, reported, ending, cut>>

WriteBatch ==
    /\ writer \in {"write", "lastwrite"} /\ ring # <<>>
    /\ exported' = Append(exported, Head(ring))
    /\ ring' = Tail(ring)
    /\ UNCHANGED <<queueVars, serializer, fanin, writer, reported, ending, cut>>

\* write_batch returns an error: run_pipeline returns it, and full_rx, the
\* ring and the exporter are dropped with what they hold.
WriteFails ==
    /\ MayFail /\ writer \in {"write", "lastwrite"} /\ ring # <<>>
    /\ writer' = "failed"
    /\ UNCHANGED <<queueVars, serializer, fanin, ring, exported, reported, ending, cut>>

RingWritten ==
    /\ writer \in {"write", "lastwrite"} /\ ring = <<>>
    /\ writer' = IF writer = "write" THEN "pop" ELSE "finish"
    /\ UNCHANGED <<queueVars, serializer, fanin, ring, exported, reported, ending, cut>>

\* full_rx.pop() failed; serializer.is_finished() is asked afterwards.
FaninEmpty ==
    /\ writer = "pop" /\ fanin = <<>>
    /\ writer' = "asked"
    /\ UNCHANGED <<queueVars, serializer, fanin, ring, exported, reported, ending, cut>>

\* Mutant: no last lap over the fan-in.
IsFinishedAtOnce ==
    /\ writer = "asked"
    /\ writer' = IF serializer = "done" THEN "lastwrite" ELSE "pop"
    /\ UNCHANGED <<queueVars, serializer, fanin, ring, exported, reported, ending, cut>>

IsFinished ==
    /\ writer = "asked"
    /\ writer' = IF serializer = "done" THEN "lastpop" ELSE "pop"
    /\ UNCHANGED <<queueVars, serializer, fanin, ring, exported, reported, ending, cut>>

LastPopFails ==
    /\ writer = "lastpop" /\ fanin = <<>>
    /\ writer' = "lastwrite"
    /\ UNCHANGED <<queueVars, serializer, fanin, ring, exported, reported, ending, cut>>

\* Joins the serializer, then exporter.finish(.., inbound.dropped()), which may
\* return an error.
Finish ==
    /\ writer = "finish" /\ serializer = "done"
    /\ \/ writer' = "finished" /\ reported' = dropped
       \/ MayFail /\ writer' = "failed" /\ UNCHANGED reported
    /\ UNCHANGED <<queueVars, serializer, fanin, ring, exported, ending, cut>>

Writer ==
    \/ PopFanin \/ WriteBatch \/ WriteFails \/ RingWritten \/ FaninEmpty
    \/ IsFinished \/ LastPopFails \/ Finish

---------------------------------------------------------------------------
(* Tracer::end.                                                             *)

Disable ==
    /\ ending = "running"
    /\ monitoring' = FALSE
    /\ ending' = "disabled"
    /\ UNCHANGED <<callback, attached, batch, recorded, life, recorders, consumers,
                   nextConsumer, rings, dropped, closed, drain, hand, flush, lost, uncharged,
                   serializer, fanin, writer, ring, exported, reported, cut>>

StartFlush ==
    /\ ending = "disabled"
    /\ BeginFlush
    /\ ending' = "flushing"
    /\ cut' = recorded
    /\ UNCHANGED <<serializer, fanin, writer, ring, exported, reported>>

FlushOne(t) ==
    /\ ending = "flushing"
    /\ FlushThread(t)
    /\ UNCHANGED <<serializer, fanin, writer, ring, exported, reported, ending, cut>>

FlushReturns ==
    /\ ending = "flushing"
    /\ EndFlush
    /\ ending' = "flushed"
    /\ UNCHANGED <<serializer, fanin, writer, ring, exported, reported, cut>>

ChargeFlush ==
    /\ ending = "flushed"
    /\ RecordDropped
    /\ ending' = "charged"
    /\ UNCHANGED <<serializer, fanin, writer, ring, exported, reported, cut>>

CloseQueue ==
    /\ ending = "charged"
    /\ Close
    /\ ending' = "joining"
    /\ UNCHANGED <<serializer, fanin, writer, ring, exported, reported, cut>>

\* exporter.join(): run_pipeline has returned, with Ok or with an error.
Join ==
    /\ ending = "joining" /\ writer \in {"finished", "failed"}
    /\ ending' = "ended"
    /\ UNCHANGED <<queueVars, serializer, fanin, writer, ring, exported, reported, cut>>

Ender ==
    \/ Disable \/ StartFlush \/ (\E t \in Threads : FlushOne(t)) \/ FlushReturns
    \/ ChargeFlush \/ CloseQueue \/ Join

---------------------------------------------------------------------------

\* The run is over and no thread records for it any more.
Terminated == ending = "ended" /\ UNCHANGED vars

Next == (\E t \in Threads : Thread(t)) \/ Serializer \/ Writer \/ Ender \/ Terminated

Spec == Init /\ [][Next]_vars

\* The exporter's two threads are never blocked for good by the scheduler,
\* and a call of Tracer::end runs to its end once it has begun.
FairSpec ==
    /\ Spec
    /\ WF_vars(Serializer)
    /\ WF_vars(PopFanin \/ WriteBatch \/ RingWritten \/ FaninEmpty \/ IsFinished
                 \/ LastPopFails \/ Finish)
    /\ WF_vars(ending # "running" /\ Ender)

---------------------------------------------------------------------------
(* What holds of every behaviour.                                           *)

ThreadTypes ==
    /\ monitoring \in BOOLEAN
    /\ callback \in [Threads -> {"idle", "entered", "registering"}]
    /\ attached \in [Threads -> BOOLEAN]
    /\ batch \in [Threads -> Seq(1..MaxEvents)]
    /\ \A t \in Threads : Len(batch[t]) <= BatchN
    /\ recorded \in [Threads -> 0..MaxEvents]
    /\ life \in [Threads -> {"alive", "forgotten", "exited"}]
    /\ recorders \in SUBSET Threads

DrainCalls == [on : BOOLEAN, start : Nat, i : Nat, limit : 0..FaninBatches]
FlushCalls == [on : BOOLEAN, left : SUBSET Threads, lost : Nat]

QueueTypes ==
    /\ consumers \in Seq(Threads)
    /\ nextConsumer \in 0..(Turns - 1)
    /\ rings \in [Threads -> Seq(Batches)]
    /\ \A t \in Threads : Len(rings[t]) <= BatchesCapacity
    /\ dropped \in Nat
    /\ closed \in BOOLEAN
    /\ drain \in DrainCalls
    /\ hand \in Seq(Batches)
    /\ flush \in FlushCalls
    /\ lost \in SUBSET Events
    /\ uncharged \in SUBSET Events

ExporterTypes ==
    /\ serializer \in {"top", "drain", "check", "push", "done"}
    /\ fanin \in Seq(Batches)
    /\ writer \in {"pop", "write", "asked", "lastpop", "lastwrite", "finish",
                   "finished", "failed"}
    /\ ring \in Seq(Batches)
    /\ exported \in Seq(Batches)
    /\ reported \in Nat \cup {-1}
    /\ ending \in {"running", "disabled", "flushing", "flushed", "charged",
                   "joining", "ended"}
    /\ cut \in [Threads -> 0..MaxEvents]

\* The types of all the variables; no write leaves the batch it is armed for
\* (write_slot has no check of its own), and no ring holds more than its capacity.
TypeOK == ThreadTypes /\ QueueTypes /\ ExporterTypes

\* What stands in the way of the serializer's expect: a drain works for the
\* slots it was given, and slots only open while it does.
DrainFits ==
    /\ drain.on => /\ serializer = "drain" /\ consumers # <<>>
                   /\ Len(hand) < drain.limit /\ drain.limit <= Slots
    /\ serializer \in {"drain", "push"} => Len(hand) <= Slots
    /\ serializer \in {"top", "check", "done"} => hand = <<>>
    /\ serializer = "push" => hand # <<>>

\* A callback that is to push has an event number left.
CallbacksFit == \A t \in Threads : callback[t] # "idle" => recorded[t] < MaxEvents

\* Everything the consumer's side has taken out of the rings, oldest first:
\* its parts only hand batches on from right to left.
Shipped == exported \o ring \o fanin \o hand

EventsIn(s) == UNION {EventsOf(s[i]) : i \in DOMAIN s}

\* Every event a thread has pushed is somewhere: shipped, in its ring, in its
\* batch, or among the losses.  A flush, an exit, a full ring, a drain cut
\* short by its limit, the last lap of the writer: none makes one disappear.
NothingVanishes ==
    \A t \in Threads : \A e \in 1..recorded[t] :
        \/ <<t, e>> \in EventsIn(Shipped) \cup EventsIn(rings[t]) \cup lost
        \/ \E i \in DOMAIN batch[t] : batch[t][i] = e

Sorted(s) == \A i, j \in DOMAIN s : i < j => s[i] < s[j]
Below(a, b) == \A i \in DOMAIN a, j \in DOMAIN b : a[i] < b[j]
UpTo(s, n) == \A i \in DOMAIN s : s[i] <= n

\* A thread t that has pushed n events, with shipped batches (of all threads),
\* the batches r in its ring and the events b in its batch.
Chronological(t, shipped, r, b, n) ==
    /\ \A i \in DOMAIN shipped : shipped[i].tid = t =>
        /\ Sorted(shipped[i].events) /\ UpTo(shipped[i].events, n)
        /\ \A j \in DOMAIN shipped :
            i < j /\ shipped[j].tid = t => Below(shipped[i].events, shipped[j].events)
        /\ \A j \in DOMAIN r : Below(shipped[i].events, r[j].events)
        /\ Below(shipped[i].events, b)
    /\ \A i \in DOMAIN r :
        /\ r[i].tid = t
        /\ Sorted(r[i].events) /\ UpTo(r[i].events, n)
        /\ \A j \in DOMAIN r : i < j => Below(r[i].events, r[j].events)
        /\ Below(r[i].events, b)
    /\ Sorted(b) /\ UpTo(b, n)

\* Along the whole path, from the first batch exported to the batch being
\* filled, the events of a thread stand in the order it recorded them and none
\* stands twice, whatever flushes its batch and whoever drains its ring.
InOrder == \A t \in Threads : Chronological(t, Shipped, rings[t], batch[t], recorded[t])

\* An event is charged exactly once: what dropped holds, with what a flush
\* has yet to add to it, is the number of events lost, less those of threads
\* that exited.  Two threads never charge the same batch.
DroppedIsExact == dropped + flush.lost = Cardinality(lost \ uncharged)

\* What a drain brings back fits in the fan-in, so that the serializer's
\* expect("sized to the open slots") never fires: only the serializer pushes,
\* and the slots it counted before the drain can only have become more.
FaninHasRoom == serializer = "push" => Len(fanin) + Len(hand) <= FaninBatches

\* A batch taken out of a ring is written before the file is finished, even
\* one the serializer pushes between the writer's failed pop and its question
\* whether the serializer is finished.
TakenIsWritten == writer \in {"finish", "finished"} => hand \o fanin \o ring = <<>>

\* A run whose end has begun comes to its end: Tracer::end joins an exporter
\* that returns, whether its writes fail or not and whatever the traced
\* threads still push meanwhile.
RunEnds == ending = "disabled" ~> ending = "ended"

\* An exporter that fails takes its serializer with it.
SerializerLeaves == writer = "failed" ~> serializer = "done"

\* test `events_pushed_while_the_exporter_runs_are_not_lost` (pipeline.rs:203):
\* what is recorded before the queue closes is exported or counted as dropped.
FinishedIsComplete ==
    writer = "finished" =>
        \A t \in Threads : (1..cut[t]) \subseteq
            {e \in 1..MaxEvents : <<t, e>> \in EventsIn(exported) \cup lost}
=============================================================================
