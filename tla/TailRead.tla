------------------------------ MODULE TailRead ------------------------------
(***************************************************************************)
(* One traced thread's Hot words and batch buffers, word by word           *)
(* (crates/core/src/tls.rs, the push of evqueue.rs), as three parties use  *)
(* them: the thread itself (the owner), the thread that ends a run and     *)
(* flushes everybody (the ender), and the recorder of the run, which reads *)
(* the tail of the batch without taking part in any lock of the owner.     *)
(*                                                                         *)
(* Buffer b holds the addresses Start(b) .. End(b) - 1, so that a cursor   *)
(* of one buffer can be measured against the end of another.  Steps        *)
(* interleave sequentially, but the relaxed stores of arm, between its two *)
(* stores of the epoch, happen in any order.  A tick is the number of the  *)
(* push that read it: how far it is from its batch's base, and whether     *)
(* that fits a delta, is left open.  A push into a ring finds it full or   *)
(* not.                                                                    *)
(***************************************************************************)
EXTENDS Integers, Sequences

CONSTANTS BatchN,        \* events a batch holds
          Buffers,       \* bound: buffers the allocator can have out at once
          MaxTicks,      \* bound: events the thread records
          Runs,          \* bound: runs the process traces, one after another
          TailRetries,   \* TAIL_RETRIES
          Gil            \* callbacks and Tracer::end exclude each other

ASSUME SizesAssumption ==
    /\ BatchN \in Nat \ {0} /\ Buffers \in Nat \ {0} /\ TailRetries \in Nat \ {0}
    /\ MaxTicks \in Nat /\ Runs \in Nat \ {0} /\ Gil \in BOOLEAN

VARIABLES
    hot,         \* Hot: cursor, end, base, queue, epoch
    cold,        \* Cold: producer (a run, 0 for none), buf (0 for none) and its base
    live,        \* the buffers that are allocated
    mem,         \* mem[a]: the event in slot a
    registered,  \* the thread is in RECORDERS
    exiting,     \* the thread's locals are being dropped
    pc,          \* where the owner and the ender stand
    arming,      \* what their call of arm has yet to store, and with which batch
    held,        \* the batch they have taken and not pushed
    call,        \* the callback: its run and tick, and the cursor and delta it uses
    reader,      \* the recorder's read_tail; history: had, what the batch alone held when
                 \* it began; orphaned, whether the batch that Hot described when it read
                 \* queue_id had been freed
    run,         \* the run that is traced
    enabled,     \* its callbacks are installed
    ticks,       \* how many ticks have been read
    gone,        \* history: the ticks of the events pushed into a ring or counted lost
    ofRun,       \* history: the run of each tick's event
    armedFor     \* history: the run whose batch Hot has last been armed for, 0 once the
                 \* recorder has evicted that batch

vars == <<hot, cold, live, mem, registered, exiting, pc, arming, held, call, reader, run, enabled,
          ticks, gone, ofRun, armedFor>>

Actors == {"owner", "ender"}
Start(b) == b * BatchN
End(b) == Start(b) + BatchN
Slots == Start(1)..(End(Buffers) - 1)
NoBatch == [buf |-> 0, base |-> 0, len |-> 0]
Words == {"base", "cursor", "end"}

\* The ticks of the first len events of a buffer whose base is base.
TicksIn(b, base, len) == {base + mem[a].delta : a \in Start(b)..(Start(b) + len - 1)}

\* What another thread left in a slot.
Foreign == [delta |-> 0, code |-> 0]

NotReading == [pc |-> "idle", tries |-> 0, epoch |-> 0, cursor |-> 0, end |-> 0,
               base |-> 0, events |-> <<>>, had |-> {}, orphaned |-> FALSE]

Init ==
    /\ hot = [cursor |-> 0, end |-> 0, base |-> 0, queue |-> 0, epoch |-> 0]
    /\ cold = [producer |-> 0, buf |-> 0, base |-> 0]
    /\ live = {}
    /\ mem = [a \in Slots |-> Foreign]
    /\ registered = FALSE
    /\ exiting = FALSE
    /\ pc = [owner |-> "idle", ender |-> "off"]
    /\ arming = [p \in Actors |-> {}]
    /\ held = [p \in Actors |-> NoBatch]
    /\ call = [run |-> 0, tick |-> 0, at |-> 0, delta |-> 0]
    /\ reader = NotReading
    /\ run = 1
    /\ enabled = TRUE
    /\ ticks = 0
    /\ gone = {}
    /\ ofRun = [i \in 1..MaxTicks |-> 0]
    /\ armedFor = 0

Goto(p, to) == pc' = [pc EXCEPT ![p] = to]

\* What the GIL keeps apart.  A callback may let go of it between its entry and
\* its push; a thread that exits does not hold it.
Pushing == pc.owner \in {"fast", "written", "slow", "register", "init", "ship", "renew", "arm",
                        "slowwrite"} /\ ~exiting
Ending == pc.ender \in {"commit", "renew", "arm", "push"}
MayPush == Gil => ~Ending
MayEnd == Gil => ~Pushing

\* Nobody holds the RECORDERS lock.
RecordersFree == reader.pc = "idle" /\ ~Ending

---------------------------------------------------------------------------
(* arm.                                                                     *)

\* The epoch becomes odd.
ArmBegins(epoch) == hot' = [hot EXCEPT !.epoch = epoch + 1]

\* Mutant: the cursor stays where it was.
ArmStoreNoCursor(p) ==
    \E w \in arming[p] :
        /\ arming' = [arming EXCEPT ![p] = @ \ {w}]
        /\ hot' = CASE w = "base"   -> [hot EXCEPT !.base = cold.base]
                    [] w = "cursor" -> hot
                    [] w = "end"    -> [hot EXCEPT !.end = End(cold.buf)]

ArmStore(p) ==
    \E w \in arming[p] :
        /\ arming' = [arming EXCEPT ![p] = @ \ {w}]
        /\ hot' = CASE w = "base"   -> [hot EXCEPT !.base = cold.base]
                    [] w = "cursor" -> [hot EXCEPT !.cursor = Start(cold.buf)]
                    [] w = "end"    -> [hot EXCEPT !.end = End(cold.buf)]

\* Every word is stored; the epoch becomes even again.
ArmEnds(p) ==
    /\ arming[p] = {}
    /\ hot' = [hot EXCEPT !.epoch = @ + 1]
    /\ UNCHANGED arming

---------------------------------------------------------------------------
(* The owner's push.                                                        *)

EnterCallback ==
    /\ pc.owner = "idle" /\ enabled /\ ticks < MaxTicks /\ MayPush
    /\ ticks' = ticks + 1
    /\ ofRun' = [ofRun EXCEPT ![ticks + 1] = run]
    /\ call' = [call EXCEPT !.run = run, !.tick = ticks + 1]
    /\ Goto("owner", "entered")
    /\ UNCHANGED <<hot, cold, live, mem, registered, exiting, arming, held, reader, run, enabled, gone,
                   armedFor>>

\* Mutant: cursor <= end.
LookPastTheEnd ==
    /\ pc.owner = "entered" /\ MayPush
    /\ \/ /\ hot.cursor <= hot.end /\ hot.queue = call.run
          /\ call' = [call EXCEPT !.at = hot.cursor, !.delta = call.tick - hot.base]
          /\ Goto("owner", "fast")
       \/ Goto("owner", "slow") /\ UNCHANGED call
    /\ UNCHANGED <<hot, cold, live, mem, registered, exiting, arming, held, reader, run,
                   enabled, ticks, gone, ofRun, armedFor>>

\* push_with_ctx looks at base, cursor, end and queue_id.  A delta that is over
\* DELTA_OVERFLOW takes the slow path with room left in the batch.
Look ==
    /\ pc.owner = "entered" /\ MayPush
    /\ \/ /\ hot.cursor < hot.end /\ hot.queue = call.run
          /\ call' = [call EXCEPT !.at = hot.cursor, !.delta = call.tick - hot.base]
          /\ Goto("owner", "fast")
       \/ Goto("owner", "slow") /\ UNCHANGED call
    /\ UNCHANGED <<hot, cold, live, mem, registered, exiting, arming, held, reader, run, enabled,
                   ticks, gone, ofRun, armedFor>>

WriteSlot ==
    /\ pc.owner = "fast"
    /\ mem' = [mem EXCEPT ![call.at] = [delta |-> call.delta, code |-> call.tick]]
    /\ Goto("owner", "written")
    /\ UNCHANGED <<hot, cold, live, registered, exiting, arming, held, call, reader, run, enabled,
                   ticks, gone, ofRun, armedFor>>

StoreCursor ==
    /\ pc.owner = "written"
    /\ hot' = [hot EXCEPT !.cursor = call.at + 1]
    /\ Goto("owner", "idle")
    /\ UNCHANGED <<cold, live, mem, registered, exiting, arming, held, call, reader, run, enabled,
                   ticks, gone, ofRun, armedFor>>

\* slow_path: init_producer.  The batch of an earlier run is dropped.
InitProducer ==
    /\ pc.owner = "slow" /\ cold.producer # call.run
    /\ \E b \in 1..Buffers \ live :
        /\ live' = (live \ {cold.buf}) \cup {b}
        /\ cold' = [producer |-> call.run, buf |-> b, base |-> call.tick]
    /\ Goto("owner", "register")
    /\ UNCHANGED <<hot, mem, registered, exiting, arming, held, call, reader, run, enabled,
                   ticks, gone, ofRun, armedFor>>

\* register_current takes RECORDERS, for a thread that is in it as well.
RegisterCurrent ==
    /\ pc.owner = "register" /\ RecordersFree
    /\ registered' = TRUE
    /\ Goto("owner", "init")
    /\ UNCHANGED <<hot, cold, live, mem, exiting, arming, held, call, reader, run, enabled,
                   ticks, gone, ofRun, armedFor>>

StoreQueueId ==
    /\ pc.owner = "init"
    /\ hot' = [hot EXCEPT !.queue = call.run]
    /\ Goto("owner", "renew")
    /\ UNCHANGED <<cold, live, mem, registered, exiting, arming, held, call, reader, run, enabled,
                   ticks, gone, ofRun, armedFor>>

CommitAndTake ==
    /\ pc.owner = "slow" /\ cold.producer = call.run
    /\ Goto("owner", "ship")
    /\ held' = [held EXCEPT !.owner = [buf |-> cold.buf, base |-> cold.base,
                                       len |-> hot.cursor - Start(cold.buf)]]
    /\ UNCHANGED <<hot, cold, live, mem, registered, exiting, arming, call, reader, run, enabled,
                   ticks, gone, ofRun, armedFor>>

Pushed(b) == gone' = gone \cup TicksIn(b.buf, b.base, b.len)

\* Mutant: a batch that comes back is dropped, and a new one allocated.
ShipAndDrop ==
    /\ pc.owner = "ship"
    /\ Pushed(held.owner)
    /\ \E b \in 1..Buffers \ live, full \in BOOLEAN :
        /\ live' = (live \ {IF full THEN cold.buf ELSE 0}) \cup {b}
        /\ cold' = [cold EXCEPT !.buf = b, !.base = call.tick]
    /\ Goto("owner", "renew")
    /\ held' = [held EXCEPT !.owner = NoBatch]
    /\ UNCHANGED <<hot, mem, registered, exiting, arming, call, reader, run, enabled, ticks,
                   ofRun, armedFor>>

\* ship_and_renew pushes the batch and has a new one, or the one that came back.
Ship ==
    /\ pc.owner = "ship"
    /\ Pushed(held.owner)
    /\ \E b \in (1..Buffers \ live) \cup {cold.buf} :
        /\ live' = live \cup {b}
        /\ cold' = [cold EXCEPT !.buf = b, !.base = call.tick]
    /\ Goto("owner", "renew")
    /\ held' = [held EXCEPT !.owner = NoBatch]
    /\ UNCHANGED <<hot, mem, registered, exiting, arming, call, reader, run, enabled, ticks,
                   ofRun, armedFor>>


\* The owner's arm and the ender's.
Arm(p) ==
    \/ /\ pc[p] = "renew"
       /\ ArmBegins(hot.epoch)
       /\ arming' = [arming EXCEPT ![p] = Words]
       /\ Goto(p, "arm")
       /\ UNCHANGED armedFor
    \/ /\ pc[p] = "arm"
       /\ ArmStore(p)
       /\ UNCHANGED <<pc, armedFor>>
    \/ /\ pc[p] = "arm"
       /\ ArmEnds(p)
       /\ armedFor' = cold.producer
       /\ Goto(p, IF p = "owner" /\ ~exiting THEN "slowwrite" ELSE "push")

ArmOf(p) ==
    /\ Arm(p)
    /\ UNCHANGED <<cold, live, mem, registered, exiting, held, call, reader, run, enabled, ticks,
                   gone, ofRun>>

\* The end of slow_path: the event goes into the new batch with delta 0.
SlowWrite ==
    /\ pc.owner = "slowwrite"
    /\ mem' = [mem EXCEPT ![hot.cursor] = [delta |-> 0, code |-> call.tick]]
    /\ call' = [call EXCEPT !.at = hot.cursor]
    /\ Goto("owner", "written")
    /\ UNCHANGED <<hot, cold, live, registered, exiting, arming, held, reader, run, enabled, ticks,
                   gone, ofRun, armedFor>>

---------------------------------------------------------------------------
(* flush_partial: by the ender, or by the owner when its locals are dropped. *)

FlushCommit(p) ==
    /\ pc[p] = "commit"
    /\ LET len == hot.cursor - Start(cold.buf)
       IN  IF len = 0
           THEN UNCHANGED <<held, live, cold>>
           ELSE /\ held' = [held EXCEPT ![p] = [buf |-> cold.buf, base |-> cold.base, len |-> len]]
                /\ \E b \in 1..Buffers \ live :
                    live' = live \cup {b} /\ cold' = [cold EXCEPT !.buf = b]
    /\ Goto(p, "renew")
    /\ UNCHANGED <<hot, mem, registered, exiting, arming, call, reader, run, enabled, ticks, gone, ofRun, armedFor>>

\* The ring takes the batch or it is freed.  A thread that exits drops Cold's fields next.
FlushPush(p) ==
    /\ pc[p] = "push"
    /\ Pushed(held[p])
    /\ \E freed \in {{}, {held[p].buf}} :
        live' = live \ (freed \cup (IF p = "owner" THEN {cold.buf} ELSE {}))
    /\ held' = [held EXCEPT ![p] = NoBatch]
    /\ Goto(p, IF p = "owner" THEN "exited" ELSE "flushed")
    /\ UNCHANGED <<hot, cold, mem, registered, exiting, arming, call, reader, run, enabled, ticks,
                   ofRun, armedFor>>

\* forget takes RECORDERS; a thread that never pushed has nothing to flush.
Exit ==
    /\ pc.owner = "idle" /\ RecordersFree
    /\ registered' = FALSE
    /\ exiting' = TRUE
    /\ Goto("owner", IF cold.buf = 0 THEN "exited" ELSE "commit")
    /\ UNCHANGED <<hot, cold, live, mem, arming, held, call, reader, run, enabled, ticks,
                   gone, ofRun, armedFor>>

---------------------------------------------------------------------------
(* Tracer::end, and the next run.                                           *)

Disable ==
    /\ enabled /\ MayEnd
    /\ enabled' = FALSE
    /\ UNCHANGED <<hot, cold, live, mem, registered, exiting, pc, arming, held, call, reader, run,
                   ticks, gone, ofRun, armedFor>>

\* Mutant: the flush does not take RECORDERS.
BeginFlushUnlocked ==
    /\ ~enabled /\ pc.ender = "off" /\ MayEnd
    /\ Goto("ender", IF registered THEN "commit" ELSE "flushed")
    /\ UNCHANGED <<hot, cold, live, mem, registered, exiting, arming, held, call, reader, run,
                   enabled, ticks, gone, ofRun, armedFor>>

\* flush_every_thread takes RECORDERS, so that no read_tails is under way.
BeginFlush ==
    /\ ~enabled /\ pc.ender = "off" /\ MayEnd
    /\ reader.pc = "idle"
    /\ Goto("ender", IF registered THEN "commit" ELSE "flushed")
    /\ UNCHANGED <<hot, cold, live, mem, registered, exiting, arming, held, call, reader, run,
                   enabled, ticks, gone, ofRun, armedFor>>

\* The exporter is joined; another run may start.
NextRun ==
    /\ pc.ender = "flushed" /\ run < Runs /\ reader.pc = "idle"
    /\ run' = run + 1
    /\ enabled' = TRUE
    /\ Goto("ender", "off")
    /\ UNCHANGED <<hot, cold, live, mem, registered, exiting, arming, held, call, reader, ticks,
                   gone, ofRun, armedFor>>

\* The recorder evicts a batch it took out of the ring.  Hot may still describe
\* it: ship_and_renew pushes a batch before it arms the next.
Evict ==
    /\ reader.pc = "idle"
    /\ \E b \in live \ {cold.buf, held.owner.buf, held.ender.buf} :
        /\ live' = live \ {b}
        /\ armedFor' = IF hot.end = End(b) THEN 0 ELSE armedFor
    /\ UNCHANGED <<hot, cold, mem, registered, exiting, pc, arming, held, call, reader, run,
                   enabled, ticks, gone, ofRun>>

\* Another thread's batch is allocated where a freed one was, filled, and freed.
Overwrite ==
    /\ \E b \in 1..Buffers \ live :
        /\ mem[Start(b)] # Foreign
        /\ mem' = [a \in Slots |-> IF a \in Start(b)..(End(b) - 1) THEN Foreign ELSE mem[a]]
    /\ UNCHANGED <<hot, cold, live, registered, exiting, pc, arming, held, call, reader, run,
                   enabled, ticks, gone, ofRun, armedFor>>

---------------------------------------------------------------------------
(* read_tail, for this thread; the recorder holds RECORDERS throughout.     *)

ReaderStep(next) ==
    /\ reader' = next
    /\ UNCHANGED <<hot, cold, live, mem, registered, exiting, pc, arming, held, call, run,
                   enabled, ticks, gone, ofRun, armedFor>>

\* The events of the queue's own run that are in the batch and nowhere else.
Unshipped ==
    IF hot.queue # run \/ armedFor # run \/ hot.end = 0 \/ hot.epoch % 2 = 1 THEN {}
    ELSE {i \in {hot.base + mem[a].delta : a \in (hot.end - BatchN)..(hot.cursor - 1)} :
            i \notin gone /\ ofRun[i] = run}

BeginRead ==
    /\ RecordersFree /\ registered
    /\ ReaderStep([reader EXCEPT !.pc = "epoch", !.tries = TailRetries, !.had = Unshipped])

\* continue, as long as there is an attempt left.
Retry ==
    [reader EXCEPT !.tries = @ - 1, !.events = <<>>,
                   !.pc = IF reader.tries = 1 THEN "none" ELSE "epoch"]

LoadEpoch ==
    /\ reader.pc = "epoch"
    /\ ReaderStep(IF hot.epoch % 2 = 1 THEN Retry
                  ELSE [reader EXCEPT !.pc = "queue", !.epoch = hot.epoch])

LoadQueueId ==
    /\ reader.pc = "queue"
    /\ ReaderStep([reader EXCEPT !.pc = IF hot.queue = run THEN "cursor" ELSE "none",
                                !.orphaned = armedFor # run])

LoadCursor ==
    /\ reader.pc = "cursor"
    /\ ReaderStep([reader EXCEPT !.pc = "end", !.cursor = hot.cursor])

Length(end) == reader.cursor - (end - BatchN)

LoadEnd ==
    /\ reader.pc = "end"
    /\ ReaderStep(
         IF reader.cursor = 0 \/ hot.end = 0 THEN [reader EXCEPT !.pc = "none"]
         ELSE IF Length(hot.end) \in 1..BatchN THEN [reader EXCEPT !.pc = "base", !.end = hot.end]
         ELSE Retry)

LoadBase ==
    /\ reader.pc = "base"
    /\ ReaderStep([reader EXCEPT !.pc = "slots", !.base = hot.base])

NextSlot == reader.end - BatchN + Len(reader.events)

LoadSlot ==
    /\ reader.pc = "slots" /\ NextSlot < reader.cursor
    /\ ReaderStep([reader EXCEPT !.events = Append(@, mem[NextSlot])])

\* Mutant: the epoch is not read again.
TrustFirstEpoch ==
    /\ reader.pc = "slots" /\ NextSlot = reader.cursor
    /\ ReaderStep([reader EXCEPT !.pc = "tail"])

LoadEpochAgain ==
    /\ reader.pc = "slots" /\ NextSlot = reader.cursor
    /\ ReaderStep(IF hot.epoch = reader.epoch THEN [reader EXCEPT !.pc = "tail"] ELSE Retry)

\* read_tails returns: the tail, or none.
EndRead ==
    /\ reader.pc \in {"tail", "none"}
    /\ ReaderStep(NotReading)

Reader ==
    \/ BeginRead \/ LoadEpoch \/ LoadQueueId \/ LoadCursor \/ LoadEnd \/ LoadBase
    \/ LoadSlot \/ LoadEpochAgain \/ EndRead

---------------------------------------------------------------------------

Owner ==
    \/ EnterCallback \/ Look \/ WriteSlot \/ StoreCursor
    \/ InitProducer \/ RegisterCurrent \/ StoreQueueId \/ CommitAndTake \/ Ship \/ SlowWrite
    \/ Exit

Ender == Disable \/ BeginFlush \/ NextRun

Flush(p) == FlushCommit(p) \/ ArmOf(p) \/ FlushPush(p)

\* The thread is gone and there is no further run.
Terminated == pc.owner = "exited" /\ ~enabled /\ run = Runs /\ UNCHANGED vars

Next == Owner \/ Ender \/ (\E p \in Actors : Flush(p)) \/ Evict \/ Overwrite \/ Reader \/ Terminated

Spec == Init /\ [][Next]_vars

---------------------------------------------------------------------------
(* What holds.                                                              *)

Address == 0..End(Buffers)
Events == [delta : -MaxTicks..MaxTicks, code : 0..MaxTicks]

TypeOK ==
    /\ hot \in [cursor : Address, end : Address, base : 0..MaxTicks, queue : 0..Runs, epoch : Nat]
    /\ cold \in [producer : 0..Runs, buf : 0..Buffers, base : 0..MaxTicks]
    /\ live \in SUBSET (1..Buffers)
    /\ mem \in [Slots -> Events]
    /\ registered \in BOOLEAN /\ exiting \in BOOLEAN /\ enabled \in BOOLEAN
    /\ pc \in [owner : {"idle", "entered", "fast", "written", "slow", "register", "init", "ship",
                       "renew", "arm", "slowwrite", "commit", "push", "exited"},
              ender : {"off", "commit", "renew", "arm", "push", "flushed"}]
    /\ arming \in [Actors -> SUBSET Words]
    /\ held \in [Actors -> [buf : 0..Buffers, base : 0..MaxTicks, len : 0..BatchN]]
    /\ call \in [run : 0..Runs, tick : 0..MaxTicks, at : Address, delta : -MaxTicks..MaxTicks]
    /\ reader \in [pc : {"idle", "epoch", "queue", "cursor", "end", "base", "slots", "tail", "none"},
                  tries : 0..TailRetries, epoch : Nat, cursor : Address, end : Address,
                  base : 0..MaxTicks, events : Seq(Events), had : SUBSET (1..MaxTicks),
                  orphaned : BOOLEAN]
    /\ run \in 1..Runs
    /\ ticks \in 0..MaxTicks
    /\ gone \in SUBSET (1..MaxTicks)
    /\ ofRun \in [1..MaxTicks -> 0..Runs]
    /\ armedFor \in 0..Runs

\* The debug assertions of commit (tls.rs:59-66): whoever measures a batch finds
\* Hot armed for this batch and the cursor within it.
ArmedForItsBatch ==
    pc.owner = "commit" \/ pc.ender = "commit" \/ (pc.owner = "slow" /\ cold.producer = call.run) =>
        hot.end = End(cold.buf) /\ hot.cursor \in Start(cold.buf)..End(cold.buf)

Decoded(i) == reader.base + reader.events[i].delta

\* The events of a tail are a run of events of one batch of this run, decoded
\* with the base they were written against.
Whole ==
    \A i \in DOMAIN reader.events :
        /\ Decoded(i) = reader.events[i].code
        /\ ofRun[Decoded(i)] = run
        /\ i > 1 => reader.events[i].code = reader.events[i - 1].code + 1

\* What test a_concurrent_tail_reader_never_sees_a_torn_event (evqueue.rs:557) says
\* of every tail: no torn event, no two generations of a buffer.
NoTornEvent == reader.pc = "tail" => Whole

\* A tail is whole, unless the batch that Hot described when the read looked at
\* queue_id had been freed already: init_producer drops the batch of the previous
\* run and stores queue_id before it arms, and ship_and_renew pushes a batch, which
\* the history may evict at once, before it arms the next (evqueue.rs:184-198).
\* No other interleaving with a push, a flush, an exit or the next run tears a tail.
TailIsCoherent == reader.pc = "tail" /\ ~reader.orphaned => Whole

\* A read hides nothing: what was in the batch alone when it began is in the
\* tail, or has meanwhile gone into the ring (or was lost to it and counted), also when all
\* attempts were in vain.
NothingIsHidden ==
    /\ reader.pc = "tail" => reader.had \subseteq gone \cup {Decoded(i) : i \in DOMAIN reader.events}
    /\ reader.pc = "none" => reader.had \subseteq gone

\* The recorder reads slots of memory that is still allocated, with the same
\* exception: once a read has found Hot armed for a batch, no path of the owner,
\* the flush or the exit frees that batch under it.
ReadsAreLive ==
    reader.pc = "slots" /\ ~reader.orphaned => \E b \in live : reader.end = End(b)
=============================================================================
