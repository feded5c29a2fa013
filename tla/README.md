# trace0, specified and checked

This directory holds TLA+ models of trace0, the TLC configurations that check
them and the proofs that TLAPS checks. trace0 is a tracing profiler for Python:
`sys.monitoring` callbacks pack events into per-thread batches, full batches
cross bounded rings to a background thread, and that thread either streams them
to a file or keeps the newest of them as a flight recorder. Paths below are
relative to the repository (`src/`).

## 1. Inventory

| component | code | state | operations |
| --- | --- | --- | --- |
| event queue | `crates/core/src/evqueue.rs` | consumers, next_consumer, dropped, closed, recycle_floor | push, init_producer, ship_and_renew, drain_batches, record_dropped, close |
| thread-local buffers | `crates/core/src/tls.rs` | Hot (cursor, end, base, queue_id, epoch, caches), Cold (producer, batch), RECORDERS | commit, arm, flush_partial, register/forget, read_tails, flush_every_thread, thread exit |
| streaming exporter | `crates/core/src/pipeline.rs` | fan-in ring, the writer's buffers | serializer loop, writer loop, last lap, finish |
| flight recorder | `crates/core/src/recorder.rs`, `crates/py/src/recording.rs` | ring, windows, control channel | absorb, Open/Cancel/Dump/DumpAll, update_recycle_floor |
| history ring | `crates/core/src/ring.rs` | batches, bytes, floor, horizon | push, pop, set_floor, evict |
| snapshot assembly | `crates/core/src/snapshot.rs` | none | assemble, replay |
| code interner and code cache | `crates/py/src/intern.rs`, `codewatch.rs`, `crates/core/src/codecache.rs` | map, info, free list; GENERATION; the threads' caches | lookup, insert, forget, resolve_cold |
| monitoring callbacks | `crates/py/src/monitoring.rs` | the tool id and six callbacks | record, enable, disable |
| run lifecycle | `crates/py/src/tracer.rs` | running, ACTIVE, REPLACED_HANDLERS, HOOKS_REGISTERED, the environment of children | begin, end, enter/exit, deadly signals, fork hooks, launched children |
| thread names | `crates/py/src/threads.rs` | names by tid | ensure |
| protobuf encoder | `crates/proto/src/lib.rs` | sequences, interned names, templates | create, append, write_batch, finish |
| json encoder | `crates/json/src/lib.rs` | whether it opens the array | create, append, write_batch, finish |
| pprof encoder | `crates/pprof/src/lib.rs` | a stack per thread, time per stack | write_batch, finish |
| shared output file | `crates/core/src/output.rs` | buffered packets, a file lock | create, append, write, commit, drop |
| exporter contract | `crates/core/src/sink.rs` | none | write_batch, finish |
| clock, event packing | `crates/core/src/clock.rs`, `event.rs` | none | conversions |
| command line, integrations | `cli.rs`, `format.rs`, `python/trace0` | none | Format::open, process_startup |

How they interact.  A callback runs on a traced thread, asks the code-id caches
for an id and pushes one event into its thread's batch.  A full batch goes into
the thread's ring (single producer, single consumer); if the ring is full the
batch's events are dropped and counted.  One background thread takes batches
out under the `consumers` lock.  The streaming exporter hands them over a second
bounded ring, the fan-in, to the thread that calls the encoder.  The flight
recorder keeps them in a byte-bounded history and, when asked through a channel,
writes a dump: history plus the tails it reads out of the batches other threads
are still filling, without a lock, under an epoch.  `Tracer::end` switches
monitoring off, flushes every thread's batch from the outside, closes the queue
and joins the background thread with the GIL released.

What is hard to get right, and what makes each part correct:

* **Queue, buffers, exporter**: three kinds of threads touch a batch's path
  (its owner, whoever flushes, the consumer). Each event must be exported,
  counted as dropped, or still on its way; per thread in order; none twice; a
  loss counted once; the fan-in must never be over-filled; ending a run must
  terminate.
* **Tail reads**: the reader must see events of one batch of its own run, and
  a read that gives up must not hide events that are nowhere else.
* **Flight recorder**: a dump holds every event of its window that is neither
  lost nor evicted, wherever the event's batch is when the dump begins, and nothing
  twice; the history is bounded; an open window's events are not evicted below the
  hard limit; a block gets its dump or an error; the run ends with a dump.
* **Code ids**: an id is reused only when no event that can still be exported
  names its previous code object; a cached id is not used after its code object's
  death.
* **Lifecycle**: no two threads wait for each other across the GIL, the
  `running` mutex and RECORDERS; fork and signals at any moment leave a usable
  process.
* **Encoders and output**: what a process committed is read back from the shared
  file in order and under its names, whichever processes and threads write in
  between; a torn entry has a dead author; locks are released; a profile is the
  time spent in each stack.

`PROJECT.json` lists every component with its status and every hazard at its line.

## 2. Plan

The order in which the modules were written, the most important behaviour first.

| module | what | depends on |
| --- | --- | --- |
| `EventQueue` | batches, rings, flush, exit, drain of one run | |
| `Pipeline`, `PipelineMC` | serializer, writer, end of a run | `EventQueue` |
| `LossyLog` | abstract: a per-thread lossy FIFO log | implemented by `Pipeline` |
| `SequenceLemmas` | induction over numbers; sequences of any elements; what a flattened sequence holds, and in which order | |
| `PipelineProofs` | types, fan-in bound, order; the last lap, nothing vanishes, losses counted, the refinement of `LossyLog` | `Pipeline`, `PipelineMC`, `SequenceLemmas` |
| `TailRead` | the words of `Hot`, `arm` and `read_tail`, across two runs, with and without the GIL | |
| `TailReadProofs` | types, armed batches, coherent tails, nothing hidden, live reads | `TailRead` |
| `CodeIds`, `Recycling` | interner, caches, watcher; the recorder's recycle floor | |
| `RecyclingProofs` | one owner per id, no wrong name without a refusal, names kept | `Recycling` |
| `History` | eviction by bytes against windows, horizon; the control channel and dumps; assemble and replay against a reference | |
| `HistoryProofs` | types, the byte bound, the end of a run, what windows keep, what dumps show and what they do not | `History`, `SequenceLemmas` |
| `Tracer`, `TracerMC` | lifecycle with the GIL, the mutexes, RECORDERS, signals, fork and launched children | |
| `TracerProofs` | types, the known deadlocks, signal handlers | `Tracer` |
| `TracerRunsProofs` | what is advertised, what is traced, children, death by a signal | `TracerProofs` |
| `Events` | packed events, kinds, clocks | |
| `ProtoExporter`, `JsonExporter`, `PprofExporter` | the three encoders as operators, and what a reader makes of their output | `Events` |
| `Output`, `OutputMC` | processes that share a file, its lock, kills and errors | the exporters |
| `OutputProofs` | packing, sequence ids, types, the lock, whole entries, the head of an array, what is read back, the time in a profile | `Output`, `SequenceLemmas` |

What would come next: a second run over the code caches of the first.

## 3. Modules and the code

`EventQueue` has one action per operation on a run's queue. `batch[t]` is
`Cold.batch` with everything up to `Hot.cursor`; `attached[t]` says that
`Cold.producer` belongs to this queue; `rings[t]` is the rtrb ring. A push is
`EnterCallback` and then one of `PushFast`, `InitProducer` followed by
`RegisterCurrent`, and `ShipAndRenew`. Two steps stand for the first push because
two locks lie on its way. `drain_batches` is `BeginDrain`, then `DrainPop` and
`DrainNext` ring by ring: producers go on pushing between its pops, but no new
producer registers, since the call holds the consumers lock. The same holds for
`BeginFlush`, `FlushThread`, `EndFlush` and the RECORDERS lock. A thread's exit is
two steps, `Forget` and `FlushAtExit`, since the lock is released in between.

Abstracted: an event is the number of its push on its thread. Ticks are left out,
so `ShipAndRenew` may happen with a batch of any length (the 32-bit delta
overflow). A callback's push and another thread's flush of the same batch are
atomic towards each other, which is what the GIL gives; what happens without it is
asked of `TailRead`. `next_consumer` counts modulo `Turns`, a common
multiple of the possible ring counts, which leaves the remainder the code takes
unchanged.

`Pipeline` adds the serializer and the writer of `run_pipeline` and `Tracer::end`.
Where a loop in the code waits (`backoff`) the model does not take the step. `ring` is
the writer's local ring, `fanin` the bounded channel. An exporter error, of `write_batch`
or of `finish`, makes the writer return: the fan-in's receiver is gone and the serializer
sees it abandoned.
An error from `monitoring::disable` is kept by the code until the end has been
carried out, and is not modelled.

`LossyLog` says what a client may rely on: per thread, events are delivered in
order, none twice; an event may be lost and is then counted unless its thread was
exiting; after finish nothing is delivered. `PipelineMC` maps `Pipeline` to it:
pending is everything between the exporter and the batch, delivered what
`write_batch` took.

`TailRead` looks at one traced thread through a magnifying glass. Its owner, the
thread that ends a run and the recorder take one step per load or store of a
word of `Hot`. Buffers lie next to one another in one range of addresses, so that a
cursor of one may be measured against the end of another, as a reader that
overlaps an `arm` would do. The three relaxed stores of `arm` happen in any order
between the two stores of the epoch; all other accesses are taken as
sequentially consistent. Freed buffers are overwritten (`Foreign`) and reused. Whether
a push finds its ring full is left open, and so is whether the ticks of a batch's
events are further apart than a delta can hold, so that `Look` takes the slow path with room left.
`Evict` frees any batch the history has, also one that `Hot` still names because its owner
has not armed the next (see 5.2). One constant selects what the code leaves to its
surroundings: `Gil`, whether a callback's push and `Tracer::end` exclude each other. The
properties relate what the reader got to history variables: `gone`, what went into a ring or
was counted lost; `ofRun`, the run of each event; `armedFor`, the run whose batch `Hot` has last
been armed for, 0 once that batch has been evicted. `TailIsCoherent` and `ReadsAreLive` leave
out a read that is `orphaned`: when it looked at queue_id, the batch that `Hot` described had
been freed. The code lets that happen in two places, both in section 5, and the proofs say
that there is no third (`OrphansOnlyWhileRenewing`).

`CodeIds` holds the steps of a callback up to its push (`record`, `resolve_cold`,
`Interner::insert`) and of the watcher (`on_code_event`). A code object appears with
its first callback and dies when no callback is under way for it. `UseLast` is the
check in `record`; `NoNameNeeded` with `ResolveTo` or `ResolveToNone` is
`resolve_cold` for a thread whose name is registered, in one step under the
GIL; for the others it is `LookUpName` and `NameLookedUp`, with Python running in
between, for as many events as `NAME_RETRIES` allows (`lookups`). `None` is `0` or
`NotCached`; `info` maps ids to code objects, which stand for their names; ids count from
1. Which keys share a slot of the cache is left open: `Put` may evict any of the other
keys' entries.

`Recycling` puts batches, rings, the history and `update_recycle_floor` beside
them. The floor's inputs are read one after the other, as in the code: the clock
(`BeginFloor`), the tails under the RECORDERS lock (`ReadTail`), the rings
(`AbsorbAll`), then `SetFloor`. The tick may be the one somebody else read before.
`absorb_all` is modelled by its last pass, which visits every ring; what earlier
passes take is `Absorb` or left to the last one. Evictions are nondeterministic but
keep the newest batch. A tail is read in one step, which is what `TailRead` is for; a
read that gives up after eight attempts is left out (each attempt then met another
batch, with a base after the clock reading).

`History` is the flight recorder from the callback to the slice in a dump. The
recorder (`run_recorder`) is a machine whose `pc` says what it does next: read the
channel (`HandleOpen`, `BeginDump`, `NoMessage`), drain (`Drain`, `NothingDrained`),
read `is_closed` (`CheckClosed`), and for a dump absorb, read the tails (`ReadTails`),
absorb again, put the slice together (`Assemble`), write (`Written`, with absorbs between
the chunks), set the recycle floor and reply (`Reply`). `closing` marks the last round
of messages. `Absorb` takes one thread's ring; a pass of `absorb_all` that finds
every ring empty is one step with the condition `RingsEmpty`, since only the recorder
takes from them, so that they were all empty when that pass began. Several batches
of one ring come in together: evicting after each of them, as `Ring::push` does, ends
where evicting after all of them ends. `Hold` is `evict_over_capacity`: as few of
the oldest batches go as will do. The floor is the smallest start among the open windows,
so a batch is protected if it reaches into any of them.

`Stream`, `Replay`, `SortedByTicks` are `assemble` and `replay` event by event, for one
thread; `Dumped` applies them to what is at hand. `Slice` says what they should return:
it is stated over the thread's log, its evicted events and the window, without batches,
tails or order. `DumpInventsNothing` is the other direction
alone, without exceptions: whatever a dump shows, the thread recorded it, within the
window, at that tick. Three cases are left out of the other two, each where it is named:
batches a full ring refused (`lost`), threads in the middle of their exit (`InExit`, see
the end of section 5) and threads whose tail has been shipped, absorbed and evicted
since it was read (`Outlived`; the dump then holds true events older than its horizon).

The clients are snapshot blocks and `Tracer::end`. Both run under the tracer's
`running` lock, so a block that exits finds the tracer running or gone, never half
ended; it waits for its answer outside the lock. Python can cancel no window:
`Control::Cancel` is sent by tests only and is left out. `Die` is a dump whose file
cannot be created or written: `run_recorder` returns and everything it held goes with
it. The tails of all threads are read in one step, under the RECORDERS lock in the code;
a thread's slice depends on the moment its own tail is read. The recycle floor
every 1024 rounds only absorbs, from the point of view of this module.

`Tracer` is the lifecycle of runs for the threads of one process. `proc` is a record of
everything a process holds, since a fork copies it: the statics (`active`, `owner` for the
mutexes, `saved` for REPLACED_HANDLERS, `hooks`), each tracer's `running` (`slot`), the
profiler tool, the environment variable children read (`env`), the signal's disposition,
and where each thread stands in its call (`pc`, `at`, `hand`). `__enter__` is `CallEnter`,
`Begin` or `BeginFails`, `LockHandlers`, `TakeOver` or `LeaveHandlers`, `KeepPrevious`,
`Install`, `Publish`; `__exit__` is `CallExit`, `Clear`, `LockToHandBack`, `HandBack`,
`StopAdvertising`, `Take`, `Flush`, `Join`; the signal handler is `Deliver`, `LookUp`,
`EndActive`, `HandlerFlush`, `HandlerJoin`, `Raise`, and `Killed` is the signal that finds its
default action and not the tracer's handler, which may come at any moment and whoever
has the GIL, since the kernel carries it out; the fork hooks are `BeforeFork` and
`AfterForkInParent` or `AfterForkInChild`. A stretch of Rust or C is one step. Between two
steps the GIL is free for others when the code runs Python or gives the GIL back; where it
does neither, the first step keeps it (`gil = t`). A thread that finds a mutex locked waits
with the GIL in its hand (`Waits`), which is how processes hang here. `Wants` says which
mutexes the next step takes. At a fork the model goes on as the parent (`ForkReturns`) or
as the child (`Fork`: one thread, the mutexes of the others locked by `Vanished`); a
launched child (`Spawn`) starts afresh and enters the tracer that `env` names, as
`process_startup` does. One deadly signal stands for the three, and at most one comes per
process. The properties except what the code leaves open, by history flags: `overlap` (a
fork during another thread's call or the signal handler), `crossed` (two threads enter
and leave at once), `failed` (an `__enter__` failed after it had advertised), `elsewhere`
(handlers handed back off the main thread), `bare` (the runs begun where the default action
had to stay, since only the main thread may install a handler, for as long as it stands). What
each of them leads to is at the end of section 5.

`Events` has the packed word (24 bits of code id, 8 bits of kind; an unknown kind reads as
a begin) and the conversion of ticks. The three exporter modules are their exporters as
operators on a state: one operator per function, an `out` for what `SharedFile` has
buffered. `ProtoExporter` keeps the packets and the fields that tell them apart: a
process or thread descriptor clears its sequence's incremental state, a name is interned
per sequence, an event refers to sequence and iid. `ReadProto` is a reader that looks for the
events of one process: packet by packet (`ReadPacket`) it keeps names and the default
track per sequence, as the format prescribes. `JsonExporter` has
the head, events, thread names and the dropped count, with `ReadJson`. `PprofExporter` folds
events into stacks; `ProfileOf` is the reference, which has no stack: an open is still open
if the thread's `Depth`, its opens less its closes, has not fallen below it since
(`StillOpen`), and `TimeIn` adds up the spans spent under the same open frames.

`Output` lets a root process and its children, forked or launched, write one output. A
process is `unborn`, at its `start`, `idle`, in a `commit`, in a `write`, and `closed`,
`failed` or `dead`. `Open` is `Format::open`; `WriteBatch` and `Finish` call the exporter
and hand what it has buffered to a commit; `Acquire`, `WritePart`, `WriteRest` are
`SharedFile::commit` (`write_all` may append in two halves); `AcquireFails` and
`WriteFails` are its errors, `Kill` comes anywhere. flock belongs to an open file
description, which a forked child has too (`opened`). An item of a file is an entry, whole
or cut (`part`), with its author. `given` and `batch` are what a process has committed and
is committing, against which `ReadBack` compares what the reader gets. `unsettled` marks runs
in which a child was launched before the root had created the output.

## 4. Runs

| run | module, cfg | instance | shows |
| --- | --- | --- | --- |
| `pipeline` | PipelineMC, Pipeline.cfg | 2 threads, one exiting, batches of 2, rings of 1, 2 events each, fan-in of 1, exporter may fail | NothingVanishes, InOrder, DroppedIsExact |
| `pipeline_live` | PipelineMC, PipelineLive.cfg | 1 thread, batches of 2, 3 events, fan-in of 2, exporter may fail | TypeOK, FaninHasRoom, TakenIsWritten, RunEnds, SerializerLeaves, ImplementsLossyLog |
| `tail_read` | TailRead, TailRead.cfg | 2 runs, 3 events, batches of 2, 3 buffers, 2 attempts per read, with the GIL | TypeOK, ArmedForItsBatch, TailIsCoherent, NothingIsHidden, ReadsAreLive |
| `recycling` | Recycling, Recycling.cfg | 2 threads, one that may exit and has no name yet (2 tries), 3 code objects, 1 address, 2 ids, batches of 1, rings of 1, 6 ticks | TypeOK, NamesKept, OneOwnerPerId, MisfiledOnlyAfterRefusal |
| `history` | History, History.cfg | 2 threads, one inside a call from the start, one exiting, 1 window, batches of 2, rings of 1, a history of 1 batch, 4 ticks | TypeOK, DumpIsComplete, DumpIsFaithful, DumpInventsNothing, HistoryBounded, RunEndsWithDump |
| `history_windows` | History, HistoryWindows.cfg | 1 thread, 2 windows, files may fail, calls two deep, 3 ticks | DumpIsFaithful, WindowsKept, SnapshotAnswered |
| `tracer` | TracerMC, Tracer.cfg | 2 threads, 2 tracers (one traces subprocesses and is a recorder), 2 runs, 1 generation of children | TypeOK, TracedWhenQuiet, ChildIsApart, AdvertisedIsRunning, SignalHasItsHandler, DiesFinished, OnlyKnownDeadlocks |
| `output` | OutputMC, Output.cfg | the root and one child, three formats, 2 batches on 2 threads, 1 fault, 2 runs, 3 sequence ids per slot | TypeOK, CommitsAreWhole, ReadBack, LockIsReleased, HeadFirst, ProfileIsTime |
| `pipeline_complete` | PipelineMC, PipelineComplete.cfg | 1 thread | violated: 5.1 |
| `tail_evicted` | TailRead, TailReadEvict.cfg | 1 run, 4 events, the rest as above | violated: 5.2 |
| `history_balanced` | History, HistoryBalanced.cfg | 2 threads, no window, 4 ticks | violated: 5.3 |
| `tracer_stuck` | TracerMC, TracerStuck.cfg | 1 thread, 1 tracer | violated: 5.4 |

Bounds. A batch of 2 separates empty, partial and full, and a push from a ship;
a ring of 1 is full after one ship, so losses are met within 2 events; two threads
make drains visit several rings from a moving start, and make the flush race with an
exit; the fan-in of 1 makes every push of the serializer meet its limit, and the
fan-in of 2 lets a drain take two batches of one ring. `MaxEvents` bounds the state
space only; the queue's steps do not depend on how many events came before.
In `tail_read`, three buffers are the batch in use, the one being renewed and the one
a ring or the history holds; three events fill a batch, ship it and leave one for the next
batch, in the same run or the second one (a batch of one event may be shipped as well); a reader that may try twice meets both the retry and the
giving up. In `recycling`, six ticks are what it takes to reuse an id lawfully: an
event under it, its code object's death, two events of another that push the first
batch out of the history, that object's death, and the event of a third under the
reused id; with two ids and three code objects refusals are met too, and one address
is where a stale last id does its harm; of two tries to find a name one may fail, which
leaves the last id unused for an event, and the second ends the trying. For more addresses, ids and larger batches
there is the proof. In `history`, a history of one batch that may grow to two
meets its limit after two ships; four ticks let one thread fill and ship a batch, the
other add to it, and a batch appear in a tail, then in a ring, then in the history,
while a dump is under way; ships happen at any length, so a batch of one event will do
as well as a full one. `history_windows` needs three batches of one thread to evict
under two windows. In `tracer`, two tracers are one that tells children of its output
and whose exporter takes RECORDERS, and one that does neither; two runs let them nest
or follow each other, two threads give every deadlock its second party, and one generation
of children meets the inherited state (a grandchild inherits nothing its parent did
not). In `output`, a slot of three ids is full with two threads, so an id too many would
be the next slot's; two batches let either process write between the other's; one fault
is a kill or an error in any place; the second run of the root meets what the first left
in the file. `MaxTicks`, `MaxEvents`, `MaxRuns` and `MaxFaults` bound the state space only.

Deadlock checking is on in the runs of `Pipeline`, `TailRead`, `Recycling` and `History`:
no state of theirs is without a further step but the end of a run, where `Terminated`
(`Ended` in `History`) stutters. It is off in `tracer` and `tracer_stuck`, where a process
may be dead or really hang (`OnlyKnownDeadlocks` says in which ways), and in `output`, where
every process may be done, or one wait for a lock for as long as `LockIsReleased` allows.

Fairness (`FairSpec`). Weak fairness of the serializer and of the writer: both
are OS threads that poll, `backoff` sleeps for a bounded time and retries. Weak
fairness of the ender once it has begun: `Tracer::end` is straight-line code of
one thread. In `History`, weak fairness of the recorder, which polls like the
serializer, and of `BlockFails`: `recv` returns when the other end is dropped. Nothing
is assumed of traced threads; they may push for ever or stop in a callback, a block need
not exit, and a failing exporter is never forced to fail.

## 5. Disagreements found

1. `pipeline.rs:65-68`: the serializer leaves when a drain returned nothing and the
   queue is closed *now*. What was flushed between the two is neither exported nor
   counted, against the test at `pipeline.rs:203`. The recorder drains again after
   reading the flag (`recorder.rs:69-70`).
2. `evqueue.rs:184-198`: a full batch is pushed before the next is armed. If the
   recorder takes it and evicts it at once (the history is smaller than what the
   rings hold, or other threads go on pushing in a build without a GIL) it may read
   freed memory through `Hot`, against `evqueue.rs:585`. `flush_partial` arms first.
   `tail_read` allows such evictions too, and shows that only a read that began to look at
   `Hot` in that window is harmed: all others are coherent and stay in allocated memory.
3. `snapshot.rs:94-98`: the open made up for a close that lost its own gets the tick of
   the horizon, the end of the batch evicted last, whichever thread recorded it. A thread
   that records slowly ships its batch late, with closes older than that: sorted by ticks,
   the made-up open comes after its close, against `snapshot.rs:187-201` and
   `crates/json/src/lib.rs:433-447`. Several such opens of one thread also share a
   tick and stand in the order of their closes, so that the innermost frame is opened
   first. `history` shows that the dump is otherwise the slice it should be.
4. `tracer.rs:196` and `tracer.rs:250`: `take_over_deadly_signals` holds REPLACED_HANDLERS
   while it calls Python's signal module. A deadly signal that Python handles on the same
   thread in between finds the tracer's handler in place, which locks REPLACED_HANDLERS
   again: the process hangs. `hand_back_deadly_signals` has the same window
   (`tracer.rs:220`). `tests/test_signals.py:1` says of the tracer that it lets the
   signal "do what it was always going to do".

Without a run of their own:

* `tls.rs:120` throws away the count of events lost by a thread that exits while its
  ring is full, although the queue is alive, against what `evqueue.rs:373-377` asserts of
  the other flush. `DroppedIsExact` excepts these events (`uncharged`).
* `tls.rs:201-208`: `flush_every_thread` takes RECORDERS, which a push does not. With
  the GIL the two exclude each other. Without it (`Gil = FALSE` in TailRead.cfg, where
  `ArmedForItsBatch` then fails) `Hot` may end up armed for a batch that is not the one
  in `Cold`, against the assertions of `commit` (`tls.rs:59-66`).
* `evqueue.rs:145-148`: the first push of a second run stores the new `queue_id`
  before `arm` opens its epoch. A recorder of the new run that reads in between
  takes the previous run's batch, already dropped, for a tail of its own, against
  `evqueue.rs:539-550`. The properties of `TailRead` except such a read (`orphaned`).
* `monitoring.rs:58-76`: `resolve_cold` marks the thread's caches as current and then
  returns `None` if there is no id to be had, leaving the last key and id of a
  code object that may be dead. The next event at that address is filed under
  its name, against `tests/test_code_lifetime.py:1-8`. `MisfiledOnlyAfterRefusal` says
  that nothing else leads there.
* `crates/proto/src/lib.rs:252-257`: that a process has no more threads than its slot
  has sequence ids is a `debug_assert`. In a release build the 128th thread's sequence is
  the process sequence of the next slot, against "Perfetto keeps them apart"
  (`README.md:112-115`) if a process has that slot.
* `README.md:117-119` says a process killed mid-run "still leaves everything up to its
  last whole entry". It does, but what other processes append behind a cut entry cannot be
  read either (`ReadBack` promises what stands before the cut), and while a child it
  forked is alive the killed process' lock is held and every other one waits in flock
  (`LockIsReleased`).
* `tracer.rs:379-384`: `__enter__` tells children of the output before it is opened. A child
  launched in between writes into a file that the root then truncates, or writes
  entries ahead of the array's head (`unsettled`). If the run then fails to begin, since
  another one holds the profiler tool, the environment still names the tracer (`failed`)
  and the output is already cut to nothing.
* `tracer.rs:220`: leaving a tracer on another thread than the main one drains
  REPLACED_HANDLERS while `signal.signal` raises: the tracer's handler stays, knows of no
  predecessor and swallows the signal (`elsewhere`).
* `tracer.rs:398`: `__exit__` hands the deadly signals back before it takes and ends the
  run (`tracer.rs:404-405`). A SIGTERM between the two, which includes the whole of the
  final write, finds the default action and kills the process with the run unfinished, against
  `README.md:126-129`, which says that such a run "still writes what it recorded". The same
  holds before `take_over_deadly_signals` has installed the handler (`tracer.rs:327`), and for
  all of a run that is entered on another thread than the main one (`tracer.rs:210`).
  `DiesFinished` excepts these runs by name (`Unguarded`), says that there are no others, and is
  violated within a few steps without that exception.
* A fork that overlaps another thread's `__enter__`, `__exit__` or `snapshot`, or the
  signal handler (`overlap`) may leave a child that waits for a mutex nobody holds any
  more, or with its parent's tool still calling back. Two threads that enter and leave at
  once (`crossed`) may leave the environment naming a tracer that is not running.
* `OnlyKnownDeadlocks` lists the ways in which a process hangs: a thread that needs the GIL
  back to go on holds REPLACED_HANDLERS across a call into the signal module, or `running` (the
  signal handler also ACTIVE) while it joins the exporter, and another waits for that
  mutex with the GIL; or a mutex was locked by a thread that a fork left behind.

Not counted as a disagreement: a thread that exits is out of RECORDERS before its last
batch is in its ring (`tls.rs:117-122`). A recycle floor taken in between does not see
that batch, and `NamesKept` holds only for threads to which this has not happened
(`overlooked`); a dump taken in between misses it, and `DumpIsComplete` leaves such
threads out (`InExit`). A recorder that dies on a dump's file takes the run's own dump
with it; `Tracer::end` reports the error (`tracer.rs:137`). What `finish` is told was dropped
is read once, when the writer is done (`pipeline.rs:112-113`); events dropped later are in the
queue's count but not in the file's. `reported` keeps that number; no property compares the
two, which the tests do only when every thread has stopped (`pipeline.rs:216`, `pipeline.rs:230`).

## 6. Proofs

`PipelineProofs` proves, for every set of threads and every size:

* `TypeCorrect`: `Spec => []TypeOK`. The inductive invariant is `TypeOK` with
  `DrainFits` (what a drain in progress brought back stays below its limit, its
  limit within the open slots) and `CallbacksFit` (a callback that is to push has an
  event number left): without the first `hand` and the fan-in have no bound, without
  the second a push leaves the range of events.
* `FaninNeverOverflows`: `Spec => []FaninHasRoom`, from the same invariant. The
  argument is the code's own: only the serializer pushes, so the slots it counted
  before the drain can only have become more.
* `OrderKept`: `Spec => []InOrder`. `InOrder` is inductive over the typed state: it
  speaks of the whole path (exporter, writer, fan-in, hand, ring, batch), so that
  handing a batch on leaves it unchanged. Lemmas cover a write to the batch, a ship
  that succeeds or is rejected, and the head of a ring moving to the hand.

`HistoryProofs` proves, for every number of threads and blocks, every size and limit:

* `TypeCorrect`: `Spec => []TypeOK`. `TypeOK` is inductive with two additions:
  `ForgottenHasBatch`, since a thread that exits ships the batch it had when it left
  RECORDERS, and `JobInHand`, the places of `pc` where the recorder has a dump to work on.
* `HistoryNeverOverflows`: `Spec => []HistoryBounded`. The lemma `HoldKeeps` is the
  argument: wherever the eviction loop stops, what is left fits, whatever the windows
  protect; every step that changes the history ends with it.
* `EveryDumpAnswered`: `Spec => []RunEndsWithDump`. `RunEndsWithDump` says nothing of
  the states before the recorder is done; its strengthening `AnswerInv` does. Three
  parts, stated over `InHand`, the messages in the channel and the recorder's job:
  once the run's dump is asked for it is in hand or written (`WholeInv`); a block that
  waits has its dump in hand (`WaitInv`); and the recorder starts its last round only after
  `Tracer::end` has closed the queue, and is done only with an empty channel
  (`ClosingInv`). The steps that leave all of this alone share the lemma `QuietStep`,
  the recorder's own the lemma `InwardStep`.
* `WindowsHoldTheHistory`: `Spec => WindowsKept`. The eviction loop compares a window with the
  newest event of the oldest batch, which says something of the batch's other events only if that
  is its latest. `Rising`, that every batch on its way begins at its base, rises and is not
  ahead of the clock, is the invariant that this action property needs.
* `DumpsAreComplete`: `Spec => []DumpIsComplete`, in two halves. The first follows the batches:
  `NothingForgotten`, every recorded event is in its thread's batch, its ring or the history, or it
  is lost or evicted; `Paths`, along that way a thread's events rise; `TailsShow`, between the
  read of the tails and the dump a thread's batch has nothing up to the dump's end that its tail
  does not show, which needs `EndsPast` (no dump ends ahead of the clock). So what the rings
  and the batch still hold, once the rings have been seen empty, is in the history or in a tail
  (`FromHistory`, `FromBatch`), and a tail that `FreshTail` leaves out has its base in the
  history, whose batch then has all of the tail's events. The second is about the operators:
  the stream flattens those batches in their order (`StreamShows`), a replay shows every event
  from the window's start up to the first one past its end (`ReplayShows`), and a stable sort
  drops nothing (`SortPermutes`: an index goes to the place that its rank names, which is a
  bijection). The replay is a recursive function, so `ReplaysExists` shows by induction that it
  exists.
* `DumpsInventNothing`: `Spec => []DumpInventsNothing`. That no event is shown twice asks for a
  stream in which no tick stands twice (`StreamApart`), although it joins the history with a tail
  of a batch that may have come into the history since: `TailsBegin`, a tail that shares a
  tick with a batch is a beginning of that batch and has its base, which `FreshTail` compares.
  The opens that a replay makes up stand at the horizon, and two of them are alike, or one is like
  an event, unless calls nest: `CallsNest`, a frame is named by the tick it opens at and is
  closed once. An event at the horizon itself is the open of a frame only if it was evicted;
  then the history has it no more (`EvictedFirst`, what is evicted of a thread is older than
  what is not), and a tail that has it ends with it (`HorizonEnds`), so that within the dump's
  span nothing of the thread comes later (`NoneBehind`) and no close of that frame is
  dumped. `NoneMadeUp` puts this together; `ReplayFrom` is the induction over the stream.
* `DumpsAreFaithful`: `Spec => []DumpIsFaithful`. The replay pops the last open frame at a close
  without looking which frame it closes, and makes an open up when none is open; the slice names
  frames. They agree in a stream that is `Nested`: a frame opened inside another is closed
  first, and if any frame older than the one a close is of stands in the stream, so does the open of
  that one. The invariant for the first part is `InnerFirst`, about the threads' stacks
  and all that they recorded; for the second it is again that what is evicted is older than
  what is kept (`KeptAreLast`): the history may have lost an open and still have its close, but
  not the other way around, and never a frame in the middle of a stack. `CloseFinds` then says that
  a close finds its own frame or none, `AfterExact` that the stack is what is open, and
  `ReplayExact` is the induction over the stream, which has all that is kept up to the dump's end
  (`KeptInStream`, `StreamNested`). A window does not end before it starts (`StartsPast`), which
  the replay needs to take the frames it begins in before it stops. The sort is a bijection,
  so the dump has as many events as its slice.

`PipelineProofs` proves of the ends of the run, with the results above at hand:

* `NothingLeftBehind`: `Spec => []TakenIsWritten`. The strengthening `LastLap` follows the
  writer: once it has seen the serializer finished nothing is in `hand`, and it leaves only
  with an empty fan-in and an empty local ring.
* `NothingDisappears`: `Spec => []NothingVanishes`. Every event number a thread has used is
  found along its path or among the losses; each action moves a stretch of the path.
* `LossesCounted`: `Spec => []DroppedIsExact`. The count is a sum over threads, so it is
  proved by finite-set induction over what a step adds: `LostEarlier` (what is lost was
  pushed before what is in the batch) makes the added events new, and `Charged` ties
  `dropped` to them; only the exit's flush, `uncharged`, adds without counting.
* `ExporterIsALossyLog`: `Spec => ImplementsLossyLog`, the refinement of `LossyLog`. The invariant
  is `LogInv`: the typed order (`IInv`, `InOrder`: a ring holds only batches of its own thread),
  `Unarmed` (the first event goes into an empty batch), `Charged` (a flush starts with no
  losses of its own) and `OnlyExiting`. Each action is a step of the log or leaves it alone
  (`StepsAreLogSteps`): a write records; a ship that succeeds only regroups what is pending
  (`ShippedPends`), one that fails loses the newest (`WithoutBatch`); a pop from a ring, the fan-in
  or the hand moves nothing (`PopStays`, `MovesStay`); and the batch written is the oldest
  of its thread (`OldestFirst`), so the log delivers. A thread's stream flattens batches with
  `FlattenSeq`, a recursive function of the community modules; `FlattensExists` in `SequenceLemmas`
  shows by induction over its length that the function exists, and `StreamAppend` and
  `StreamConcat` follow.

`RecyclingProofs` proves, for all threads, code objects, addresses, ids and sizes:

* `OneOwner` and `OnlyRefusedMisfile`. `IdInv` is inductive by itself: `Objects` (a code object
  lives at one address, and an id stored for it is the one its key is mapped to),
  `Owners` (mapped and free ids partition those handed out), `Times` (nothing is newer
  than the clock, no cache newer than the generation) and `Caches`. The last is the core: what
  a thread cached for the current generation is what the interner says, and so is what it
  cached for the key of a callback under way, since that code object is in use and cannot
  die. The interner's three ways to an id are `InternFacts`.
* `NamesAreKept`: `Spec => []NamesKept`, `update_recycle_floor` is right. Every batch is
  `Kept`: its events have their names, and the entry in the free list of an object that
  died is no older than the floor and than the batch's base. While a floor is being taken
  that is not enough, since the next floor is higher; so each batch is also `Counted`, its
  events' ids were freed after the clock reading or after the base of a tail that was read,
  unless the pass has yet to come by (`BatchComes`, `RingComes`). `NamesMove` sums up what an
  interner or watcher step may do to names, so that each of the thirteen actions moves
  batches or names, never both in an argument.
* `TypeCorrect`, from the same invariant.

`TracerProofs` proves, for any threads, tracers, runs and generations of children:

* `TypeCorrect`; the strengthening says which calls carry a tracer (`at`) and which a run.
* `KnownDeadlocks`: `Spec => []OnlyKnownDeadlocks`. Each mutex has an owner that stands where
  the code holds it, step by step; so a waiting thread's owner is one of the listed ones.
* `HandlersKept`: `Spec => []SignalHasItsHandler`, with what the flags `overlap` and `elsewhere`
  except, and that only the main thread installs.

`TracerRunsProofs` follows the runs through the calls, for the same constants:

* `AdvertisedRuns`: `Spec => []AdvertisedIsRunning`. `Ordered` says what a step of a call, or
  of the handler, may find (ACTIVE, the environment, the tool); `Advertises` that the
  environment was last written by the call that ACTIVE shows.
* `TracedAndFound`, `ChildrenApart`, `DeathFinishes`. A run is where `Tracked` says from its Begin
  to the join of its exporter: on the stack of one call, in `running`, or with a handler; a
  process has threads of its own generation only, and so never another's exporter. `Settled`
  adds what holds until the signal handler ends a run, after which the process only dies. `Guarded`
  is for the signal that finds its default action: which calls may stand where while it does
  (`Placed`, `BegunBare`), so that a run which is neither finished nor in another thread's hand is
  one of the `Unguarded` ones (`KilledByDefault`, `Slotted`). All three hold
  as long as no fork has overlapped another thread's call (`Undisturbed`): that is what the
  properties except by `overlap`, and the reason is in section 5.

`TailReadProofs` proves, for any size of batch, number of buffers, ticks, runs and attempts,
with `Gil` as the only hypothesis (callbacks and `Tracer::end` exclude each other, section 5
says what happens without): `TypeCorrect`, `BatchesAreArmed`, `TailsAreCoherent`,
`ReadsHideNothing` and `SlotsReadAreLive`. Coherence and liveness of the slots leave orphaned
reads out, and `OrphansOnlyWhileRenewing` bounds what these are: a read becomes orphaned only
while the owner, inside a push of the same run, has stored queue_id or shipped its batch and
has yet to finish arming the next. No flush, no exit and no finished push leaves `Hot` naming
a freed batch. The lemma `EvictsArmed` is the step that frees the batch `Hot` names.
The invariant has an account of the batch (where its buffer is, which events it
holds, that every slot below the cursor was written against the base), one of the buffers (each
is free, a thread's, in a ring or in the history, once), and one of the reader: as long as
the epoch is the one it began with, every word it has loaded is the one that still stands, so
that what it has collected is what the batch holds. When the epoch has moved, the batch
has gone into the ring since, which is all `NothingIsHidden` asks.

`OutputProofs` proves `PackingIsExact` (for every id of 24 bits and every kind) and
`SequencesApart` (of two processes, as long as neither has more threads than its slot has
ids) of the operators, and for any number of processes, batches, runs and faults:

* `TypeCorrect`, `LockReleased` and `WritersExclude`: who holds a lock, and who has which
  description open (`Locked`, `Descriptions`). What a commit appends makes no difference to it.
* `CommitsWhole`: `Spec => []CommitsAreWhole`. `Halves` is the strengthening: a half is the last
  item of its file while its writer has the other half to write (`RestIsNext`), and since nobody
  else has the lock nothing gets behind it; otherwise its writer has failed, died or begun
  anew. `Placed` says whose items a file may hold, so that the process that opens it
  clears its own.
* `HeadsFirst`: `Spec => []HeadFirst`. `Headed`: as long as the output is empty nobody but the root
  works, and the root has the head to write and nothing else.
* `EventsReadBack`: `Room` implies `Spec => []ReadBack`. `Room`, that a run has fewer threads than a
  slot has sequence ids, is a hypothesis on the constants: the run `output` has no id to spare,
  the code only says it in a `debug_assert` (`crates/proto/src/lib.rs:257`), and section 5 has what
  happens to the 128th thread. The argument has three parts. First the reader:
  it reads a sequence as its first part and then the rest (`ReadOnJoined`), takes nothing back that
  it has shown (`OnRead`), and sees of a process what it would see if it read only that
  process' packets (`ReadersAgree`), because what a process writes is in the sequences of its own
  slot (`Belongs`) and those of two slots are apart. So what others write in between makes no
  difference. Second the encoder: `Follows` ties its state to the reader's. For every thread it
  has a sequence for, the reader knows the track; the names it has given in the sequence are the
  ones the reader has; a cached template leads to sequence and name of its code. Every function of the
  encoder keeps this up as long as its packets are read (`ProcessGoes`, `SequenceGoes`, `NameGoes`,
  `TemplateGoes`, `PushGoes`), which by induction over a batch makes what the reader sees of
  the packets the batch's events (`ProtoHands`; `JsonHands` is simple). Third the files: the
  invariant `Retold` says of every process that a reader of the whole file, cut entries
  included, sees where its events begin, and if none of its entries is cut what it was given; and
  while it lives, that with what it has pending the reader sees all and is again tied to the
  encoder. It is inductive only together with `Written`, which knows that the second half of an
  entry goes right behind the first, and the events of the batch under way count as seen as soon as
  their packets are there. What the reader gets, the entries before the first that is cut, begins
  that (`TakenFirst`, `ReadFirst`).
* `ProfilesAreTime`: `Spec => []ProfileIsTime`, for any clocks. The exporter keeps a stack and a
  time stamp per thread and a sum per stack; the reference counts opens and closes. `StackMoves` says
  that they agree for one event: an open adds the deepest of the open frames (`OpenOneMore`,
  `LastIsDeepest`), a close takes it (`OpenOneLess`), and a close with nothing open leaves nothing
  open (`OpenNoMore`). What is open after an event depends on the events up to it only
  (`StackAgrees`), so sums grow by one span (`TimeOneMore`). `Tied` puts it together: the exporter's
  stack of each thread is the open frames, its time stamp that of the thread's last event, its sum
  for each stack the time in it. One event keeps that (`FoldTied`), by induction a batch does
  (`BatchTied`), and what `finish` makes of it is the reference profile (`FinishTold`).
  `ProfileIsTime` speaks of written files only and is not inductive; the invariant `Profiled` adds
  that the exporter of a working process is tied to all it was given, batch after batch, and
  that a profile that is pending, or half written, is already the reference.

These need to know what the exporters hand over. The encoders of `ProtoExporter` and
`PprofExporter` and the readers are recursive functions over a batch or a file, and their values
are known by induction over the numbers up to its length. `SequenceLemmas` has it: `Least` (a set
of numbers has a least element, from the library's well-foundedness of `<`) gives `NatSteps`, which
gives `ProtoFoldExists`, `PprofFoldExists` and `ReadsOwnExists`. The library's induction theorems themselves cannot be
used (their parameter is an operator), but this form, over a set, can.

The assumptions are those the modules name: finite threads (of `Pipeline`), positive
sizes, `Turns` a common multiple, special values that are none of the threads, keys, code
objects or tracers they stand beside.

Every safety invariant and action property that a passing run checks is stated by a theorem. Only
model-checked are the liveness properties `RunEnds`, `SerializerLeaves` and `SnapshotAnswered`, since
liveness under fairness and ENABLED are out of the prover's reach. So are RECURSIVE operators; the
modules have none.

## 7. Not modelled

* Bytes, formatting and layout of the encoders: varints, strings, the string table,
  annotations with file and line. The models keep what tells entries apart.
* `cli.rs` (arguments, running the script) and the naming of dump files: no state whose
  order of steps matters. `otel.py` and `sentry.py` are thin wrappers around
  `Tracer.snapshot`.
* The clock's calibration, and `ticks_from_ns`, which only tests call.
* `SharedFile` without flock, on systems that are not unix.
* What a second run finds in the code caches of the first: `CodeIds` is one run.
* `Control::Cancel`, which nothing outside the tests sends.
* Weak memory: the models interleave steps sequentially; the code's acquire and release
  orderings are taken at their word.
