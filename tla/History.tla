------------------------------ MODULE History ------------------------------
(***************************************************************************)
(* The flight recorder's dumps: run_recorder (crates/core/src/recorder.rs) *)
(* with its byte-bounded history (ring.rs), the slice that it puts         *)
(* together when asked (snapshot.rs), the snapshot blocks that ask         *)
(* (crates/py/src/recording.rs) and the end of a run (Tracer::end).        *)
(*                                                                         *)
(* Abstracted: a callback reads the clock and pushes at once, under the    *)
(* GIL; all tails are read at once (TailRead takes one apart, and a        *)
(* thread's slice depends on its own tail alone); every tick is some       *)
(* callback's or some clock reading's; a batch may be shipped at any       *)
(* length (a delta overflow); all batches have the same size               *)
(* (EventBatch::bytes counts the capacity); code ids are those of          *)
(* Recycling, so a frame stands for the code object that it runs.          *)
(***************************************************************************)
EXTENDS Integers, Sequences, FiniteSets, SequencesExt, FiniteSetsExt

CONSTANTS Threads,
          Exits,          \* threads that may exit
          Windows,        \* snapshot blocks
          BatchN,         \* events per batch
          RingCap,        \* batches per thread's ring
          BatchBytes,     \* bytes of a batch
          CapacityBytes,  \* record_last_mb
          Began,          \* threads that were inside a call when tracing began
          Before,         \* how many frames they had open
          MayFail,        \* whether a dump's file may fail
          MaxDepth, MaxTicks

ASSUME HistoryAssumption ==
    /\ Exits \subseteq Threads /\ Began \subseteq Threads
    /\ BatchN \in Nat \ {0} /\ RingCap \in Nat \ {0}
    /\ BatchBytes \in Nat \ {0} /\ CapacityBytes \in Nat
    /\ Before \in Nat /\ MaxDepth \in Nat /\ MaxTicks \in Nat
    /\ MayFail \in BOOLEAN

VARIABLES
    clock,
    stack,         \* stack[t]: frames open in t, innermost first
    log,           \* history: log[t], every event of t
    batch,         \* batch[t]: the batch of t, as a sequence of at most one
    rings,         \* rings[t]: batches between t and the recorder
    life,          \* life[t]: "alive", "forgotten" by RECORDERS, "exited"
    lost,          \* history: ticks of events refused by a full ring
    run,           \* Tracer::end: "on", "off", "asked", "closed", "ended"
    stage,         \* stage[w]: where a snapshot block stands
    start,         \* start[w]: the window's first tick
    control,       \* the channel to the recorder
    pc,            \* where the recorder stands
    closing,       \* whether the recorder is in its last round of messages
    job,           \* the dump it works on, a sequence of at most one
    windows,       \* Recorder.windows
    history,       \* Ring.batches, oldest first
    horizon,       \* Ring.horizon_ticks
    tails,         \* the batches read_tails brought back
    written,       \* the dumps on disk
    evicted        \* history: ticks of events the ring evicted

threadVars == <<clock, stack, log, batch, life>>
clientVars == <<stage, start, run>>
ringVars == <<history, horizon, evicted>>
recorderVars == <<pc, closing, job, windows, tails, written>>
vars == <<threadVars, clientVars, ringVars, recorderVars, rings, lost, control>>

Frames == (-Before .. -1) \cup (1..MaxTicks)
Events == [ticks : 1..MaxTicks, opens : BOOLEAN, frame : Frames]
Batches == [tid : Threads, base : 1..MaxTicks, events : Seq(Events) \ {<<>>}]

Whole == "run"

Messages ==
    [type : {"open"}, window : Windows]
        \cup [type : {"dump"}, window : Windows, end : 0..MaxTicks]
        \cup [type : {"dumpall"}, end : 0..MaxTicks]

Init ==
    /\ clock = 0
    /\ stack = [t \in Threads |-> IF t \in Began THEN [i \in 1..Before |-> -i] ELSE <<>>]
    /\ log = [t \in Threads |-> <<>>]
    /\ batch = [t \in Threads |-> <<>>]
    /\ rings = [t \in Threads |-> <<>>]
    /\ life = [t \in Threads |-> "alive"]
    /\ lost = {}
    /\ run = "on"
    /\ stage = [w \in Windows |-> "ready"]
    /\ start = [w \in Windows |-> 0]
    /\ control = <<>>
    /\ pc = "control" /\ closing = FALSE /\ job = <<>>
    /\ windows = {}
    /\ history = <<>> /\ horizon = 0 /\ evicted = {}
    /\ tails = {} /\ written = {}

---------------------------------------------------------------------------
(* Threads: push_with_ctx and ship_and_renew, and the end of a thread.      *)

TicksOf(events) == {events[i].ticks : i \in DOMAIN events}

\* Mutant: one batch more than the ring has slots.
RoomForOneMore(t) == Len(rings[t]) <= RingCap

RoomFor(t) == Len(rings[t]) < RingCap

\* The thread's batch in its ring, or lost.
Ship(t) ==
    /\ rings' = IF RoomFor(t) THEN [rings EXCEPT ![t] = @ \o batch[t]] ELSE rings
    /\ lost' = IF RoomFor(t) THEN lost ELSE lost \cup TicksOf(batch[t][1].events)

BatchOf(t, e) == <<[tid |-> t, base |-> e.ticks, events |-> <<e>>]>>

Push(t, e) ==
    \/ /\ batch[t] = <<>>
       /\ batch' = [batch EXCEPT ![t] = BatchOf(t, e)]
       /\ UNCHANGED <<rings, lost>>
    \/ /\ batch[t] # <<>>
       /\ Len(batch[t][1].events) < BatchN
       /\ batch' = [batch EXCEPT ![t][1].events = Append(@, e)]
       /\ UNCHANGED <<rings, lost>>
    \/ /\ batch[t] # <<>>
       /\ batch' = [batch EXCEPT ![t] = BatchOf(t, e)]
       /\ Ship(t)

Record(t, e) ==
    /\ run = "on" /\ life[t] = "alive" /\ clock < MaxTicks
    /\ clock' = e.ticks
    /\ log' = [log EXCEPT ![t] = Append(@, e)]
    /\ Push(t, e)
    /\ UNCHANGED <<life, clientVars, ringVars, recorderVars, control>>

Enter(t) ==
    /\ Len(stack[t]) < MaxDepth
    /\ stack' = [stack EXCEPT ![t] = <<clock + 1>> \o @]
    /\ Record(t, [ticks |-> clock + 1, opens |-> TRUE, frame |-> clock + 1])

Leave(t) ==
    /\ stack[t] # <<>>
    /\ stack' = [stack EXCEPT ![t] = Tail(@)]
    /\ Record(t, [ticks |-> clock + 1, opens |-> FALSE, frame |-> Head(stack[t])])

\* Cold::drop: out of RECORDERS first, then the last batch into the ring.
Forget(t) ==
    /\ t \in Exits /\ life[t] = "alive" /\ batch[t] # <<>>
    /\ life' = [life EXCEPT ![t] = "forgotten"]
    /\ UNCHANGED <<clock, stack, log, batch, clientVars, ringVars, recorderVars,
                   rings, lost, control>>

FlushAtExit(t) ==
    /\ life[t] = "forgotten"
    /\ life' = [life EXCEPT ![t] = "exited"]
    /\ batch' = [batch EXCEPT ![t] = <<>>]
    /\ Ship(t)
    /\ UNCHANGED <<clock, stack, log, clientVars, ringVars, recorderVars, control>>

Registered == {t \in Threads : life[t] = "alive" /\ batch[t] # <<>>}

---------------------------------------------------------------------------
(* Snapshot blocks and Tracer::end.  Both hold the tracer's running lock,   *)
(* so that a block is refused before or after the end, never in between.    *)

\* clock().raw(): later than the last event, or in the same tick.
ReadClock == clock' \in {clock, clock + 1} /\ clock' <= MaxTicks

\* The recorder's half of the channel is there until it returns.
Receiving == pc \notin {"done", "dead"}

Send(msg) == control' = IF Receiving THEN Append(control, msg) ELSE control

EnterBlock(w) ==
    /\ stage[w] = "ready" /\ run = "on" /\ Receiving
    /\ ReadClock
    /\ stage' = [stage EXCEPT ![w] = "open"]
    /\ start' = [start EXCEPT ![w] = clock']
    /\ Send([type |-> "open", window |-> w])
    /\ UNCHANGED <<stack, log, batch, life, run, ringVars, recorderVars, rings, lost>>

ExitBlock(w) ==
    /\ stage[w] = "open" /\ run = "on" /\ Receiving
    /\ ReadClock
    /\ stage' = [stage EXCEPT ![w] = "waiting"]
    /\ Send([type |-> "dump", window |-> w, end |-> clock'])
    /\ UNCHANGED <<stack, log, batch, life, start, run, ringVars, recorderVars, rings, lost>>

ExitRefused(w) ==
    /\ stage[w] = "open"
    /\ run = "ended" \/ (run = "on" /\ ~Receiving)
    /\ stage' = [stage EXCEPT ![w] = "refused"]
    /\ UNCHANGED <<threadVars, start, run, ringVars, recorderVars, rings, lost, control>>

\* done_rx.recv() finds that the recorder dropped its end.
BlockFails(w) ==
    /\ stage[w] = "waiting" /\ ~Receiving
    /\ stage' = [stage EXCEPT ![w] = "failed"]
    /\ UNCHANGED <<threadVars, start, run, ringVars, recorderVars, rings, lost, control>>

\* monitoring::disable and flush_every_thread: no callback runs any more, and
\* the batches of all threads that are registered go into their rings.
StopThreads ==
    /\ run = "on"
    /\ run' = "off"
    /\ LET fits == {t \in Registered : RoomFor(t)}
       IN  /\ rings' = [t \in Threads |->
                           IF t \in fits THEN rings[t] \o batch[t] ELSE rings[t]]
           /\ lost' = lost \cup UNION {TicksOf(batch[t][1].events) : t \in Registered \ fits}
    /\ batch' = [t \in Threads |-> IF t \in Registered THEN <<>> ELSE batch[t]]
    /\ UNCHANGED <<clock, stack, log, life, stage, start, ringVars, recorderVars, control>>

AskWhole ==
    /\ run = "off"
    /\ run' = "asked"
    /\ ReadClock
    /\ Send([type |-> "dumpall", end |-> clock'])
    /\ UNCHANGED <<stack, log, batch, life, stage, start, ringVars, recorderVars, rings, lost>>

Close ==
    /\ run = "asked"
    /\ run' = "closed"
    /\ UNCHANGED <<threadVars, stage, start, ringVars, recorderVars, rings, lost, control>>

Join ==
    /\ run = "closed" /\ ~Receiving
    /\ run' = "ended"
    /\ UNCHANGED <<threadVars, stage, start, ringVars, recorderVars, rings, lost, control>>

---------------------------------------------------------------------------
(* The history (Ring).                                                      *)

EndTicks(b) == b.events[Len(b.events)].ticks

Bytes(s) == Len(s) * BatchBytes

\* Mutant: only the window that opened last holds the floor.
ProtectedByLast(b, ws) == ws # {} /\ EndTicks(b) >= Max({start[w] : w \in ws})

\* Not before the floor, which is the start of the oldest window.
Protected(b, ws) == \E w \in ws : EndTicks(b) >= start[w]

\* Mutant: no hard limit.
KeptByWindow(s, ws) == Bytes(s) <= CapacityBytes \/ (s # <<>> /\ Protected(s[1], ws))

\* Where the loop of evict_over_capacity stops.
Fits(s, ws) ==
    \/ Bytes(s) <= CapacityBytes
    \/ Len(s) <= 1
    \/ Protected(s[1], ws) /\ Bytes(s) <= 2 * CapacityBytes

Without(s, n) == SubSeq(s, n + 1, Len(s))

Enough(s, ws) == {n \in 0..Len(s) : Fits(Without(s, n), ws)}

\* As few of the oldest batches go as will do; push and set_floor both end here.
Hold(s, ws) ==
    \E n \in Enough(s, ws) :
        /\ \A m \in Enough(s, ws) : n <= m
        /\ history' = Without(s, n)
        /\ horizon' = IF n = 0 THEN horizon ELSE EndTicks(s[n])
        /\ evicted' = evicted \cup UNION {TicksOf(s[i].events) : i \in 1..n}

TakeRing(t) ==
    /\ rings' = [rings EXCEPT ![t] = <<>>]
    /\ Hold(history \o rings[t], windows)

---------------------------------------------------------------------------
(* The slice of a dump (assemble, replay).                                  *)

\* Mutant: a tail that the history has by now counts again.
AnyTail(b) == TRUE

\* A tail whose batch has not come through the ring meanwhile.
FreshTail(b) == ~ \E i \in DOMAIN history : history[i].tid = b.tid /\ history[i].base = b.base

\* All events at hand of a thread.
Stream(t) ==
    LET fresh == SetToSeq({b \in tails : b.tid = t /\ FreshTail(b)})
        atHand == history \o fresh
    IN  FlattenSeq([i \in DOMAIN atHand |-> IF atHand[i].tid = t THEN atHand[i].events ELSE <<>>])

\* Mutant: a close that the dump leaves out does not pop.
AfterOpens(open, e) == IF e.opens THEN Append(open, e) ELSE open

\* The stack of open slices after an event.
After(open, e) ==
    IF e.opens THEN Append(open, e) ELSE IF open = <<>> THEN open ELSE Front(open)

\* The open made up for a close that finds none.
MadeUp(open, e) ==
    IF e.opens \/ open # <<>> THEN <<>>
    ELSE <<[ticks |-> horizon, opens |-> TRUE, frame |-> e.frame]>>

ReplayOne(first, last, acc, e) ==
    IF e.ticks < first THEN [acc EXCEPT !.open = After(@, e)]
    ELSE LET shown == IF acc.begun THEN acc.out ELSE acc.open
         IN  IF acc.over \/ e.ticks > last
             THEN [acc EXCEPT !.out = shown, !.begun = TRUE, !.over = TRUE]
             ELSE [acc EXCEPT !.out = shown \o MadeUp(acc.open, e) \o <<e>>,
                              !.open = After(@, e), !.begun = TRUE]

Replay(stream, first, last) ==
    LET after[i \in 0..Len(stream)] ==
            IF i = 0 THEN [open |-> <<>>, out |-> <<>>, begun |-> FALSE, over |-> FALSE]
            ELSE ReplayOne(first, last, after[i - 1], stream[i])
        end == after[Len(stream)]
    IN  IF end.begun THEN end.out ELSE end.open

\* out.sort_by_key, which is stable: at n the event that n - 1 others go before.
GoesBefore(s, i, j) == s[i].ticks < s[j].ticks \/ (s[i].ticks = s[j].ticks /\ i < j)

Preceding(s, i) == {j \in DOMAIN s : GoesBefore(s, j, i)}

SortedByTicks(s) ==
    [n \in DOMAIN s |-> s[CHOOSE i \in DOMAIN s : Cardinality(Preceding(s, i)) = n - 1]]

First(msg) == IF msg.type = "dump" THEN start[msg.window] ELSE 0

\* What the dump shows of a thread.
Dumped(t) == SortedByTicks(Replay(Stream(t), First(job[1]), job[1].end))

---------------------------------------------------------------------------
(* run_recorder.                                                            *)

\* try_recv finds a message.
HandleOpen ==
    /\ pc = "control" /\ control # <<>> /\ Head(control).type = "open"
    /\ control' = Tail(control)
    /\ windows' = windows \cup {Head(control).window}
    /\ Hold(history, windows')
    /\ UNCHANGED <<threadVars, clientVars, rings, lost, pc, closing, job, tails, written>>

BeginDump ==
    /\ pc = "control" /\ control # <<>> /\ Head(control).type # "open"
    /\ control' = Tail(control)
    /\ job' = <<Head(control)>>
    /\ pc' = "first"
    /\ UNCHANGED <<threadVars, clientVars, ringVars, rings, lost,
                   closing, windows, tails, written>>

\* A step of the recorder that touches nothing others see.
Goes(from, to) ==
    /\ pc = from /\ pc' = to
    /\ UNCHANGED <<threadVars, clientVars, ringVars, rings, lost, control, job, windows, written>>

\* try_recv finds none.
NoMessage ==
    /\ control = <<>>
    /\ Goes("control", IF closing THEN "done" ELSE "drain")
    /\ UNCHANGED <<closing, tails>>

\* Mutants: one pass, whatever it finds; passes until no thread has a batch.
OnePass == TRUE
NothingAnywhere == \A t \in Threads : rings[t] = <<>> /\ batch[t] = <<>>

\* A pass that finds every ring empty: they were all empty when it began, since
\* the recorder alone takes from them.
RingsEmpty == \A t \in Threads : rings[t] = <<>>

\* absorb(DRAIN_LIMIT).
Drain(t) ==
    /\ pc = "drain" /\ rings[t] # <<>>
    /\ TakeRing(t)
    /\ pc' = "control"
    /\ UNCHANGED <<threadVars, clientVars, lost, control, closing, job, windows, tails, written>>

NothingDrained ==
    /\ RingsEmpty
    /\ Goes("drain", "check")
    /\ UNCHANGED <<closing, tails>>

QueueClosed == run \in {"closed", "ended"}

\* Mutant: the recorder leaves as soon as the queue is closed.
LeaveAtOnce ==
    /\ Goes("check", IF QueueClosed THEN "done" ELSE "control")
    /\ UNCHANGED <<closing, tails>>

\* is_closed is read after the pass: what Tracer::end flushed in between is for
\* absorb_all.
CheckClosed ==
    /\ Goes("check", IF QueueClosed THEN "last" ELSE "control")
    /\ closing' = (pc' = "last")
    /\ UNCHANGED tails

\* absorb_all, and absorb between the chunks of a dump.
Absorb(t) ==
    /\ pc \in {"first", "again", "write", "settle", "last"} /\ rings[t] # <<>>
    /\ TakeRing(t)
    /\ UNCHANGED <<threadVars, clientVars, lost, control, recorderVars>>

ReadTails ==
    /\ RingsEmpty
    /\ Goes("first", "again")
    /\ tails' = {batch[t][1] : t \in Registered}
    /\ UNCHANGED closing

\* assemble; the slice is Dumped.
Assemble ==
    /\ RingsEmpty
    /\ Goes("again", "write")
    /\ tails' = {}
    /\ UNCHANGED closing

\* finish, then the window is closed; with the windows as they were, Hold keeps
\* all.  The recycle floor that follows empties the rings.
Written ==
    /\ pc = "write"
    /\ pc' = "settle"
    /\ written' = written \cup {IF job[1].type = "dump" THEN job[1].window ELSE Whole}
    /\ windows' = (IF job[1].type = "dump" THEN windows \ {job[1].window} ELSE windows)
    /\ Hold(history, windows')
    /\ UNCHANGED <<threadVars, clientVars, rings, lost, control, closing, job, tails>>

Reply ==
    /\ pc = "settle" /\ RingsEmpty
    /\ pc' = "control"
    /\ IF job[1].type = "dump" THEN stage' = [stage EXCEPT ![job[1].window] = "done"]
       ELSE UNCHANGED stage
    /\ job' = <<>>
    /\ UNCHANGED <<threadVars, start, run, ringVars, rings, lost, control,
                   closing, windows, tails, written>>

LastAbsorbed ==
    /\ RingsEmpty
    /\ Goes("last", "control")
    /\ UNCHANGED <<closing, tails>>

\* The file cannot be created or written: run_recorder returns.
Die ==
    /\ MayFail /\ pc = "write"
    /\ pc' = "dead"
    /\ control' = <<>> /\ job' = <<>> /\ windows' = {} /\ history' = <<>>
    /\ UNCHANGED <<threadVars, clientVars, horizon, evicted, rings, lost,
                   closing, tails, written>>

Recorder ==
    \/ HandleOpen \/ BeginDump \/ NoMessage \/ NothingDrained \/ CheckClosed
    \/ ReadTails \/ Assemble \/ Written \/ Reply \/ LastAbsorbed \/ Die
    \/ \E t \in Threads : Drain(t) \/ Absorb(t)

Ended == run = "ended" /\ UNCHANGED vars

Next ==
    \/ \E t \in Threads : Enter(t) \/ Leave(t) \/ Forget(t) \/ FlushAtExit(t)
    \/ \E w \in Windows : EnterBlock(w) \/ ExitBlock(w) \/ ExitRefused(w) \/ BlockFails(w)
    \/ StopThreads \/ AskWhole \/ Close \/ Join
    \/ Recorder
    \/ Ended

Spec == Init /\ [][Next]_vars

\* The recorder's thread runs, and a block whose recorder is gone is woken.
FairSpec ==
    /\ Spec
    /\ WF_vars(Recorder)
    /\ \A w \in Windows : WF_vars(BlockFails(w))

---------------------------------------------------------------------------
ThreadTypes ==
    /\ clock \in 0..MaxTicks
    /\ stack \in [Threads -> Seq(Frames)]
    /\ log \in [Threads -> Seq(Events)]
    /\ batch \in [Threads -> Seq(Batches)] /\ \A t \in Threads : Len(batch[t]) <= 1
    /\ life \in [Threads -> {"alive", "forgotten", "exited"}]

QueueTypes ==
    /\ rings \in [Threads -> Seq(Batches)] /\ \A t \in Threads : Len(rings[t]) <= RingCap
    /\ lost \subseteq 1..MaxTicks

ClientTypes ==
    /\ run \in {"on", "off", "asked", "closed", "ended"}
    /\ stage \in [Windows -> {"ready", "open", "waiting", "done", "failed", "refused"}]
    /\ start \in [Windows -> 0..MaxTicks]

RingTypes ==
    /\ history \in Seq(Batches) /\ horizon \in 0..MaxTicks
    /\ evicted \subseteq 1..MaxTicks

RecorderTypes ==
    /\ control \in Seq(Messages)
    /\ pc \in {"control", "drain", "check", "first", "again", "write", "settle", "last", "done", "dead"}
    /\ closing \in BOOLEAN
    /\ job \in Seq(Messages) /\ Len(job) <= 1
    /\ windows \subseteq Windows
    /\ tails \subseteq Batches
    /\ written \subseteq Windows \cup {Whole}

TypeOK == ThreadTypes /\ QueueTypes /\ ClientTypes /\ RingTypes /\ RecorderTypes

---------------------------------------------------------------------------
(* What a dump must show.                                                   *)

Assembling == pc = "again" /\ RingsEmpty

Within(e) == First(job[1]) <= e.ticks /\ e.ticks <= job[1].end

\* The events of t that a dump can still have.
Kept(t) == {log[t][i] : i \in {j \in DOMAIN log[t] : log[t][j].ticks \notin evicted}}

Closed(e, until) == \E c \in until : ~c.opens /\ c.frame = e.frame

\* The frames open at the start, then the events inside, and an open at the
\* horizon for each frame that is closed inside and was opened before what is kept.
Slice(t) ==
    LET before == {e \in Kept(t) : e.ticks < First(job[1])}
        within == {e \in Kept(t) : Within(e)}
        orphans == {c \in within : ~c.opens /\ ~ \E e \in Kept(t) : e.opens /\ e.frame = c.frame}
    IN  {e \in before : e.opens /\ ~Closed(e, before)}
            \cup within
            \cup {[ticks |-> horizon, opens |-> TRUE, frame |-> c.frame] : c \in orphans}

\* A batch of t was evicted while its tail was at hand.
Outlived(t) == \E b \in tails : b.tid = t /\ TicksOf(b.events) \cap evicted # {}

\* Threads that are out of RECORDERS but whose last batch is in no ring yet.
InExit == {t \in Threads : life[t] = "forgotten"}

Whose(t) == {log[t][i].ticks : i \in DOMAIN log[t]}

\* A dump holds every event that its window spans, however the batch that the
\* event is in moves from the thread through its ring into the history
\* meanwhile (dump in recorder.rs), unless a full ring or the history's limit
\* has taken it or its thread was in the middle of its exit.
DumpIsComplete ==
    Assembling => \A t \in Threads \ InExit :
        LET shown == Dumped(t)
        IN  \A e \in Kept(t) :
                Within(e) /\ e.ticks \notin lost => \E i \in DOMAIN shown : shown[i] = e

\* A dump of a thread that lost no batch is the slice of what is kept of it,
\* nothing twice, in order (assemble and replay in snapshot.rs).  Left out is a
\* thread whose tail has been shipped and evicted since it was read.
DumpIsFaithful ==
    Assembling => \A t \in Threads \ InExit :
        Whose(t) \cap lost = {} /\ ~Outlived(t) =>
            LET shown == Dumped(t)
            IN  /\ {shown[i] : i \in DOMAIN shown} = Slice(t)
                /\ Len(shown) = Cardinality(Slice(t))
                /\ \A i, j \in DOMAIN shown : i < j => shown[i].ticks <= shown[j].ticks

\* Whatever was lost, evicted or read as a tail too early, a dump invents nothing:
\* it shows no event twice, none from outside its window but the opens of the frames
\* it begins in, and makes opens up at the horizon only (assemble in snapshot.rs).
DumpInventsNothing ==
    Assembling => \A t \in Threads :
        LET shown == Dumped(t)
            recorded == {log[t][i] : i \in DOMAIN log[t]}
        IN  \A i \in DOMAIN shown :
                /\ shown[i] \in recorded \/ (shown[i].opens /\ shown[i].ticks = horizon)
                /\ shown[i] \in recorded => Within(shown[i]) \/ shown[i].opens
                /\ \A j \in DOMAIN shown : shown[i] = shown[j] => i = j

\* The history never holds more than twice its capacity, or one batch.
HistoryBounded == Bytes(history) <= 2 * CapacityBytes \/ Len(history) <= 1

\* While a window is open the history gives up an event of it only when it and
\* what has just come in are beyond twice the capacity, and the oldest of several
\* open windows decides (refloor in recorder.rs, evict_over_capacity in ring.rs).
WindowsKept ==
    [][\A w \in windows \cap windows' :
         (\E x \in evicted' \ evicted : x >= start[w]) =>
             \E t \in Threads : Bytes(history \o rings[t]) > 2 * CapacityBytes]_vars

\* A run ends with a dump, and with an answer to every block that asked, unless a
\* file failed (Tracer::end against the last round of run_recorder).
RunEndsWithDump ==
    pc = "done" =>
        /\ Whole \in written
        /\ \A w \in Windows : stage[w] \notin {"waiting", "failed"}

\* A block that waits for its dump gets it, or an error: it is never left waiting.
SnapshotAnswered == \A w \in Windows : stage[w] = "waiting" ~> stage[w] \in {"done", "failed"}

\* In what a dump shows of a thread, no slice closes that was not opened.
Balanced ==
    Assembling => \A t \in Threads :
        LET shown == Dumped(t)
            opened(n) == {i \in 1..n : shown[i].opens}
        IN  \A n \in DOMAIN shown : 2 * Cardinality(opened(n)) >= n

=============================================================================
