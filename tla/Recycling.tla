----------------------------- MODULE Recycling -----------------------------
(***************************************************************************)
(* When the flight recorder lets a code id be used again                   *)
(* (update_recycle_floor in crates/core/src/recorder.rs), beside the       *)
(* callbacks that file events under ids (CodeIds).  An event names its     *)
(* code object by id until a dump resolves it: in its thread's batch, in   *)
(* the thread's ring and in the history.  The floor that the recorder sets *)
(* must stay at or below the base of every batch on that way.              *)
(*                                                                         *)
(* Abstracted: the recorder reads a whole tail at once (TailRead shows     *)
(* that it may be taken so), a batch may be shipped at any length (a delta *)
(* overflow), and how much the history evicts is left open, since that     *)
(* depends on bytes and on open windows.                                   *)
(***************************************************************************)
EXTENDS CodeIds, Functions

CONSTANTS BatchN,        \* events per batch
          RingCap,       \* batches per thread's ring
          Exits          \* threads that may exit

ASSUME RecyclingAssumption ==
    BatchN \in Nat \ {0} /\ RingCap \in Nat \ {0} /\ Exits \subseteq Threads

VARIABLES
    batch,         \* batch[t]: the batch of t, as a sequence of at most one
    rings,         \* rings[t]: batches between t and the recorder
    history,       \* Recorder.ring, oldest first
    life,          \* life[t]: "alive", "forgotten" by RECORDERS, "exited"
    phase,         \* where the recorder stands: "idle", "tails", "absorb"
    now,           \* update_recycle_floor's clock reading
    left,          \* threads the current pass has not visited
    tails,         \* the batches read_tails brought back
    overlooked     \* history: threads whose batch a pass found nowhere

queueVars == <<batch, rings>>
recorderVars == <<history, phase, now, left, tails>>
vars == <<idVars, batch, rings, history, life, phase, now, left, tails, overlooked>>

Batches == [tid : Threads, base : 1..MaxTicks, events : Seq([id : Ids, code : Codes])]

Init ==
    /\ IdsInit
    /\ batch = [t \in Threads |-> <<>>]
    /\ rings = [t \in Threads |-> <<>>]
    /\ history = <<>>
    /\ life = [t \in Threads |-> "alive"]
    /\ phase = "idle"
    /\ now = 0
    /\ left = {}
    /\ tails = {}
    /\ overlooked = {}

---------------------------------------------------------------------------
(* push_with_ctx: into the batch, into a first batch, or into a new one.    *)

\* Mutant: one batch more than the ring has slots.
RoomForOneMore(t) == Len(rings[t]) <= RingCap

RoomFor(t) == Len(rings[t]) < RingCap

\* The thread's batch in its ring, or nowhere if that is full.
Shipped(t) == IF RoomFor(t) THEN [rings EXCEPT ![t] = @ \o batch[t]] ELSE rings

NewBatch(t, ticks, e) == <<[tid |-> t, base |-> ticks, events |-> <<e>>]>>

\* read_tails holds the lock that the first push of a thread and an exit take.
RecordersFree == phase # "tails"

Push(t, ticks, e) ==
    \/ /\ batch[t] # <<>> /\ Len(batch[t][1].events) < BatchN
       /\ batch' = [batch EXCEPT ![t] = <<[batch[t][1] EXCEPT !.events = Append(@, e)]>>]
       /\ UNCHANGED rings
    \/ /\ batch[t] = <<>> /\ RecordersFree
       /\ batch' = [batch EXCEPT ![t] = NewBatch(t, ticks, e)]
       /\ UNCHANGED rings
    \/ /\ batch[t] # <<>>
       /\ batch' = [batch EXCEPT ![t] = NewBatch(t, ticks, e)]
       /\ rings' = Shipped(t)

\* record for a callback whose id is at hand.
RecordLast(t, k) ==
    /\ life[t] = "alive"
    /\ \E id \in Ids : UseLast(t, k, Event(k, id)) /\ Push(t, clock', Event(k, id))
    /\ UNCHANGED <<recorderVars, life, overlooked>>

\* record through resolve_cold, that finds an id and pushes, or returns.
FileOrSkip(t, k, ticks, gen) ==
    /\ \/ \E id \in Ids :
            /\ ResolveTo(t, k, gen, id)
            /\ Filed(t, Event(k, id))
            /\ Push(t, ticks, Event(k, id))
            /\ UNCHANGED refused
       \/ ResolveToNone(t, k, gen) /\ UNCHANGED queueVars
    /\ UNCHANGED <<recorderVars, life, overlooked>>

Record(t, k) ==
    /\ life[t] = "alive"
    /\ NoNameNeeded(t, k)
    /\ FileOrSkip(t, k, clock', generation)

BeginRecord(t, k) ==
    /\ life[t] = "alive"
    /\ LookUpName(t, k)
    /\ UNCHANGED <<queueVars, recorderVars, life, overlooked>>

EndRecord(c) ==
    /\ NameLookedUp(c)
    /\ FileOrSkip(c.thread, c.key, c.ticks, c.gen)

CodeDies(k) ==
    /\ Destroy(k)
    /\ UNCHANGED <<queueVars, recorderVars, life, overlooked>>

---------------------------------------------------------------------------
(* Cold::drop: out of RECORDERS first, then the last batch into the ring.   *)

Forget(t) ==
    /\ t \in Exits /\ life[t] = "alive" /\ Idle(t) /\ RecordersFree
    /\ life' = [life EXCEPT ![t] = "forgotten"]
    /\ UNCHANGED <<idVars, queueVars, recorderVars, overlooked>>

FlushAtExit(t) ==
    /\ life[t] = "forgotten"
    /\ life' = [life EXCEPT ![t] = "exited"]
    /\ rings' = Shipped(t)
    /\ batch' = [batch EXCEPT ![t] = <<>>]
    /\ UNCHANGED <<idVars, recorderVars, overlooked>>

---------------------------------------------------------------------------
(* The recorder.                                                            *)

Registered == {t \in Threads : life[t] = "alive" /\ batch[t] # <<>>}

\* A ring's batches move to the history, and the oldest of it may be evicted,
\* never the newest.
TakeRing(t) ==
    LET all == history \o rings[t]
    IN  /\ rings' = [rings EXCEPT ![t] = <<>>]
        /\ \E first \in 1..(IF all = <<>> THEN 1 ELSE Len(all)) :
             history' = SubSeq(all, first, Len(all))

\* absorb: in the loop of run_recorder, and wherever a dump calls it.
Absorb(t) ==
    /\ phase = "idle" /\ rings[t] # <<>>
    /\ TakeRing(t)
    /\ UNCHANGED <<idVars, batch, life, phase, now, left, tails, overlooked>>

\* update_recycle_floor: the clock, which may show the same tick as to whoever
\* read it before, then RECORDERS.lock().
BeginFloor ==
    /\ phase' = "tails"
    /\ left' = Registered /\ tails' = {}
    /\ clock' \in {clock, clock + 1} /\ clock' <= MaxTicks
    /\ now' = clock'

StartFloor ==
    /\ phase = "idle"
    /\ BeginFloor
    /\ UNCHANGED <<objectVars, internerVars, generation, cacheVars, call, floor, refused, misfiled,
                   queueVars, history, life, overlooked>>

ReadTail(t) ==
    /\ phase = "tails" /\ t \in left
    /\ tails' = tails \cup {batch[t][1]}
    /\ left' = left \ {t}
    /\ UNCHANGED <<idVars, queueVars, history, life, phase, now, overlooked>>

EndTails ==
    /\ phase = "tails" /\ left = {}
    /\ phase' = "absorb"
    /\ left' = Threads
    /\ UNCHANGED <<idVars, queueVars, history, life, now, tails, overlooked>>

\* absorb_all: it ends with a drain that visited every ring.
AbsorbAll(t) ==
    /\ phase = "absorb" /\ t \in left
    /\ TakeRing(t)
    /\ left' = left \ {t}
    /\ overlooked' = IF life[t] = "forgotten" THEN overlooked \cup {t} ELSE overlooked
    /\ UNCHANGED <<idVars, batch, life, phase, now, tails>>

\* Mutant: the floor without the tails.
BasesInHistory == {now} \cup {history[i].base : i \in DOMAIN history}

\* What the recycle floor may not exceed.
Bases == {now} \cup {b.base : b \in tails} \cup {history[i].base : i \in DOMAIN history}

SetFloor ==
    /\ phase = "absorb" /\ left = {}
    /\ floor' = Min(Bases)
    /\ phase' = "idle" /\ tails' = {} /\ now' = 0
    /\ UNCHANGED <<clock, objectVars, internerVars, generation, cacheVars, call, refused, misfiled,
                   queueVars, history, life, left, overlooked>>

Next ==
    \/ \E k \in Keys : CodeDies(k)
    \/ \E t \in Threads, k \in Keys : RecordLast(t, k) \/ Record(t, k) \/ BeginRecord(t, k)
    \/ \E c \in call : EndRecord(c)
    \/ \E t \in Threads : Forget(t) \/ FlushAtExit(t)
    \/ \E t \in Threads : Absorb(t) \/ ReadTail(t) \/ AbsorbAll(t)
    \/ StartFloor \/ EndTails \/ SetFloor

Spec == Init /\ [][Next]_vars

---------------------------------------------------------------------------
QueueTypes ==
    /\ batch \in [Threads -> Seq(Batches)] /\ \A t \in Threads : Len(batch[t]) <= 1
    /\ rings \in [Threads -> Seq(Batches)] /\ \A t \in Threads : Len(rings[t]) <= RingCap
    /\ life \in [Threads -> {"alive", "forgotten", "exited"}]

RecorderTypes ==
    /\ history \in Seq(Batches)
    /\ phase \in {"idle", "tails", "absorb"}
    /\ now \in 0..MaxTicks
    /\ left \subseteq Threads
    /\ tails \subseteq Batches
    /\ overlooked \subseteq Threads

TypeOK == IdTypes /\ QueueTypes /\ RecorderTypes

\* The batches whose events a dump may yet name.
Unresolved ==
    Range(history) \cup UNION {Range(batch[t]) \cup Range(rings[t]) : t \in Threads}

Named(b) == \A i \in DOMAIN b.events : info[b.events[i].id] = b.events[i].code

\* An event keeps its name for as long as a dump may write it: no id is given
\* to another code object while an event under it is in a batch, in a ring or in
\* the history (update_recycle_floor).  Left out are threads that
\* filed an event under another name, and threads that were between the two
\* steps of an exit while the floor was taken.
NamesKept == \A b \in Unresolved : b.tid \notin misfiled \cup overlooked => Named(b)

=============================================================================
