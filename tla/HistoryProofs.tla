--------------------------- MODULE HistoryProofs ---------------------------
(***************************************************************************)
(* What is proved of History, for every number of threads and of snapshot  *)
(* blocks, every batch, ring and history size and every set of windows.    *)
(***************************************************************************)
EXTENDS History, SequenceLemmas, FiniteSetTheorems

\* A thread leaves RECORDERS with a batch that is still to be shipped.
ForgottenHasBatch == \A t \in Threads : life[t] = "forgotten" => batch[t] # <<>>

\* The recorder has a dump to work on exactly from its first absorb to its reply.
JobInHand ==
    IF pc \in {"first", "again", "write", "settle"}
    THEN Len(job) = 1 /\ job[1].type \in {"dump", "dumpall"}
    ELSE job = <<>>

---------------------------------------------------------------------------
(* The history.                                                             *)

LEMMA BatchEnds ==
  ASSUME NEW b \in Batches
  PROVE  EndTicks(b) \in 1..MaxTicks /\ TicksOf(b.events) \subseteq 1..MaxTicks
  <1>1. b.events \in Seq(Events) /\ b.events # <<>>
    BY DEF Batches
  <1>2. Len(b.events) \in DOMAIN b.events
    BY <1>1, EmptySeq, LenProperties
  <1>3. \A i \in DOMAIN b.events : b.events[i].ticks \in 1..MaxTicks
    <2> TAKE i \in DOMAIN b.events
    <2>1. b.events[i] \in Events
      BY <1>1, ElementOfSeq, LenProperties
    <2>2. QED
      BY <2>1 DEF Events
  <1>4. QED
    BY <1>2, <1>3 DEF EndTicks, TicksOf

\* Wherever eviction stops, what is left fits.
LEMMA HoldKeeps ==
  ASSUME RingTypes, NEW s \in Seq(Batches), NEW ws, Hold(s, ws)
  PROVE  RingTypes' /\ HistoryBounded'
  <1> USE HistoryAssumption DEF RingTypes
  <1>1. PICK n \in Enough(s, ws) :
          /\ history' = Without(s, n)
          /\ horizon' = IF n = 0 THEN horizon ELSE EndTicks(s[n])
          /\ evicted' = evicted \cup UNION {TicksOf(s[i].events) : i \in 1..n}
    BY DEF Hold
  <1>2. n \in 0..Len(s) /\ Len(s) \in Nat /\ Fits(Without(s, n), ws)
    BY <1>1, LenProperties DEF Enough
  <1>3. \A i \in 1..n : s[i] \in Batches
    BY <1>2, ElementOfSeq
  <1>4. history' \in Seq(Batches)
    BY <1>1, <1>2, SubSeqProperties DEF Without
  <1>5. horizon' \in 0..MaxTicks
    <2>1. CASE n = 0
      BY <1>1, <2>1
    <2>2. CASE n # 0
      BY <1>1, <1>2, <1>3, <2>2, BatchEnds
    <2>3. QED
      BY <2>1, <2>2
  <1>6. evicted' \subseteq 1..MaxTicks
    BY <1>1, <1>3, BatchEnds
  <1>7. HistoryBounded'
    <2>1. Len(history') \in Nat
      BY <1>4, LenProperties
    <2>2. Bytes(history') \in Nat
      BY <2>1 DEF Bytes
    <2>3. Fits(history', ws)
      BY <1>1, <1>2
    <2>4. QED
      BY <2>2, <2>3 DEF Fits, HistoryBounded, Bytes
  <1>8. QED
    BY <1>4, <1>5, <1>6, <1>7

LEMMA TakeRingKeeps ==
  ASSUME RingTypes, QueueTypes, NEW t \in Threads, TakeRing(t)
  PROVE  RingTypes' /\ HistoryBounded' /\ rings' = [rings EXCEPT ![t] = <<>>]
  <1>1. history \o rings[t] \in Seq(Batches)
    BY ConcatProperties DEF RingTypes, QueueTypes
  <1>2. QED
    BY <1>1, HoldKeeps DEF TakeRing

---------------------------------------------------------------------------
(* Types.                                                                   *)

LEMMA OneBatch ==
  ASSUME NEW s \in Seq(Batches), Len(s) <= 1, s # <<>>
  PROVE  Len(s) = 1 /\ s[1] \in Batches
  <1>1. Len(s) \in Nat /\ Len(s) # 0
    BY EmptySeq, LenProperties
  <1>2. Len(s) = 1
    BY <1>1
  <1>3. 1 \in 1..Len(s)
    BY <1>2
  <1>4. QED
    BY <1>2, <1>3, ElementOfSeq

LEMMA BatchReplaced ==
  ASSUME ThreadTypes, NEW t \in Threads, NEW s \in Seq(Batches), Len(s) <= 1,
         batch' = [batch EXCEPT ![t] = s]
  PROVE  batch' \in [Threads -> Seq(Batches)] /\ \A u \in Threads : Len(batch'[u]) <= 1
  <1>1. batch' \in [Threads -> Seq(Batches)]
    BY DEF ThreadTypes
  <1>2. ASSUME NEW u \in Threads PROVE Len(batch'[u]) <= 1
    <2>1. batch'[u] = IF u = t THEN s ELSE batch[u]
      BY DEF ThreadTypes
    <2>2. QED
      BY <2>1 DEF ThreadTypes
  <1>3. QED
    BY <1>1, <1>2

LEMMA ShipTypes ==
  ASSUME ThreadTypes, QueueTypes, NEW t \in Threads, batch[t] # <<>>, Ship(t)
  PROVE  QueueTypes'
  <1> USE HistoryAssumption DEF ThreadTypes, QueueTypes
  <1>1. Len(batch[t]) = 1 /\ batch[t][1] \in Batches
    BY OneBatch
  <1>2. TicksOf(batch[t][1].events) \subseteq 1..MaxTicks
    BY <1>1, BatchEnds
  <1>3. lost' \subseteq 1..MaxTicks
    BY <1>2 DEF Ship
  <1>4. rings[t] \o batch[t] \in Seq(Batches) /\ Len(rings[t] \o batch[t]) = Len(rings[t]) + 1
    BY <1>1, ConcatProperties
  <1>5. rings' \in [Threads -> Seq(Batches)] /\ \A u \in Threads : Len(rings'[u]) <= RingCap
    <2>1. CASE RoomFor(t)
      <3>1. rings' = [rings EXCEPT ![t] = rings[t] \o batch[t]]
        BY <2>1 DEF Ship
      <3>2. Len(rings[t]) + 1 <= RingCap
        BY <2>1, LenProperties DEF RoomFor
      <3>3. QED
        BY <1>4, <3>1, <3>2
    <2>2. CASE ~RoomFor(t)
      BY <2>2 DEF Ship
    <2>3. QED
      BY <2>1, <2>2
  <1>6. QED
    BY <1>3, <1>5

LEMMA LongerBatch ==
  ASSUME NEW b \in Batches, NEW e \in Events
  PROVE  [b EXCEPT !.events = Append(@, e)] \in Batches
  <1>1. b.events \in Seq(Events)
    BY DEF Batches
  <1>2. Append(b.events, e) \in Seq(Events)
    BY <1>1, AppendProperties
  <1>3. Append(b.events, e) # <<>>
    BY <1>1, AppendProperties
  <1>4. QED
    BY <1>2, <1>3 DEF Batches

LEMMA PushTypes ==
  ASSUME ThreadTypes, QueueTypes, NEW t \in Threads, NEW e \in Events, Push(t, e)
  PROVE  /\ batch' \in [Threads -> Seq(Batches)] /\ \A u \in Threads : Len(batch'[u]) <= 1
         /\ QueueTypes'
  <1> USE DEF ThreadTypes
  <1>1. BatchOf(t, e) \in Seq(Batches) /\ Len(BatchOf(t, e)) <= 1
    <2>1. <<e>> \in Seq(Events) \ {<<>>}
      OBVIOUS
    <2>2. e.ticks \in 1..MaxTicks
      BY DEF Events
    <2>3. [tid |-> t, base |-> e.ticks, events |-> <<e>>] \in Batches
      BY <2>1, <2>2 DEF Batches
    <2>4. QED
      BY <2>3 DEF BatchOf
  <1>2. CASE batch' = [batch EXCEPT ![t] = BatchOf(t, e)]
    <2>1. batch' \in [Threads -> Seq(Batches)] /\ \A u \in Threads : Len(batch'[u]) <= 1
      BY <1>1, <1>2, BatchReplaced
    <2>2. CASE UNCHANGED <<rings, lost>>
      BY <2>1, <2>2 DEF QueueTypes
    <2>3. CASE batch[t] # <<>> /\ Ship(t)
      BY <2>1, <2>3, ShipTypes
    <2>4. QED
      BY <1>2, <2>2, <2>3 DEF Push
  <1>3. CASE /\ batch[t] # <<>>
             /\ batch' = [batch EXCEPT ![t][1].events = Append(@, e)]
             /\ UNCHANGED <<rings, lost>>
    <2>1. Len(batch[t]) = 1 /\ batch[t][1] \in Batches
      BY <1>3, OneBatch
    <2> DEFINE longer == [batch[t][1] EXCEPT !.events = Append(@, e)]
    <2>2. longer \in Batches
      BY <2>1, LongerBatch
    <2>3. batch' = [batch EXCEPT ![t] = [batch[t] EXCEPT ![1] = longer]]
      BY <1>3
    <2> HIDE DEF longer
    <2>4. [batch[t] EXCEPT ![1] = longer] \in Seq(Batches)
          /\ Len([batch[t] EXCEPT ![1] = longer]) <= 1
      <3>1. 1 \in 1..Len(batch[t]) /\ batch[t] \in Seq(Batches)
        BY <2>1
      <3>2. Len([batch[t] EXCEPT ![1] = longer]) = Len(batch[t])
        BY <2>2, <3>1, ExceptSeq
      <3>3. [batch[t] EXCEPT ![1] = longer] \in Seq(Batches)
        BY <2>2, <3>1, ExceptSeq
      <3>4. QED
        BY <2>1, <3>2, <3>3
    <2>5. batch' \in [Threads -> Seq(Batches)] /\ \A u \in Threads : Len(batch'[u]) <= 1
      BY <2>3, <2>4, BatchReplaced
    <2>6. QED
      BY <1>3, <2>5 DEF QueueTypes
  <1>4. QED
    BY <1>2, <1>3 DEF Push

LEMMA RecordTypes ==
  ASSUME TypeOK, NEW t \in Threads, NEW e \in Events, Record(t, e),
         stack' \in [Threads -> Seq(Frames)]
  PROVE  TypeOK'
  <1> USE DEF TypeOK
  <1>1. /\ batch' \in [Threads -> Seq(Batches)] /\ \A u \in Threads : Len(batch'[u]) <= 1
        /\ QueueTypes'
    BY PushTypes DEF Record
  <1>2. clock' \in 0..MaxTicks
    BY DEF Record, Events
  <1>3. log' \in [Threads -> Seq(Events)]
    BY AppendProperties DEF Record, ThreadTypes
  <1>4. ThreadTypes'
    BY <1>1, <1>2, <1>3 DEF Record, ThreadTypes
  <1>5. ClientTypes' /\ RingTypes' /\ RecorderTypes'
    BY DEF Record, clientVars, ringVars, recorderVars, ClientTypes, RingTypes, RecorderTypes
  <1>6. QED
    BY <1>1, <1>4, <1>5

LEMMA FlushAtExitTypes ==
  ASSUME TypeOK, ForgottenHasBatch, NEW t \in Threads, FlushAtExit(t)
  PROVE  TypeOK'
  <1> USE DEF TypeOK
  <1>1. batch[t] # <<>>
    BY DEF FlushAtExit, ForgottenHasBatch
  <1>2. QueueTypes'
    BY <1>1, ShipTypes DEF FlushAtExit
  <1>3. batch' \in [Threads -> Seq(Batches)] /\ \A u \in Threads : Len(batch'[u]) <= 1
    <2>1. <<>> \in Seq(Batches) /\ Len(<<>>) <= 1
      OBVIOUS
    <2>2. QED
      BY <2>1, BatchReplaced DEF FlushAtExit
  <1>4. ThreadTypes'
    BY <1>3 DEF FlushAtExit, ThreadTypes
  <1>5. ClientTypes' /\ RingTypes' /\ RecorderTypes'
    BY DEF FlushAtExit, clientVars, ringVars, recorderVars, ClientTypes, RingTypes, RecorderTypes
  <1>6. QED
    BY <1>2, <1>4, <1>5

LEMMA ThreadStepTypes ==
  ASSUME TypeOK, ForgottenHasBatch, NEW t \in Threads,
         Enter(t) \/ Leave(t) \/ Forget(t) \/ FlushAtExit(t)
  PROVE  TypeOK'
  <1> USE HistoryAssumption DEF TypeOK
  <1>1. CASE Enter(t)
    <2>1. clock + 1 \in 1..MaxTicks
      BY <1>1 DEF Enter, Record, ThreadTypes
    <2>2. [ticks |-> clock + 1, opens |-> TRUE, frame |-> clock + 1] \in Events
      BY <2>1 DEF Events, Frames
    <2>3. <<clock + 1>> \o stack[t] \in Seq(Frames)
      BY <2>1, ConcatProperties DEF ThreadTypes, Frames
    <2>4. stack' \in [Threads -> Seq(Frames)]
      BY <1>1, <2>3 DEF Enter, ThreadTypes
    <2>5. QED
      BY <1>1, <2>2, <2>4, RecordTypes DEF Enter
  <1>2. CASE Leave(t)
    <2>1. clock + 1 \in 1..MaxTicks
      BY <1>2 DEF Leave, Record, ThreadTypes
    <2>2. Head(stack[t]) \in Frames /\ Tail(stack[t]) \in Seq(Frames)
      BY <1>2, HeadTailProperties DEF Leave, ThreadTypes
    <2>3. [ticks |-> clock + 1, opens |-> FALSE, frame |-> Head(stack[t])] \in Events
      BY <2>1, <2>2 DEF Events
    <2>4. stack' \in [Threads -> Seq(Frames)]
      BY <1>2, <2>2 DEF Leave, ThreadTypes
    <2>5. QED
      BY <1>2, <2>3, <2>4, RecordTypes DEF Leave
  <1>3. CASE Forget(t)
    <2>1. ThreadTypes'
      BY <1>3 DEF Forget, ThreadTypes
    <2>2. QueueTypes' /\ ClientTypes' /\ RingTypes' /\ RecorderTypes'
      BY <1>3 DEF Forget, clientVars, ringVars, recorderVars,
         QueueTypes, ClientTypes, RingTypes, RecorderTypes
    <2>3. QED
      BY <2>1, <2>2
  <1>4. CASE FlushAtExit(t)
    BY <1>4, FlushAtExitTypes
  <1>5. QED
    BY <1>1, <1>2, <1>3, <1>4

\* Every message is one of the three that the channel carries.
LEMMA SendTypes ==
  ASSUME RecorderTypes, NEW m \in Messages, Send(m)
  PROVE  control' \in Seq(Messages)
  BY AppendProperties DEF Send, RecorderTypes

LEMMA ClientStepTypes ==
  ASSUME TypeOK, NEW w \in Windows,
         EnterBlock(w) \/ ExitBlock(w) \/ ExitRefused(w) \/ BlockFails(w)
  PROVE  TypeOK'
  <1> USE DEF TypeOK
  <1>1. clock' \in 0..MaxTicks
    BY DEF EnterBlock, ExitBlock, ExitRefused, BlockFails, ReadClock, threadVars, ThreadTypes
  <1>2. ThreadTypes' /\ QueueTypes' /\ RingTypes'
    BY <1>1 DEF EnterBlock, ExitBlock, ExitRefused, BlockFails, threadVars, ringVars,
       ThreadTypes, QueueTypes, RingTypes
  <1>3. ClientTypes'
    BY <1>1 DEF EnterBlock, ExitBlock, ExitRefused, BlockFails, ClientTypes
  <1>4. control' \in Seq(Messages)
    <2>1. [type |-> "open", window |-> w] \in Messages
      BY DEF Messages
    <2>2. [type |-> "dump", window |-> w, end |-> clock'] \in Messages
      BY <1>1 DEF Messages
    <2>3. QED
      BY <2>1, <2>2, SendTypes DEF EnterBlock, ExitBlock, ExitRefused, BlockFails, RecorderTypes
  <1>5. RecorderTypes'
    BY <1>4 DEF EnterBlock, ExitBlock, ExitRefused, BlockFails, recorderVars, RecorderTypes
  <1>6. QED
    BY <1>2, <1>3, <1>5

LEMMA StopThreadsTypes ==
  ASSUME TypeOK, StopThreads
  PROVE  TypeOK'
  <1> USE HistoryAssumption DEF TypeOK
  <1> DEFINE fits == {t \in Registered : RoomFor(t)}
  <1>1. batch' \in [Threads -> Seq(Batches)] /\ \A t \in Threads : Len(batch'[t]) <= 1
    BY DEF StopThreads, ThreadTypes
  <1>2. ASSUME NEW t \in Registered
        PROVE  Len(batch[t]) = 1 /\ TicksOf(batch[t][1].events) \subseteq 1..MaxTicks
    <2>1. Len(batch[t]) = 1 /\ batch[t][1] \in Batches
      BY OneBatch DEF Registered, ThreadTypes
    <2>2. QED
      BY <2>1, BatchEnds
  <1>3. lost' \subseteq 1..MaxTicks
    BY <1>2 DEF StopThreads, QueueTypes
  <1>4. ASSUME NEW t \in fits
        PROVE  rings[t] \o batch[t] \in Seq(Batches) /\ Len(rings[t] \o batch[t]) <= RingCap
    <2>1. rings[t] \in Seq(Batches) /\ batch[t] \in Seq(Batches)
      BY DEF Registered, QueueTypes, ThreadTypes
    <2>2. Len(rings[t] \o batch[t]) = Len(rings[t]) + Len(batch[t])
      BY <2>1, ConcatProperties
    <2>3. rings[t] \o batch[t] \in Seq(Batches)
      BY <2>1, ConcatProperties
    <2>4. QED
      <3>1. Len(rings[t]) \in Nat /\ Len(rings[t]) < RingCap
        BY <2>1, LenProperties DEF RoomFor
      <3>2. Len(batch[t]) = 1
        BY <1>2
      <3>3. QED
        BY <2>2, <2>3, <3>1, <3>2
  <1>5. rings' = [t \in Threads |-> IF t \in fits THEN rings[t] \o batch[t] ELSE rings[t]]
    BY DEF StopThreads
  <1>6. rings' \in [Threads -> Seq(Batches)] /\ \A t \in Threads : Len(rings'[t]) <= RingCap
    BY <1>4, <1>5 DEF QueueTypes
  <1>7. ThreadTypes' /\ QueueTypes'
    BY <1>1, <1>3, <1>6 DEF StopThreads, ThreadTypes, QueueTypes
  <1>8. ClientTypes' /\ RingTypes' /\ RecorderTypes'
    BY DEF StopThreads, ringVars, recorderVars, ClientTypes, RingTypes, RecorderTypes
  <1>9. QED
    BY <1>7, <1>8

LEMMA EndStepTypes ==
  ASSUME TypeOK, StopThreads \/ AskWhole \/ Close \/ Join
  PROVE  TypeOK'
  <1> USE DEF TypeOK
  <1>1. CASE AskWhole
    <2>1. clock' \in 0..MaxTicks
      BY <1>1 DEF AskWhole, ReadClock, ThreadTypes
    <2>2. [type |-> "dumpall", end |-> clock'] \in Messages
      BY <2>1 DEF Messages
    <2>3. control' \in Seq(Messages)
      BY <1>1, <2>2, SendTypes DEF AskWhole
    <2>4. ThreadTypes' /\ RecorderTypes'
      BY <1>1, <2>1, <2>3 DEF AskWhole, recorderVars, ThreadTypes, RecorderTypes
    <2>5. QueueTypes' /\ ClientTypes' /\ RingTypes'
      BY <1>1 DEF AskWhole, ringVars, QueueTypes, ClientTypes, RingTypes
    <2>6. QED
      BY <2>4, <2>5
  <1>2. CASE Close \/ Join
    <2>1. ThreadTypes' /\ QueueTypes' /\ ClientTypes'
      BY <1>2 DEF Close, Join, threadVars, ThreadTypes, QueueTypes, ClientTypes
    <2>2. RingTypes' /\ RecorderTypes'
      BY <1>2 DEF Close, Join, ringVars, recorderVars, RingTypes, RecorderTypes
    <2>3. QED
      BY <2>1, <2>2
  <1>3. QED
    BY <1>1, <1>2, StopThreadsTypes

LEMMA MessageKinds ==
  ASSUME NEW m \in Messages
  PROVE  /\ m.type \in {"open", "dump", "dumpall"}
         /\ m.type \in {"open", "dump"} => m.window \in Windows
  BY DEF Messages

LEMMA FirstMessage ==
  ASSUME RecorderTypes, control # <<>>
  PROVE  Head(control) \in Messages /\ Tail(control) \in Seq(Messages)
  BY HeadTailProperties DEF RecorderTypes

LEMMA JobIsMessage ==
  ASSUME RecorderTypes, JobInHand, pc \in {"first", "again", "write", "settle"}
  PROVE  /\ job[1] \in Messages /\ job[1].type \in {"dump", "dumpall"}
         /\ job[1].type = "dump" => job[1].window \in Windows
  <1>1. job \in Seq(Messages)
    BY DEF RecorderTypes
  <1>2. job[1] \in Messages
    <2>1. Len(job) = 1
      BY DEF JobInHand
    <2>2. 1 \in 1..Len(job)
      BY <2>1
    <2>3. QED
      BY <1>1, <2>2, ElementOfSeq
  <1>3. QED
    BY <1>2, MessageKinds DEF JobInHand

LEMMA RecorderStepTypes ==
  ASSUME TypeOK, JobInHand, Recorder
  PROVE  TypeOK'
  <1> USE DEF TypeOK
  <1>1. CASE HandleOpen
    <2>1. RingTypes'
      BY <1>1, HoldKeeps DEF HandleOpen, RingTypes
    <2>2. windows' \subseteq Windows /\ control' \in Seq(Messages)
      BY <1>1, FirstMessage, MessageKinds DEF HandleOpen, RecorderTypes
    <2>3. RecorderTypes'
      BY <1>1, <2>2 DEF HandleOpen, RecorderTypes
    <2>4. ThreadTypes' /\ QueueTypes' /\ ClientTypes'
      BY <1>1 DEF HandleOpen, threadVars, clientVars, ThreadTypes, QueueTypes, ClientTypes
    <2>5. QED
      BY <2>1, <2>3, <2>4
  <1>2. CASE BeginDump
    <2>1. control' \in Seq(Messages) /\ Head(control) \in Messages
      BY <1>2, FirstMessage DEF BeginDump
    <2>2. job' \in Seq(Messages) /\ Len(job') <= 1
      BY <1>2, <2>1 DEF BeginDump
    <2>3. RecorderTypes'
      BY <1>2, <2>1, <2>2 DEF BeginDump, RecorderTypes
    <2>4. ThreadTypes' /\ QueueTypes' /\ ClientTypes' /\ RingTypes'
      BY <1>2 DEF BeginDump, threadVars, clientVars, ringVars,
         ThreadTypes, QueueTypes, ClientTypes, RingTypes
    <2>5. QED
      BY <2>3, <2>4
  <1>3. CASE NoMessage \/ NothingDrained \/ CheckClosed \/ ReadTails \/ Assemble \/ LastAbsorbed
    <2>1. {batch[t][1] : t \in Registered} \subseteq Batches
      BY OneBatch DEF Registered, ThreadTypes
    <2>2. tails' \subseteq Batches
      BY <1>3, <2>1 DEF NoMessage, NothingDrained, CheckClosed, ReadTails, Assemble,
         LastAbsorbed, RecorderTypes
    <2>3. closing' \in BOOLEAN
      BY <1>3 DEF NoMessage, NothingDrained, CheckClosed, QueueClosed, ReadTails, Assemble,
         LastAbsorbed, RecorderTypes
    <2>4. UNCHANGED <<control, job, windows, written>>
      BY <1>3 DEF NoMessage, NothingDrained, CheckClosed, ReadTails, Assemble, LastAbsorbed, Goes
    <2>5. pc' \in {"control", "drain", "check", "first", "again", "write", "settle", "last",
                   "done", "dead"}
      BY <1>3 DEF NoMessage, NothingDrained, CheckClosed, ReadTails, Assemble, LastAbsorbed, Goes
    <2>6. RecorderTypes'
      BY <2>2, <2>3, <2>4, <2>5 DEF RecorderTypes
    <2>7. ThreadTypes' /\ QueueTypes' /\ ClientTypes' /\ RingTypes'
      BY <1>3 DEF NoMessage, NothingDrained, CheckClosed, ReadTails, Assemble, LastAbsorbed, Goes,
         threadVars, clientVars, ringVars, ThreadTypes, QueueTypes, ClientTypes, RingTypes
    <2>8. QED
      BY <2>6, <2>7
  <1>4. ASSUME NEW t \in Threads, Drain(t) \/ Absorb(t)
        PROVE  TypeOK'
    <2>1. RingTypes' /\ rings' = [rings EXCEPT ![t] = <<>>]
      BY <1>4, TakeRingKeeps DEF Drain, Absorb
    <2>2. QueueTypes'
      <3>1. lost' = lost
        BY <1>4 DEF Drain, Absorb
      <3>2. rings' \in [Threads -> Seq(Batches)]
        BY <2>1, EmptySeq DEF QueueTypes
      <3>3. \A u \in Threads : rings'[u] = IF u = t THEN <<>> ELSE rings[u]
        BY <2>1 DEF QueueTypes
      <3>4. Len(<<>>) <= RingCap
        BY HistoryAssumption
      <3>5. \A u \in Threads : Len(rings'[u]) <= RingCap
        BY <3>3, <3>4 DEF QueueTypes
      <3>6. QED
        BY <3>1, <3>2, <3>5 DEF QueueTypes
    <2>3. RecorderTypes'
      BY <1>4 DEF Drain, Absorb, recorderVars, RecorderTypes
    <2>4. ThreadTypes' /\ ClientTypes'
      BY <1>4 DEF Drain, Absorb, threadVars, clientVars, ThreadTypes, ClientTypes
    <2>5. QED
      BY <2>1, <2>2, <2>3, <2>4
  <1>5. CASE Written
    <2>1. RingTypes'
      BY <1>5, HoldKeeps DEF Written, RingTypes
    <2>2. job[1].type = "dump" => job[1].window \in Windows
      BY <1>5, JobIsMessage DEF Written
    <2>3. RecorderTypes'
      BY <1>5, <2>2 DEF Written, RecorderTypes
    <2>4. ThreadTypes' /\ QueueTypes' /\ ClientTypes'
      BY <1>5 DEF Written, threadVars, clientVars, ThreadTypes, QueueTypes, ClientTypes
    <2>5. QED
      BY <2>1, <2>3, <2>4
  <1>6. CASE Reply
    <2>1. ClientTypes'
      BY <1>6 DEF Reply, ClientTypes
    <2>2. RecorderTypes'
      BY <1>6, EmptySeq DEF Reply, RecorderTypes
    <2>3. ThreadTypes' /\ QueueTypes' /\ RingTypes'
      BY <1>6 DEF Reply, threadVars, ringVars, ThreadTypes, QueueTypes, RingTypes
    <2>4. QED
      BY <2>1, <2>2, <2>3
  <1>7. CASE Die
    <2>1. RecorderTypes'
      BY <1>7, EmptySeq DEF Die, RecorderTypes
    <2>2. RingTypes'
      BY <1>7, EmptySeq DEF Die, RingTypes
    <2>3. ThreadTypes' /\ QueueTypes' /\ ClientTypes'
      BY <1>7 DEF Die, threadVars, clientVars, ThreadTypes, QueueTypes, ClientTypes
    <2>4. QED
      BY <2>1, <2>2, <2>3
  <1>8. QED
    BY <1>1, <1>2, <1>3, <1>4, <1>5, <1>6, <1>7 DEF Recorder

LEMMA InitTypes == Init => TypeOK /\ ForgottenHasBatch /\ JobInHand
  <1> SUFFICES ASSUME Init PROVE TypeOK /\ ForgottenHasBatch /\ JobInHand
    OBVIOUS
  <1> USE HistoryAssumption DEF Init
  <1>1. stack \in [Threads -> Seq(Frames)]
    <2>1. [i \in 1..Before |-> -i] \in Seq(Frames)
      <3>1. \A i \in 1..Before : -i \in Frames
        BY DEF Frames
      <3>2. QED
        BY <3>1
    <2>2. <<>> \in Seq(Frames)
      BY EmptySeq
    <2>3. QED
      BY <2>1, <2>2
  <1>2. ThreadTypes
    BY <1>1, EmptySeq DEF ThreadTypes
  <1>3. QueueTypes /\ RingTypes
    BY EmptySeq DEF QueueTypes, RingTypes
  <1>4. ClientTypes
    BY DEF ClientTypes
  <1>5. RecorderTypes
    <2>1. <<>> \in Seq(Messages) /\ Len(<<>>) <= 1
      OBVIOUS
    <2>2. control \in Seq(Messages) /\ job \in Seq(Messages) /\ Len(job) <= 1
      BY <2>1
    <2>3. QED
      BY <2>2 DEF RecorderTypes
  <1>6. ForgottenHasBatch /\ JobInHand
    BY DEF ForgottenHasBatch, JobInHand
  <1>7. QED
    BY <1>2, <1>3, <1>4, <1>5, <1>6 DEF TypeOK

LEMMA NextTypes == TypeOK /\ ForgottenHasBatch /\ JobInHand /\ [Next]_vars => TypeOK'
  <1> SUFFICES ASSUME TypeOK, ForgottenHasBatch, JobInHand, [Next]_vars
               PROVE  TypeOK'
    OBVIOUS
  <1>1. CASE UNCHANGED vars
    BY <1>1 DEF vars, threadVars, clientVars, ringVars, recorderVars, TypeOK,
       ThreadTypes, QueueTypes, ClientTypes, RingTypes, RecorderTypes
  <1>2. CASE Recorder
    BY <1>2, RecorderStepTypes
  <1>3. QED
    BY <1>1, <1>2, ThreadStepTypes, ClientStepTypes, EndStepTypes DEF Next, Ended

LEMMA ForgottenNext == TypeOK /\ ForgottenHasBatch /\ [Next]_vars => ForgottenHasBatch'
  <1> SUFFICES ASSUME TypeOK, ForgottenHasBatch, [Next]_vars
               PROVE  ForgottenHasBatch'
    OBVIOUS
  <1> USE DEF TypeOK, ThreadTypes, ForgottenHasBatch
  <1>1. ASSUME NEW t \in Threads, Enter(t) \/ Leave(t) PROVE ForgottenHasBatch'
    <2>1. PICK e : Record(t, e)
      BY <1>1 DEF Enter, Leave
    <2>2. life' = life /\ life[t] = "alive"
      BY <2>1 DEF Record
    <2>3. \A u \in Threads \ {t} : batch'[u] = batch[u]
      BY <2>1 DEF Record, Push
    <2>4. QED
      BY <2>2, <2>3
  <1>2. ASSUME NEW t \in Threads, Forget(t) PROVE ForgottenHasBatch'
    BY <1>2 DEF Forget
  <1>3. ASSUME NEW t \in Threads, FlushAtExit(t) PROVE ForgottenHasBatch'
    BY <1>3 DEF FlushAtExit
  <1>4. CASE StopThreads
    BY <1>4 DEF StopThreads, Registered
  <1>5. CASE UNCHANGED <<batch, life>>
    BY <1>5
  <1>6. ASSUME NEW w \in Windows,
               EnterBlock(w) \/ ExitBlock(w) \/ ExitRefused(w) \/ BlockFails(w)
        PROVE  UNCHANGED <<batch, life>>
    BY <1>6 DEF EnterBlock, ExitBlock, ExitRefused, BlockFails, threadVars
  <1>7. ASSUME AskWhole \/ Close \/ Join \/ Ended \/ UNCHANGED vars
        PROVE  UNCHANGED <<batch, life>>
    BY <1>7 DEF AskWhole, Close, Join, Ended, threadVars, vars
  <1>8. ASSUME Recorder PROVE UNCHANGED <<batch, life>>
    BY <1>8 DEF Recorder, HandleOpen, BeginDump, NoMessage, NothingDrained, CheckClosed, ReadTails,
       Assemble, Written, Reply, LastAbsorbed, Die, Drain, Absorb, Goes, threadVars
  <1>9. QED
    BY <1>1, <1>2, <1>3, <1>4, <1>5, <1>6, <1>7, <1>8 DEF Next

LEMMA JobNext == TypeOK /\ JobInHand /\ [Next]_vars => JobInHand'
  <1> SUFFICES ASSUME TypeOK, JobInHand, [Next]_vars
               PROVE  JobInHand'
    OBVIOUS
  <1> USE DEF JobInHand
  <1>1. CASE UNCHANGED <<pc, job>>
    BY <1>1
  <1>2. ASSUME NEW t \in Threads, Enter(t) \/ Leave(t) \/ Forget(t) \/ FlushAtExit(t)
        PROVE  UNCHANGED <<pc, job>>
    BY <1>2 DEF Enter, Leave, Record, Forget, FlushAtExit, recorderVars
  <1>3. ASSUME NEW w \in Windows,
               EnterBlock(w) \/ ExitBlock(w) \/ ExitRefused(w) \/ BlockFails(w)
        PROVE  UNCHANGED <<pc, job>>
    BY <1>3 DEF EnterBlock, ExitBlock, ExitRefused, BlockFails, recorderVars
  <1>4. ASSUME StopThreads \/ AskWhole \/ Close \/ Join \/ Ended \/ UNCHANGED vars
        PROVE  UNCHANGED <<pc, job>>
    BY <1>4 DEF StopThreads, AskWhole, Close, Join, Ended, recorderVars, vars
  <1>5. CASE HandleOpen \/ \E t \in Threads : Absorb(t)
    BY <1>5 DEF HandleOpen, Absorb, recorderVars
  <1>6. CASE BeginDump
    <2>1. Head(control) \in Messages /\ Head(control).type # "open"
      BY <1>6, FirstMessage DEF BeginDump, TypeOK
    <2>2. QED
      BY <1>6, <2>1, MessageKinds DEF BeginDump
  <1>7. CASE \/ NoMessage \/ NothingDrained \/ CheckClosed \/ LastAbsorbed
             \/ \E t \in Threads : Drain(t)
    BY <1>7 DEF NoMessage, NothingDrained, CheckClosed, LastAbsorbed, Drain, Goes
  <1>8. CASE ReadTails \/ Assemble \/ Written
    BY <1>8 DEF ReadTails, Assemble, Written, Goes
  <1>9. CASE Reply \/ Die
    BY <1>9 DEF Reply, Die
  <1>10. QED
    BY <1>1, <1>2, <1>3, <1>4, <1>5, <1>6, <1>7, <1>8, <1>9 DEF Next, Recorder

Types == TypeOK /\ ForgottenHasBatch /\ JobInHand

LEMMA TypesHold == Spec => []Types
  <1>1. Init => Types
    BY InitTypes DEF Types
  <1>2. Types /\ [Next]_vars => Types'
    BY NextTypes, ForgottenNext, JobNext DEF Types
  <1>3. QED
    BY <1>1, <1>2, PTL DEF Spec

\* Every variable of the flight recorder and of its clients has its type: no
\* ring holds more batches than it has slots and no tick is later than the clock.
THEOREM TypeCorrect == Spec => []TypeOK
  BY TypesHold, PTL DEF Types

---------------------------------------------------------------------------
(* The history's limit.                                                     *)

LEMMA BoundNext == Types /\ HistoryBounded /\ [Next]_vars => HistoryBounded'
  <1> SUFFICES ASSUME Types, HistoryBounded, [Next]_vars
               PROVE  HistoryBounded'
    OBVIOUS
  <1> USE DEF Types, TypeOK
  <1>1. CASE UNCHANGED history
    BY <1>1 DEF HistoryBounded, Bytes
  <1>2. ASSUME NEW t \in Threads, Enter(t) \/ Leave(t) \/ Forget(t) \/ FlushAtExit(t)
        PROVE  UNCHANGED history
    BY <1>2 DEF Enter, Leave, Record, Forget, FlushAtExit, ringVars
  <1>3. ASSUME NEW w \in Windows,
               EnterBlock(w) \/ ExitBlock(w) \/ ExitRefused(w) \/ BlockFails(w)
        PROVE  UNCHANGED history
    BY <1>3 DEF EnterBlock, ExitBlock, ExitRefused, BlockFails, ringVars
  <1>4. ASSUME StopThreads \/ AskWhole \/ Close \/ Join \/ Ended \/ UNCHANGED vars
        PROVE  UNCHANGED history
    BY <1>4 DEF StopThreads, AskWhole, Close, Join, Ended, ringVars, vars
  <1>5. ASSUME \/ BeginDump \/ NoMessage \/ NothingDrained \/ CheckClosed \/ ReadTails \/ Assemble
               \/ Reply \/ LastAbsorbed
        PROVE  UNCHANGED history
    BY <1>5 DEF BeginDump, NoMessage, NothingDrained, CheckClosed, ReadTails, Assemble, Reply,
       LastAbsorbed, Goes, ringVars
  <1>6. ASSUME NEW t \in Threads, Drain(t) \/ Absorb(t) PROVE HistoryBounded'
    BY <1>6, TakeRingKeeps DEF Drain, Absorb
  <1>7. CASE HandleOpen \/ Written
    <2>1. history \in Seq(Batches) /\ Hold(history, windows')
      BY <1>7 DEF HandleOpen, Written, RingTypes
    <2>2. QED
      BY <2>1, HoldKeeps
  <1>8. CASE Die
    BY <1>8, EmptySeq DEF Die, HistoryBounded
  <1>9. QED
    BY <1>1, <1>2, <1>3, <1>4, <1>5, <1>6, <1>7, <1>8 DEF Next, Recorder

\* The history that the recorder keeps is never over twice record_last_mb, however
\* many windows hold it and whatever comes in (Ring::evict_over_capacity), except
\* that the newest batch is kept when that alone is larger.
THEOREM HistoryNeverOverflows == Spec => []HistoryBounded
  <1>1. Init => HistoryBounded
    BY EmptySeq DEF Init, HistoryBounded
  <1>2. QED
    BY <1>1, BoundNext, TypesHold, PTL DEF Spec

---------------------------------------------------------------------------
(* The end of a run, and the answers to the blocks.  What is asked for and  *)
(* not yet done is a message still: in the channel, or the recorder's job.  *)

InHand == Range(control) \cup Range(job)

\* The recorder only leaves, or prepares to, when Tracer::end closed the queue.
ClosingInv ==
    /\ closing => run \in {"closed", "ended"}
    /\ pc = "last" => closing
    /\ pc = "done" => closing /\ control = <<>>

\* The dump of the whole run is asked for before the queue is closed.
WholeInv ==
    /\ run \in {"asked", "closed", "ended"} /\ pc # "dead" =>
           Whole \in written \/ \E m \in InHand : m.type = "dumpall"
    /\ pc = "settle" /\ job[1].type = "dumpall" => Whole \in written

\* A block waits only for a recorder that has its message, and fails only when
\* the recorder died.
WaitInv ==
    \A w \in Windows :
        /\ stage[w] = "waiting" /\ pc # "dead" =>
               \E m \in InHand : m.type = "dump" /\ m.window = w
        /\ stage[w] = "failed" => pc = "dead"

AnswerInv == Types /\ ClosingInv /\ WholeInv /\ WaitInv

LEMMA JoinedRange ==
  ASSUME NEW r \in Seq(Messages), NEW s \in Seq(Messages)
  PROVE  Range(r \o s) = Range(r) \cup Range(s)
  BY RangeConcatenation

LEMMA SentIsInHand ==
  ASSUME RecorderTypes, NEW m \in Messages, Receiving, Send(m), job' = job
  PROVE  InHand' = InHand \cup {m}
  <1> DEFINE one == <<m>>
  <1>1. control' = control \o one /\ control \in Seq(Messages)
    BY AppendIsConcat DEF Send, RecorderTypes
  <1>2. one \in Seq(Messages) /\ Range(one) = {m}
    BY DEF Range
  <1> HIDE DEF one
  <1>3. Range(control \o one) = Range(control) \cup Range(one)
    BY <1>1, <1>2, JoinedRange
  <1>4. Range(control') = Range(control) \cup {m}
    BY <1>1, <1>2, <1>3
  <1>5. QED
    BY <1>4 DEF InHand

LEMMA HeadOrTail ==
  ASSUME NEW s \in Seq(Messages), s # <<>>
  PROVE  Range(s) = {Head(s)} \cup Range(Tail(s))
  <1> DEFINE one == <<Head(s)>>
  <1>1. Tail(s) \in Seq(Messages) /\ s = one \o Tail(s)
    BY HeadTailProperties, ConcatProperties
  <1>2. one \in Seq(Messages) /\ Range(one) = {Head(s)}
    BY HeadTailProperties DEF Range
  <1> HIDE DEF one
  <1>3. Range(one \o Tail(s)) = Range(one) \cup Range(Tail(s))
    BY <1>1, <1>2, JoinedRange
  <1>4. QED
    BY <1>1, <1>2, <1>3

LEMMA JobRange ==
  ASSUME NEW m
  PROVE  Range(<<m>>) = {m} /\ Range(<<>>) = {}
  BY DEF Range

LEMMA OneJob ==
  ASSUME NEW s \in Seq(Messages), Len(s) = 1
  PROVE  Range(s) = {s[1]}
  <1>1. DOMAIN s = {1}
    BY LenProperties
  <1>2. QED
    BY <1>1 DEF Range

\* A step that leaves the recorder, what it is asked for and the blocks alone.
LEMMA QuietStep ==
  ASSUME AnswerInv, Types',
         UNCHANGED <<control, pc, closing, job, written>>,
         \/ run' = run
         \/ run = "on" /\ run' = "off"
         \/ run \in {"asked", "closed"} /\ run' \in {"closed", "ended"},
         \A w \in Windows : stage'[w] \in {stage[w], "open", "refused"}
  PROVE  AnswerInv'
  <1>1. InHand' = InHand
    BY DEF InHand
  <1>2. ClosingInv'
    BY DEF AnswerInv, ClosingInv
  <1>3. WholeInv'
    BY <1>1 DEF AnswerInv, WholeInv
  <1>4. WaitInv'
    BY <1>1 DEF AnswerInv, WaitInv
  <1>5. QED
    BY <1>2, <1>3, <1>4 DEF AnswerInv

\* A step of the recorder that keeps what it is asked for and tells nobody.
LEMMA InwardStep ==
  ASSUME AnswerInv, Types', Receiving,
         run' = run, stage' = stage, written \subseteq written',
         \A m \in InHand : m.type # "open" => m \in InHand',
         pc' = "settle" => (job'[1].type = "dumpall" => Whole \in written'),
         ClosingInv'
  PROVE  AnswerInv'
  <1>1. pc # "dead"
    BY DEF Receiving
  <1>2. WholeInv'
    BY <1>1 DEF AnswerInv, WholeInv
  <1>3. WaitInv'
    BY <1>1 DEF AnswerInv, WaitInv
  <1>4. QED
    BY <1>2, <1>3 DEF AnswerInv

LEMMA BlockAnswerNext ==
  ASSUME AnswerInv, Types', NEW w \in Windows,
         EnterBlock(w) \/ ExitBlock(w) \/ ExitRefused(w) \/ BlockFails(w)
  PROVE  AnswerInv'
  <1> USE DEF AnswerInv, Types, TypeOK
  <1>1. CASE EnterBlock(w) \/ ExitBlock(w)
    <2>1. PICK m \in Messages : /\ Send(m)
                                /\ stage'[w] = "waiting" => m.type = "dump" /\ m.window = w
      <3>1. clock' \in 0..MaxTicks
        BY <1>1 DEF EnterBlock, ExitBlock, ReadClock, ThreadTypes
      <3>2. [type |-> "open", window |-> w] \in Messages
        BY DEF Messages
      <3>3. [type |-> "dump", window |-> w, end |-> clock'] \in Messages
        BY <3>1 DEF Messages
      <3>4. CASE EnterBlock(w)
        BY <3>2, <3>4 DEF EnterBlock, ClientTypes
      <3>5. CASE ExitBlock(w)
        BY <3>3, <3>5 DEF ExitBlock
      <3>6. QED
        BY <1>1, <3>4, <3>5
    <2>2. /\ UNCHANGED <<pc, closing, job, written, run>> /\ Receiving
          /\ \A v \in Windows \ {w} : stage'[v] = stage[v]
          /\ stage'[w] # "failed"
      BY <1>1 DEF EnterBlock, ExitBlock, recorderVars, ClientTypes
    <2>3. InHand' = InHand \cup {m}
      BY <2>1, <2>2, SentIsInHand
    <2>4. ClosingInv'
      BY <2>2 DEF ClosingInv, Receiving
    <2>5. WholeInv'
      BY <2>2, <2>3 DEF WholeInv
    <2>6. WaitInv'
      BY <2>1, <2>2, <2>3 DEF WaitInv
    <2>7. QED
      BY <2>4, <2>5, <2>6
  <1>2. CASE ExitRefused(w)
    <2>1. \A v \in Windows : stage'[v] \in {stage[v], "open", "refused"}
      BY <1>2 DEF ExitRefused, ClientTypes
    <2>2. UNCHANGED <<control, pc, closing, job, written, run>>
      BY <1>2 DEF ExitRefused, recorderVars
    <2>3. QED
      BY <2>1, <2>2, QuietStep
  <1>3. CASE BlockFails(w)
    <2>1. UNCHANGED <<control, pc, closing, job, written, run>>
      BY <1>3 DEF BlockFails, recorderVars
    <2>2. InHand' = InHand
      BY <2>1 DEF InHand
    <2>3. pc = "dead"
      <3>1. ASSUME pc = "done" PROVE InHand = {}
        BY <3>1, JobRange DEF InHand, ClosingInv, JobInHand
      <3>2. pc \in {"done", "dead"}
        BY <1>3 DEF BlockFails, Receiving
      <3>3. QED
        BY <1>3, <3>1, <3>2 DEF BlockFails, WaitInv
    <2>4. \A v \in Windows \ {w} : stage'[v] = stage[v]
      BY <1>3 DEF BlockFails, ClientTypes
    <2>5. ClosingInv' /\ WholeInv'
      BY <2>1, <2>2 DEF ClosingInv, WholeInv
    <2>6. WaitInv'
      BY <2>1, <2>3 DEF WaitInv
    <2>7. QED
      BY <2>5, <2>6
  <1>4. QED
    BY <1>1, <1>2, <1>3

LEMMA EndAnswerNext ==
  ASSUME AnswerInv, Types', StopThreads \/ AskWhole \/ Close \/ Join
  PROVE  AnswerInv'
  <1> USE DEF AnswerInv, Types, TypeOK
  <1>1. CASE StopThreads \/ Close \/ Join
    <2>1. UNCHANGED <<control, pc, closing, job, written, stage>>
      BY <1>1 DEF StopThreads, Close, Join, recorderVars
    <2>2. \/ run = "on" /\ run' = "off"
          \/ run \in {"asked", "closed"} /\ run' \in {"closed", "ended"}
      BY <1>1 DEF StopThreads, Close, Join
    <2>3. QED
      BY <2>1, <2>2, QuietStep
  <1>2. CASE AskWhole
    <2> DEFINE m == [type |-> "dumpall", end |-> clock']
    <2>1. /\ UNCHANGED <<pc, closing, job, written, stage>>
          /\ run = "off" /\ run' = "asked" /\ Send(m)
      BY <1>2 DEF AskWhole, recorderVars
    <2>2. ~closing /\ pc # "done"
      BY <2>1 DEF ClosingInv
    <2>3. ClosingInv'
      BY <2>1, <2>2 DEF ClosingInv
    <2>4. m \in Messages /\ m.type = "dumpall"
      BY <1>2 DEF AskWhole, ReadClock, ThreadTypes, Messages
    <2> HIDE DEF m
    <2>5. CASE pc = "dead"
      BY <2>1, <2>3, <2>5 DEF WholeInv, WaitInv
    <2>6. CASE pc # "dead"
      <3>1. InHand' = InHand \cup {m}
        BY <2>1, <2>2, <2>4, <2>6, SentIsInHand DEF Receiving
      <3>2. WholeInv'
        BY <2>1, <2>4, <3>1 DEF WholeInv
      <3>3. WaitInv'
        BY <2>1, <3>1 DEF WaitInv
      <3>4. QED
        BY <2>3, <3>2, <3>3
    <2>7. QED
      BY <2>5, <2>6
  <1>3. QED
    BY <1>1, <1>2

LEMMA RecorderAnswerNext ==
  ASSUME AnswerInv, Types', Recorder
  PROVE  AnswerInv'
  <1> USE DEF AnswerInv, Types, TypeOK
  <1>1. CASE HandleOpen
    <2>1. /\ control # <<>> /\ Head(control).type = "open" /\ control' = Tail(control)
          /\ pc = "control"
          /\ UNCHANGED <<pc, closing, job, written, run, stage>>
      BY <1>1 DEF HandleOpen, clientVars
    <2>2. \A m \in InHand : m.type # "open" => m \in InHand'
      BY <2>1, HeadOrTail DEF InHand, RecorderTypes
    <2>3. ClosingInv'
      BY <2>1 DEF ClosingInv
    <2>4. QED
      BY <2>1, <2>2, <2>3, InwardStep DEF Receiving
  <1>2. CASE BeginDump
    <2>1. /\ control # <<>> /\ control' = Tail(control) /\ job' = <<Head(control)>>
          /\ pc = "control" /\ pc' = "first"
          /\ UNCHANGED <<closing, written, run, stage>>
      BY <1>2 DEF BeginDump, clientVars
    <2>2. Range(job) = {} /\ Range(job') = {Head(control)}
      BY <2>1, JobRange DEF JobInHand
    <2>3. Range(control) = {Head(control)} \cup Range(control')
      BY <2>1, HeadOrTail DEF RecorderTypes
    <2>4. InHand' = InHand
      BY <2>2, <2>3 DEF InHand
    <2>5. ClosingInv'
      BY <2>1 DEF ClosingInv
    <2>6. QED
      BY <2>1, <2>4, <2>5, InwardStep DEF Receiving
  <1>3. CASE \/ NoMessage \/ NothingDrained \/ CheckClosed \/ ReadTails \/ Assemble \/ LastAbsorbed
             \/ \E t \in Threads : Drain(t) \/ Absorb(t)
    <2>1. UNCHANGED <<control, job, written, run, stage>>
      BY <1>3 DEF NoMessage, NothingDrained, CheckClosed, ReadTails, Assemble, LastAbsorbed, Drain,
         Absorb, Goes, clientVars, recorderVars
    <2>2. Receiving /\ (pc' = "settle" => pc = "settle")
      BY <1>3 DEF NoMessage, NothingDrained, CheckClosed, ReadTails, Assemble, LastAbsorbed, Drain,
         Absorb, Goes, Receiving, recorderVars
    <2>3. ClosingInv'
      <3>1. CASE NoMessage
        BY <2>1, <3>1 DEF NoMessage, Goes, ClosingInv
      <3>2. CASE NothingDrained
        BY <2>1, <3>2 DEF NothingDrained, Goes, ClosingInv
      <3>3. CASE CheckClosed
        <4>1. pc' = (IF QueueClosed THEN "last" ELSE "control") /\ (closing' <=> pc' = "last")
          BY <3>3 DEF CheckClosed, Goes
        <4>2. pc' = "last" => run' \in {"closed", "ended"}
          BY <2>1, <4>1 DEF QueueClosed
        <4>3. pc' # "done"
          BY <4>1
        <4>4. QED
          BY <4>1, <4>2, <4>3 DEF ClosingInv
      <3>4. CASE ReadTails \/ Assemble \/ LastAbsorbed \/ \E t \in Threads : Drain(t)
        BY <2>1, <3>4 DEF ReadTails, Assemble, LastAbsorbed, Drain, Goes, ClosingInv
      <3>5. CASE \E t \in Threads : Absorb(t)
        BY <2>1, <3>5 DEF Absorb, recorderVars, ClosingInv
      <3>6. QED
        BY <1>3, <3>1, <3>2, <3>3, <3>4, <3>5
    <2>4. InHand' = InHand
      BY <2>1 DEF InHand
    <2>5. pc' = "settle" => (job'[1].type = "dumpall" => Whole \in written')
      BY <2>1, <2>2 DEF WholeInv
    <2>6. QED
      BY <2>1, <2>2, <2>3, <2>4, <2>5, InwardStep
  <1>4. CASE Written
    <2>1. /\ UNCHANGED <<control, closing, job, run, stage>>
          /\ pc = "write" /\ pc' = "settle"
          /\ written' = written \cup {IF job[1].type = "dump" THEN job[1].window ELSE Whole}
      BY <1>4 DEF Written, clientVars
    <2>2. InHand' = InHand
      BY <2>1 DEF InHand
    <2>3. job[1].type = "dumpall" => Whole \in written'
      BY <2>1
    <2>4. ClosingInv'
      BY <2>1 DEF ClosingInv
    <2>5. QED
      BY <2>1, <2>2, <2>3, <2>4, InwardStep DEF Receiving
  <1>5. CASE Reply
    <2>1. /\ UNCHANGED <<control, closing, written, run>>
          /\ pc = "settle" /\ pc' = "control" /\ job' = <<>>
      BY <1>5 DEF Reply
    <2>2. InHand = Range(control) \cup {job[1]} /\ InHand' = Range(control)
      BY <2>1, OneJob, JobRange DEF InHand, JobInHand, RecorderTypes
    <2>3. job[1].type \in {"dump", "dumpall"}
          /\ (job[1].type = "dump" => job[1].window \in Windows)
      BY <2>1, JobIsMessage
    <2>4. ClosingInv'
      BY <2>1 DEF ClosingInv
    <2>5. WholeInv'
      BY <2>1, <2>2, <2>3 DEF WholeInv
    <2>6. WaitInv'
      <3>1. ASSUME NEW w \in Windows, stage'[w] \in {"waiting", "failed"}
            PROVE  stage'[w] = stage[w] /\ ~(job[1].type = "dump" /\ job[1].window = w)
        BY <1>5, <3>1 DEF Reply, ClientTypes
      <3>2. ASSUME NEW w \in Windows, stage'[w] = "waiting"
            PROVE  \E m \in InHand' : m.type = "dump" /\ m.window = w
        <4>1. stage[w] = "waiting" /\ ~(job[1].type = "dump" /\ job[1].window = w)
          BY <3>1, <3>2
        <4>2. PICK m \in InHand : m.type = "dump" /\ m.window = w
          BY <2>1, <4>1 DEF WaitInv
        <4>3. QED
          BY <2>2, <4>1, <4>2
      <3>3. ASSUME NEW w \in Windows PROVE stage'[w] # "failed"
        BY <2>1, <3>1 DEF WaitInv
      <3>4. QED
        BY <3>2, <3>3 DEF WaitInv
    <2>7. QED
      BY <2>4, <2>5, <2>6
  <1>6. CASE Die
    <2>1. pc' = "dead" /\ UNCHANGED <<closing, run>>
      BY <1>6 DEF Die, clientVars
    <2>2. QED
      BY <2>1 DEF ClosingInv, WholeInv, WaitInv
  <1>7. QED
    BY <1>1, <1>2, <1>3, <1>4, <1>5, <1>6 DEF Recorder

LEMMA AnswerNext == AnswerInv /\ Types' /\ [Next]_vars => AnswerInv'
  <1> SUFFICES ASSUME AnswerInv, Types', [Next]_vars
               PROVE  AnswerInv'
    OBVIOUS
  <1>1. CASE Ended \/ UNCHANGED vars
    <2>1. UNCHANGED <<control, pc, closing, job, written, run, stage>>
      BY <1>1 DEF Ended, vars, clientVars, recorderVars
    <2>2. QED
      BY <2>1, QuietStep
  <1>2. ASSUME NEW t \in Threads, Enter(t) \/ Leave(t) \/ Forget(t) \/ FlushAtExit(t)
        PROVE  AnswerInv'
    <2>1. UNCHANGED <<control, pc, closing, job, written, run, stage>>
      BY <1>2 DEF Enter, Leave, Record, Forget, FlushAtExit, clientVars, recorderVars
    <2>2. QED
      BY <2>1, QuietStep
  <1>3. QED
    BY <1>1, <1>2, BlockAnswerNext, EndAnswerNext, RecorderAnswerNext DEF Next

\* When the recorder returns of its own accord, the dump of the whole run is on
\* disk and no block waits for a dump or has been told that there is none: what is
\* asked for before Tracer::end closes the queue is handled in the recorder's last
\* round (run_recorder, recorder.rs), however the two interleave.
THEOREM EveryDumpAnswered == Spec => []RunEndsWithDump
  <1>1. Init => ClosingInv /\ WholeInv /\ WaitInv
    BY DEF Init, ClosingInv, WholeInv, WaitInv
  <1>2. AnswerInv => RunEndsWithDump
    <2> SUFFICES ASSUME AnswerInv, pc = "done"
                 PROVE  /\ Whole \in written
                        /\ \A w \in Windows : stage[w] \notin {"waiting", "failed"}
      BY DEF RunEndsWithDump
    <2>1. InHand = {}
      BY JobRange DEF InHand, AnswerInv, Types, ClosingInv, JobInHand
    <2>2. run \in {"closed", "ended"}
      BY DEF AnswerInv, ClosingInv
    <2>3. QED
      BY <2>1, <2>2 DEF AnswerInv, WholeInv, WaitInv
  <1>3. QED
    BY <1>1, <1>2, TypesHold, AnswerNext, PTL DEF Spec, AnswerInv
---------------------------------------------------------------------------
(* Batches on their way.                                                    *)
\* Batches that begin at their base, rise, and end by tick c.
RisingTo(c) ==
    {b \in Batches : /\ b.base = b.events[1].ticks /\ EndTicks(b) <= c
                     /\ \A i, j \in 1..Len(b.events) : i < j => b.events[i].ticks < b.events[j].ticks}

\* Every batch on its way to the history, in it or read as a tail is of that kind,
\* since a thread pushes into its batch at the tick that its clock shows.
Rising ==
    /\ \A t \in Threads : batch[t] \in Seq(RisingTo(clock)) /\ rings[t] \in Seq(RisingTo(clock))
    /\ history \in Seq(RisingTo(clock))
    /\ tails \subseteq RisingTo(clock)

LEMMA RisingBatch ==
  ASSUME NEW c, NEW b \in RisingTo(c)
  PROVE  /\ b \in Batches /\ b.base = b.events[1].ticks
         /\ Len(b.events) \in Nat \ {0} /\ b.events \in Seq(Events)
         /\ \A i \in 1..Len(b.events) : b.events[i] \in Events /\ b.events[i].ticks \in Nat
         /\ \A i, j \in 1..Len(b.events) : i < j => b.events[i].ticks < b.events[j].ticks
  <1>1. b \in Batches
    BY DEF RisingTo
  <1>2. b.events \in Seq(Events) /\ b.events # <<>>
    BY <1>1 DEF Batches
  <1>3. Len(b.events) \in Nat \ {0}
    BY <1>2, EmptySeq
  <1>4. ASSUME NEW i \in 1..Len(b.events) PROVE b.events[i] \in Events /\ b.events[i].ticks \in Nat
    <2>1. b.events[i] \in Events
      BY <1>2, ElementOfSeq
    <2>2. QED
      BY <2>1, HistoryAssumption DEF Events
  <1>5. QED
    BY <1>1, <1>2, <1>3, <1>4 DEF RisingTo

Longer(b, e) == [b EXCEPT !.events = Append(@, e)]

\* Batches keep rising.
LEMMA ClockGoesOn ==
  ASSUME Types, [Next]_vars
  PROVE  clock \in Nat /\ clock' \in {clock, clock + 1}
  <1>1. clock \in Nat
    BY HistoryAssumption DEF Types, TypeOK, ThreadTypes
  <1> SUFFICES clock' \in {clock, clock + 1}
    BY <1>1
  <1>2. ASSUME NEW t \in Threads, Enter(t) \/ Leave(t) \/ Forget(t) \/ FlushAtExit(t)
        PROVE  clock' \in {clock, clock + 1}
    BY <1>2 DEF Enter, Leave, Forget, FlushAtExit, Record
  <1>3. ASSUME NEW w \in Windows, EnterBlock(w) \/ ExitBlock(w) \/ ExitRefused(w) \/ BlockFails(w)
        PROVE  clock' \in {clock, clock + 1}
    BY <1>3 DEF EnterBlock, ExitBlock, ExitRefused, BlockFails, ReadClock, threadVars
  <1>4. CASE StopThreads \/ AskWhole
    BY <1>4 DEF StopThreads, AskWhole, ReadClock
  <1>5. CASE Close \/ Join \/ Ended \/ UNCHANGED vars
    BY <1>5 DEF Close, Join, Ended, threadVars, vars
  <1>6. CASE Recorder
    <2>1. CASE NoMessage \/ NothingDrained \/ CheckClosed \/ ReadTails \/ Assemble \/ LastAbsorbed
      BY <2>1 DEF NoMessage, NothingDrained, CheckClosed, ReadTails, Assemble, LastAbsorbed, Goes,
         threadVars
    <2>2. CASE HandleOpen \/ BeginDump \/ Written \/ Reply \/ Die
      BY <2>2 DEF HandleOpen, BeginDump, Written, Reply, Die, threadVars
    <2>3. ASSUME NEW t \in Threads, Drain(t) \/ Absorb(t) PROVE clock' \in {clock, clock + 1}
      BY <2>3 DEF Drain, Absorb, threadVars
    <2>4. QED
      BY <1>6, <2>1, <2>2, <2>3 DEF Recorder
  <1>7. QED
    BY <1>1, <1>2, <1>3, <1>4, <1>5, <1>6 DEF Next

LEMMA RisingOn ==
  ASSUME NEW c \in Nat, NEW d \in {c, c + 1}
  PROVE  RisingTo(c) \subseteq RisingTo(d)
  <1> SUFFICES ASSUME NEW b \in RisingTo(c) PROVE b \in RisingTo(d)
    OBVIOUS
  <1>1. b \in Batches /\ EndTicks(b) <= c
    BY DEF RisingTo
  <1>2. EndTicks(b) \in Nat
    BY <1>1, BatchEnds
  <1>3. EndTicks(b) <= d
    BY <1>1, <1>2
  <1>4. QED
    BY <1>3 DEF RisingTo

LEMMA TicksBelow ==
  ASSUME NEW c \in Nat, NEW b \in RisingTo(c), NEW i \in 1..Len(b.events)
  PROVE  b.events[i].ticks <= EndTicks(b) /\ b.events[i].ticks <= c /\ b.events[i].ticks \in Nat
  <1>1. /\ b \in Batches /\ Len(b.events) \in Nat \ {0}
        /\ \A k \in 1..Len(b.events) : b.events[k].ticks \in Nat
        /\ \A k, l \in 1..Len(b.events) : k < l => b.events[k].ticks < b.events[l].ticks
    BY RisingBatch
  <1>2. EndTicks(b) <= c /\ EndTicks(b) \in Nat
    BY <1>1, BatchEnds DEF RisingTo
  <1>3. Len(b.events) \in 1..Len(b.events)
    BY <1>1
  <1>4. b.events[i].ticks <= EndTicks(b)
    <2>1. CASE i = Len(b.events)
      BY <1>1, <1>2, <2>1 DEF EndTicks
    <2>2. CASE i < Len(b.events)
      <3>1. b.events[i].ticks < EndTicks(b)
        BY <1>1, <1>3, <2>2 DEF EndTicks
      <3>2. QED
        BY <1>1, <1>2, <3>1
    <2>3. QED
      BY <1>1, <2>1, <2>2
  <1>5. QED
    BY <1>1, <1>2, <1>4

LEMMA NewBatch ==
  ASSUME NEW t \in Threads, NEW c \in Nat, NEW e \in Events, e.ticks = c + 1
  PROVE  \E b \in RisingTo(c + 1) :
             /\ BatchOf(t, e) = <<b>> /\ b.tid = t /\ b.events = <<e>>
  <1>1. PICK b : b = [tid |-> t, base |-> e.ticks, events |-> <<e>>]
    OBVIOUS
  <1>2. <<e>> \in Seq(Events) \ {<<>>} /\ Len(<<e>>) = 1 /\ <<e>>[1] = e
    OBVIOUS
  <1>3. e.ticks \in 1..MaxTicks
    BY DEF Events
  <1>4. b \in Batches
    BY <1>1, <1>2, <1>3 DEF Batches
  <1>5. b.events = <<e>> /\ b.base = e.ticks /\ b.tid = t
    BY <1>1
  <1>6. EndTicks(b) = e.ticks /\ b.base = b.events[1].ticks
    BY <1>2, <1>5 DEF EndTicks
  <1>7. EndTicks(b) <= c + 1
    BY <1>6
  <1>8. ASSUME NEW i \in 1..Len(b.events), NEW j \in 1..Len(b.events), i < j
        PROVE  b.events[i].ticks < b.events[j].ticks
    BY <1>2, <1>5, <1>8
  <1>9. b \in RisingTo(c + 1)
    BY <1>4, <1>6, <1>7, <1>8 DEF RisingTo
  <1>10. QED
    BY <1>1, <1>5, <1>9 DEF BatchOf

LEMMA LongerRises ==
  ASSUME NEW c \in Nat, NEW old \in RisingTo(c), NEW e \in Events, e.ticks = c + 1
  PROVE  /\ Longer(old, e) \in RisingTo(c + 1)
         /\ Longer(old, e).tid = old.tid /\ Longer(old, e).base = old.base
         /\ Len(Longer(old, e).events) = Len(old.events) + 1
         /\ \A i \in 1..Len(old.events) : Longer(old, e).events[i] = old.events[i]
         /\ Longer(old, e).events[Len(old.events) + 1] = e
  <1>1. PICK b : b = Longer(old, e)
    OBVIOUS
  <1>2. /\ old \in Batches /\ old.base = old.events[1].ticks
        /\ Len(old.events) \in Nat \ {0} /\ old.events \in Seq(Events)
        /\ \A i, j \in 1..Len(old.events) : i < j => old.events[i].ticks < old.events[j].ticks
    BY RisingBatch
  <1>3. b \in Batches /\ b.tid = old.tid /\ b.base = old.base /\ b.events = Append(old.events, e)
    <2>1. b \in Batches
      BY <1>1, <1>2, LongerBatch DEF Longer
    <2>2. QED
      BY <1>1, <1>2, <2>1 DEF Longer, Batches
  <1>4. /\ Len(b.events) = Len(old.events) + 1
        /\ \A i \in 1..Len(old.events) : b.events[i] = old.events[i]
        /\ b.events[Len(old.events) + 1] = e
    BY <1>2, <1>3, AppendProperties
  <1>5. EndTicks(b) = c + 1
    BY <1>4 DEF EndTicks
  <1>6. b.base = b.events[1].ticks
    <2>1. 1 \in 1..Len(old.events)
      BY <1>2
    <2>2. QED
      BY <1>2, <1>3, <1>4, <2>1
  <1>7. ASSUME NEW i \in 1..Len(b.events), NEW j \in 1..Len(b.events), i < j
        PROVE  b.events[i].ticks < b.events[j].ticks
    <2>1. i \in 1..Len(old.events)
      BY <1>2, <1>4, <1>7
    <2>2. CASE j \in 1..Len(old.events)
      BY <1>2, <1>4, <1>7, <2>1, <2>2
    <2>3. CASE j = Len(old.events) + 1
      <3>1. old.events[i].ticks <= c /\ old.events[i].ticks \in Nat
        BY <2>1, TicksBelow
      <3>2. b.events[i].ticks = old.events[i].ticks /\ b.events[j].ticks = c + 1
        BY <1>4, <2>1, <2>3
      <3>3. QED
        BY <3>1, <3>2
    <2>4. QED
      BY <1>2, <1>4, <2>2, <2>3
  <1>8. b \in RisingTo(c + 1)
    <2>1. EndTicks(b) <= c + 1
      BY <1>5
    <2>2. QED
      BY <1>3, <1>6, <1>7, <2>1 DEF RisingTo
  <1>9. QED
    BY <1>1, <1>3, <1>4, <1>8

LEMMA BatchInHand ==
  ASSUME Types, Rising, NEW t \in Threads, batch[t] # <<>>
  PROVE  batch[t][1] \in RisingTo(clock) /\ Len(batch[t]) = 1 /\ batch[t] = <<batch[t][1]>>
  <1>1. Len(batch[t]) = 1
    BY OneBatch DEF Types, TypeOK, ThreadTypes
  <1>2. batch[t] \in Seq(RisingTo(clock)) /\ 1 \in 1..Len(batch[t])
    BY <1>1 DEF Rising
  <1>3. batch[t][1] \in RisingTo(clock)
    BY <1>2, ElementOfSeq
  <1>4. batch[t] = <<batch[t][1]>>
    BY <1>1, <1>2
  <1>5. QED
    BY <1>1, <1>3, <1>4

LEMMA HoldRises ==
  ASSUME NEW S, NEW s \in Seq(S), NEW ws, Hold(s, ws)
  PROVE  history' \in Seq(S)
  <1>1. PICK n \in 0..Len(s) : history' = Without(s, n)
    BY DEF Hold, Enough
  <1>2. \A j \in (n + 1)..Len(s) : s[j] \in S
    BY <1>1, ElementOfSeq, LenProperties
  <1>3. n + 1 \in Int /\ Len(s) \in Int
    BY <1>1, LenProperties
  <1>4. QED
    BY <1>1, <1>2, <1>3, SubSeqProperties DEF Without

\* What a step does to the batches of a thread: nothing, or they move on.
Stays(t) == batch'[t] = batch[t] /\ rings'[t] = rings[t] /\ log'[t] = log[t]

Gone(t) ==
    \/ rings'[t] = rings[t] \o batch[t]
    \/ rings'[t] = rings[t] /\ batch[t] # <<>> /\ TicksOf(batch[t][1].events) \subseteq lost'

Shipped(t) == Gone(t) /\ batch'[t] = <<>> /\ log'[t] = log[t]

Recorded(t, e) ==
    /\ e.ticks = clock + 1 /\ clock' = clock + 1
    /\ log'[t] = Append(log[t], e)
    /\ \/ Gone(t) /\ batch'[t] = BatchOf(t, e)
       \/ batch[t] # <<>> /\ rings'[t] = rings[t] /\ batch'[t] = <<Longer(batch[t][1], e)>>

ThreadsMove ==
    /\ UNCHANGED <<history, evicted, horizon>>
    /\ \A t \in Threads : Stays(t) \/ Shipped(t) \/ \E e \in Events : Recorded(t, e)

\* What a step does to the history.
Holds == \E ws : Hold(history, ws) /\ UNCHANGED rings

Takes == \E t \in Threads : TakeRing(t)

HistoryMoves == (Holds \/ Takes) /\ UNCHANGED <<batch, log, clock>>

Dies == pc' = "dead" /\ history' = <<>> /\ UNCHANGED <<batch, log, rings, clock, evicted, horizon>>

LEMMA AllStay ==
  ASSUME UNCHANGED <<batch, rings, log, history, evicted, horizon>>
  PROVE  ThreadsMove
  BY DEF ThreadsMove, Stays

LEMMA ShipGone ==
  ASSUME QueueTypes, NEW t \in Threads, batch[t] # <<>>, Ship(t)
  PROVE  Gone(t) /\ \A u \in Threads \ {t} : rings'[u] = rings[u]
  <1>1. CASE RoomFor(t)
    <2>1. rings' = [rings EXCEPT ![t] = rings[t] \o batch[t]]
      BY <1>1 DEF Ship
    <2>2. rings \in [Threads -> Seq(Batches)]
      BY DEF QueueTypes
    <2>3. QED
      BY <2>1, <2>2 DEF Gone
  <1>2. CASE ~RoomFor(t)
    BY <1>2 DEF Ship, Gone
  <1>3. QED
    BY <1>1, <1>2

LEMMA RecordMoves ==
  ASSUME Types, NEW t \in Threads, NEW e \in Events, e.ticks = clock + 1, Record(t, e)
  PROVE  ThreadsMove
  <1> USE DEF Types, TypeOK
  <1>1. /\ clock' = clock + 1 /\ log' = [log EXCEPT ![t] = Append(@, e)] /\ Push(t, e)
        /\ UNCHANGED <<history, evicted, horizon>>
    BY DEF Record, ringVars
  <1>2. log'[t] = Append(log[t], e) /\ \A u \in Threads \ {t} : log'[u] = log[u]
    BY <1>1 DEF ThreadTypes
  <1>3. batch \in [Threads -> Seq(Batches)] /\ rings \in [Threads -> Seq(Batches)]
    BY DEF ThreadTypes, QueueTypes
  <1>4. Recorded(t, e) /\ \A u \in Threads \ {t} : Stays(u)
    <2>1. CASE batch[t] = <<>> /\ batch' = [batch EXCEPT ![t] = BatchOf(t, e)] /\ UNCHANGED <<rings, lost>>
      <3>1. rings[t] \o batch[t] = rings[t]
        BY <1>3, <2>1, ConcatEmptySeq
      <3>2. Gone(t)
        BY <2>1, <3>1 DEF Gone
      <3>3. batch'[t] = BatchOf(t, e) /\ \A u \in Threads \ {t} : batch'[u] = batch[u]
        BY <1>3, <2>1
      <3>4. QED
        BY <1>1, <1>2, <2>1, <3>2, <3>3 DEF Recorded, Stays
    <2>2. CASE batch[t] # <<>> /\ batch' = [batch EXCEPT ![t] = BatchOf(t, e)] /\ Ship(t)
      <3>1. Gone(t) /\ \A u \in Threads \ {t} : rings'[u] = rings[u]
        BY <2>2, ShipGone
      <3>2. batch'[t] = BatchOf(t, e) /\ \A u \in Threads \ {t} : batch'[u] = batch[u]
        BY <1>3, <2>2
      <3>3. QED
        BY <1>1, <1>2, <3>1, <3>2 DEF Recorded, Stays
    <2>3. CASE /\ batch[t] # <<>>
               /\ batch' = [batch EXCEPT ![t][1].events = Append(@, e)]
               /\ UNCHANGED <<rings, lost>>
      <3>1. Len(batch[t]) = 1 /\ batch[t][1] \in Batches /\ batch[t] \in Seq(Batches)
        BY <2>3, OneBatch DEF ThreadTypes
      <3>2. PICK b : b = Longer(batch[t][1], e)
        OBVIOUS
      <3>3. b \in Batches
        BY <3>1, <3>2, LongerBatch DEF Longer
      <3>4. batch' = [batch EXCEPT ![t] = [batch[t] EXCEPT ![1] = b]]
        BY <2>3, <3>2 DEF Longer
      <3>5. [batch[t] EXCEPT ![1] = b] = <<b>>
        BY <3>1, <3>3
      <3>6. batch'[t] = <<b>> /\ \A u \in Threads \ {t} : batch'[u] = batch[u]
        BY <1>3, <3>4, <3>5
      <3>7. QED
        BY <1>1, <1>2, <2>3, <3>2, <3>6 DEF Recorded, Stays
    <2>4. QED
      BY <1>1, <2>1, <2>2, <2>3 DEF Push
  <1>5. QED
    BY <1>1, <1>4 DEF ThreadsMove

LEMMA ThreadStepMoves ==
  ASSUME Types, NEW t \in Threads, Enter(t) \/ Leave(t) \/ Forget(t) \/ FlushAtExit(t)
  PROVE  ThreadsMove
  <1> USE HistoryAssumption DEF Types, TypeOK
  <1>1. CASE Enter(t)
    <2>1. clock + 1 \in 1..MaxTicks
      BY <1>1 DEF Enter, Record, ThreadTypes
    <2>2. [ticks |-> clock + 1, opens |-> TRUE, frame |-> clock + 1] \in Events
      BY <2>1 DEF Events, Frames
    <2>3. QED
      BY <1>1, <2>2, RecordMoves DEF Enter
  <1>2. CASE Leave(t)
    <2>1. clock + 1 \in 1..MaxTicks
      BY <1>2 DEF Leave, Record, ThreadTypes
    <2>2. Head(stack[t]) \in Frames
      BY <1>2, HeadTailProperties DEF Leave, ThreadTypes
    <2>3. [ticks |-> clock + 1, opens |-> FALSE, frame |-> Head(stack[t])] \in Events
      BY <2>1, <2>2 DEF Events
    <2>4. QED
      BY <1>2, <2>3, RecordMoves DEF Leave
  <1>3. CASE Forget(t)
    BY <1>3, AllStay DEF Forget, ringVars
  <1>4. CASE FlushAtExit(t)
    <2>1. batch[t] # <<>> /\ Ship(t) /\ batch' = [batch EXCEPT ![t] = <<>>]
          /\ UNCHANGED <<history, evicted, horizon, log>>
      BY <1>4 DEF FlushAtExit, ForgottenHasBatch, ringVars
    <2>2. Gone(t) /\ \A u \in Threads \ {t} : rings'[u] = rings[u]
      BY <2>1, ShipGone
    <2>3. batch'[t] = <<>> /\ \A u \in Threads \ {t} : batch'[u] = batch[u]
      BY <2>1 DEF ThreadTypes
    <2>4. QED
      BY <2>1, <2>2, <2>3 DEF ThreadsMove, Shipped, Stays
  <1>5. QED
    BY <1>1, <1>2, <1>3, <1>4

LEMMA StopMoves ==
  ASSUME Types, StopThreads
  PROVE  ThreadsMove
  <1> USE DEF Types, TypeOK
  <1>1. UNCHANGED <<history, evicted, horizon, log>>
    BY DEF StopThreads, ringVars
  <1>2. ASSUME NEW t \in Threads PROVE Stays(t) \/ Shipped(t)
    <2>1. CASE t \notin Registered
      <3>1. rings'[t] = rings[t] /\ batch'[t] = batch[t]
        BY <2>1 DEF StopThreads
      <3>2. QED
        BY <1>1, <3>1 DEF Stays
    <2>2. CASE t \in Registered
      <3>1. batch'[t] = <<>> /\ batch[t] # <<>>
        BY <2>2 DEF StopThreads, Registered
      <3>2. Gone(t)
        BY <2>2, <3>1 DEF StopThreads, Gone
      <3>3. QED
        BY <1>1, <3>1, <3>2 DEF Shipped
    <2>3. QED
      BY <2>1, <2>2
  <1>3. QED
    BY <1>1, <1>2 DEF ThreadsMove

LEMMA StepMoves ==
  ASSUME Types, [Next]_vars
  PROVE  ThreadsMove \/ HistoryMoves \/ Dies
  <1>1. ASSUME NEW t \in Threads, Enter(t) \/ Leave(t) \/ Forget(t) \/ FlushAtExit(t)
        PROVE  ThreadsMove
    BY <1>1, ThreadStepMoves
  <1>2. ASSUME NEW w \in Windows, EnterBlock(w) \/ ExitBlock(w) \/ ExitRefused(w) \/ BlockFails(w)
        PROVE  ThreadsMove
    BY <1>2, AllStay DEF EnterBlock, ExitBlock, ExitRefused, BlockFails, ringVars, threadVars
  <1>3. CASE StopThreads
    BY <1>3, StopMoves
  <1>4. CASE AskWhole \/ Close \/ Join \/ Ended \/ UNCHANGED vars
    BY <1>4, AllStay DEF AskWhole, Close, Join, Ended, ringVars, threadVars, vars
  <1>5. CASE \/ BeginDump \/ NoMessage \/ NothingDrained \/ CheckClosed \/ ReadTails \/ Assemble
             \/ Reply \/ LastAbsorbed
    BY <1>5, AllStay DEF BeginDump, NoMessage, NothingDrained, CheckClosed, ReadTails, Assemble,
       Reply, LastAbsorbed, Goes, ringVars, threadVars
  <1>6. CASE HandleOpen \/ Written
    BY <1>6 DEF HandleOpen, Written, HistoryMoves, Holds, threadVars
  <1>7. ASSUME NEW t \in Threads, Drain(t) \/ Absorb(t) PROVE HistoryMoves
    BY <1>7 DEF Drain, Absorb, HistoryMoves, Takes, threadVars
  <1>8. CASE Die
    BY <1>8 DEF Die, Dies, threadVars
  <1>9. QED
    BY <1>1, <1>2, <1>3, <1>4, <1>5, <1>6, <1>7, <1>8 DEF Next, Recorder

LEMMA TailsChange ==
  ASSUME Types, [Next]_vars
  PROVE  tails' = tails \/ tails' = {} \/ ReadTails
  <1>1. CASE Assemble
    BY <1>1 DEF Assemble
  <1>2. ASSUME NEW t \in Threads, Enter(t) \/ Leave(t) \/ Forget(t) \/ FlushAtExit(t)
        PROVE  tails' = tails
    BY <1>2 DEF Enter, Leave, Forget, FlushAtExit, Record, recorderVars
  <1>3. ASSUME NEW w \in Windows, EnterBlock(w) \/ ExitBlock(w) \/ ExitRefused(w) \/ BlockFails(w)
        PROVE  tails' = tails
    BY <1>3 DEF EnterBlock, ExitBlock, ExitRefused, BlockFails, recorderVars
  <1>4. CASE StopThreads \/ AskWhole \/ Close \/ Join \/ Ended \/ UNCHANGED vars
    BY <1>4 DEF StopThreads, AskWhole, Close, Join, Ended, recorderVars, vars
  <1>5. CASE \/ HandleOpen \/ BeginDump \/ NoMessage \/ NothingDrained \/ CheckClosed
             \/ Written \/ Reply \/ LastAbsorbed \/ Die \/ \E t \in Threads : Drain(t) \/ Absorb(t)
    BY <1>5 DEF HandleOpen, BeginDump, NoMessage, NothingDrained, CheckClosed,
       Written, Reply, LastAbsorbed, Die, Drain, Absorb, Goes, recorderVars
  <1>6. QED
    BY <1>1, <1>2, <1>3, <1>4, <1>5 DEF Next, Recorder

LEMMA RisingNext ==
  ASSUME Types, Rising, [Next]_vars
  PROVE  Rising'
  <1>1. clock \in Nat /\ clock' \in {clock, clock + 1}
    BY ClockGoesOn
  <1>2. PICK U, V : U = RisingTo(clock) /\ V = RisingTo(clock')
    OBVIOUS
  <1>3. U \subseteq V
    BY <1>1, <1>2, RisingOn
  <1>4. \A t \in Threads : batch[t] \in Seq(U) /\ rings[t] \in Seq(U)
    BY <1>2 DEF Rising
  <1>5. history \in Seq(U)
    BY <1>2 DEF Rising
  <1>6. <<>> \in Seq(V) /\ Seq(U) \subseteq Seq(V)
    BY <1>3, EmptySeq
  <1>7. ASSUME NEW t \in Threads PROVE rings[t] \o batch[t] \in Seq(V)
    BY <1>4, <1>6, ConcatProperties
  <1>8. ASSUME NEW t \in Threads, ThreadsMove PROVE batch'[t] \in Seq(V) /\ rings'[t] \in Seq(V)
    <2>1. CASE Stays(t)
      BY <1>4, <1>6, <2>1 DEF Stays
    <2>2. CASE Shipped(t)
      BY <1>4, <1>6, <1>7, <2>2 DEF Shipped, Gone
    <2>3. ASSUME NEW e \in Events, Recorded(t, e) PROVE batch'[t] \in Seq(V) /\ rings'[t] \in Seq(V)
      <3>1. e.ticks = clock + 1 /\ V = RisingTo(clock + 1)
        BY <1>2, <2>3 DEF Recorded
      <3>2. CASE Gone(t) /\ batch'[t] = BatchOf(t, e)
        <4>1. rings'[t] \in Seq(V)
          BY <1>4, <1>6, <1>7, <3>2 DEF Gone
        <4>2. PICK b \in V : BatchOf(t, e) = <<b>>
          BY <1>1, <3>1, NewBatch
        <4>3. <<b>> \in Seq(V)
          OBVIOUS
        <4>4. QED
          BY <3>2, <4>1, <4>2, <4>3
      <3>3. CASE batch[t] # <<>> /\ rings'[t] = rings[t] /\ batch'[t] = <<Longer(batch[t][1], e)>>
        <4>1. batch[t][1] \in RisingTo(clock)
          BY <3>3, BatchInHand
        <4>2. PICK b : b = Longer(batch[t][1], e)
          OBVIOUS
        <4>3. b \in V
          BY <1>1, <3>1, <4>1, <4>2, LongerRises
        <4>4. <<b>> \in Seq(V)
          BY <4>3
        <4>5. QED
          BY <1>4, <1>6, <3>3, <4>2, <4>4
      <3>4. QED
        BY <2>3, <3>2, <3>3 DEF Recorded
    <2>4. QED
      BY <1>8, <2>1, <2>2, <2>3 DEF ThreadsMove
  <1>9. tails' \subseteq V
    <2>1. tails \subseteq U
      BY <1>2 DEF Rising
    <2>2. \A t \in Registered : batch[t][1] \in U
      BY <1>2, BatchInHand DEF Registered
    <2>3. QED
      BY <1>3, <2>1, <2>2, TailsChange DEF ReadTails
  <1>10. ASSUME HistoryMoves \/ Dies
         PROVE  history' \in Seq(V) /\ \A t \in Threads : batch'[t] \in Seq(V) /\ rings'[t] \in Seq(V)
    <2>1. \A t \in Threads : batch'[t] \in Seq(V)
      BY <1>4, <1>6, <1>10 DEF HistoryMoves, Dies
    <2>2. CASE Dies
      BY <1>4, <1>6, <2>1, <2>2 DEF Dies
    <2>3. CASE Holds
      <3>1. history' \in Seq(U)
        BY <1>5, <2>3, HoldRises DEF Holds
      <3>2. QED
        BY <1>4, <1>6, <2>1, <2>3, <3>1 DEF Holds
    <2>4. ASSUME NEW t \in Threads, TakeRing(t)
          PROVE  history' \in Seq(V) /\ \A u \in Threads : rings'[u] \in Seq(V)
      <3>1. history \o rings[t] \in Seq(U)
        BY <1>4, <1>5, ConcatProperties
      <3>2. history' \in Seq(U)
        BY <2>4, <3>1, HoldRises DEF TakeRing
      <3>3. rings' = [rings EXCEPT ![t] = <<>>] /\ rings \in [Threads -> Seq(Batches)]
        BY <2>4 DEF TakeRing, Types, TypeOK, QueueTypes
      <3>4. \A u \in Threads : rings'[u] \in {<<>>, rings[u]}
        BY <3>3
      <3>5. QED
        BY <1>4, <1>6, <3>2, <3>4
    <2>5. QED
      BY <1>10, <2>1, <2>2, <2>3, <2>4 DEF HistoryMoves, Takes
  <1>11. ThreadsMove => history' \in Seq(V)
    BY <1>5, <1>6 DEF ThreadsMove
  <1>12. QED
    BY <1>2, <1>8, <1>9, <1>10, <1>11, StepMoves DEF Rising
---------------------------------------------------------------------------
(* What an open window holds back.                                          *)
\* Batches whose last event is the latest: EventBatch::end_ticks is their maximum.
LatestLast == {b \in Batches : \A i \in DOMAIN b.events : b.events[i].ticks <= EndTicks(b)}

LEMMA LatestTick ==
  ASSUME NEW b \in LatestLast, NEW x \in TicksOf(b.events)
  PROVE  x <= EndTicks(b) /\ x \in Nat /\ EndTicks(b) \in Nat
  <1>1. b \in Batches /\ \A i \in DOMAIN b.events : b.events[i].ticks <= EndTicks(b)
    BY DEF LatestLast
  <1>2. EndTicks(b) \in Nat /\ TicksOf(b.events) \subseteq Nat
    BY <1>1, BatchEnds
  <1>3. x <= EndTicks(b)
    BY <1>1 DEF TicksOf
  <1>4. QED
    BY <1>2, <1>3

\* What Hold gives up although a window is open, it gives up for the hard limit.
LEMMA HeldBack ==
  ASSUME NEW s \in Seq(LatestLast), NEW ws \in SUBSET Windows, start \in [Windows -> 0..MaxTicks],
         Hold(s, ws), NEW w \in ws, NEW x \in evicted' \ evicted, x >= start[w]
  PROVE  Bytes(s) > 2 * CapacityBytes /\ Len(s) > 1
  <1> USE HistoryAssumption
  <1>1. PICK n \in Enough(s, ws) :
          /\ \A m \in Enough(s, ws) : n <= m
          /\ evicted' = evicted \cup UNION {TicksOf(s[i].events) : i \in 1..n}
    BY DEF Hold
  <1>2. PICK i \in 1..n : x \in TicksOf(s[i].events)
    BY <1>1
  <1>3. n \in 0..Len(s) /\ Len(s) \in Nat
    BY <1>1, LenProperties DEF Enough
  <1>4. \A j \in 1..Len(s) : s[j] \in LatestLast
    BY ElementOfSeq
  <1>5. i \in 1..Len(s) /\ s[i] \in LatestLast
    BY <1>2, <1>3, <1>4
  <1>6. Protected(s[i], ws)
    <2>1. x <= EndTicks(s[i]) /\ x \in Nat /\ EndTicks(s[i]) \in Nat
      BY <1>2, <1>5, LatestTick
    <2>2. start[w] \in Nat
      OBVIOUS
    <2>3. QED
      BY <2>1, <2>2 DEF Protected
  <1>7. ~Fits(Without(s, i - 1), ws)
    <2>1. i - 1 \in 0..Len(s) /\ ~(n <= i - 1)
      BY <1>2, <1>3, <1>5
    <2>2. QED
      BY <1>1, <2>1 DEF Enough
  <1> DEFINE left == Without(s, i - 1)
  <1>8. Len(left) = Len(s) - i + 1 /\ left[1] = s[i]
    <2>1. \A j \in ((i - 1) + 1)..Len(s) : s[j] \in LatestLast
      BY <1>4, <1>5
    <2>2. Len(left) = IF (i - 1) + 1 <= Len(s) THEN Len(s) - ((i - 1) + 1) + 1 ELSE 0
      BY <1>3, <1>5, <2>1, SubSeqProperties DEF Without
    <2>3. \A j \in 1..(Len(s) - ((i - 1) + 1) + 1) : left[j] = s[(i - 1) + 1 + j - 1]
      BY <1>3, <1>5, <2>1, SubSeqProperties DEF Without
    <2>4. 1 \in 1..(Len(s) - ((i - 1) + 1) + 1) /\ (i - 1) + 1 + 1 - 1 = i
      BY <1>3, <1>5
    <2>5. left[1] = s[i]
      BY <2>3, <2>4
    <2>6. Len(left) = Len(s) - i + 1
      BY <1>3, <1>5, <2>2
    <2>7. QED
      BY <2>5, <2>6
  <1>9. Len(left) > 1 /\ Bytes(left) > 2 * CapacityBytes
    <2> HIDE DEF left
    <2>1. Protected(left[1], ws) /\ ~Fits(left, ws)
      BY <1>6, <1>7, <1>8 DEF left
    <2>2. Len(left) \in Nat
      BY <1>3, <1>5, <1>8
    <2>3. Bytes(left) \in Nat
      BY <2>2 DEF Bytes
    <2>4. QED
      BY <2>1, <2>2, <2>3 DEF Fits
  <1>10. QED
    <2> HIDE DEF left
    <2>1. Len(left) \in Nat /\ Len(left) <= Len(s)
      BY <1>3, <1>5, <1>8
    <2>2. Len(left) * BatchBytes <= Len(s) * BatchBytes
      BY <1>3, <2>1
    <2>3. QED
      BY <1>3, <1>9, <2>1, <2>2 DEF Bytes

LEMMA RisingIsLatest ==
  ASSUME Types, Rising
  PROVE  /\ history \in Seq(LatestLast)
         /\ \A t \in Threads : rings[t] \in Seq(LatestLast)
  <1>1. clock \in Nat
    BY HistoryAssumption DEF Types, TypeOK, ThreadTypes
  <1>2. ASSUME NEW b \in RisingTo(clock) PROVE b \in LatestLast
    <2>1. b \in Batches /\ Len(b.events) \in Nat /\ b.events \in Seq(Events)
      BY RisingBatch
    <2>2. \A i \in 1..Len(b.events) : b.events[i].ticks <= EndTicks(b)
      BY <1>1, TicksBelow
    <2>3. QED
      BY <2>1, <2>2 DEF LatestLast
  <1>3. ASSUME NEW s \in Seq(RisingTo(clock)) PROVE s \in Seq(LatestLast)
    BY <1>2, <1>3
  <1>4. QED
    BY <1>3 DEF Rising

\* What a step takes out of the history, it takes in Hold.
LEMMA KeptForWindow ==
  ASSUME Types, HistoryBounded, Rising, [Next]_vars,
         NEW w \in windows \cap windows', NEW x \in evicted' \ evicted, x >= start[w]
  PROVE  \E t \in Threads : Bytes(history \o rings[t]) > 2 * CapacityBytes
  <1> USE DEF Types, TypeOK
  <1>1. start \in [Windows -> 0..MaxTicks] /\ windows \subseteq Windows /\ history \in Seq(LatestLast)
    BY RisingIsLatest DEF ClientTypes, RecorderTypes
  <1>2. ASSUME NEW t \in Threads, Drain(t) \/ Absorb(t)
        PROVE  Bytes(history \o rings[t]) > 2 * CapacityBytes
    <2>1. Hold(history \o rings[t], windows)
      BY <1>2 DEF Drain, Absorb, TakeRing
    <2>2. history \o rings[t] \in Seq(LatestLast)
      BY ConcatProperties, RisingIsLatest
    <2>3. QED
      BY <1>1, <2>1, <2>2, HeldBack
  <1>3. CASE HandleOpen \/ Written
    <2>1. Hold(history, windows')
      BY <1>3 DEF HandleOpen, Written
    <2>2. windows' \in SUBSET Windows
      BY <1>3, NextTypes DEF RecorderTypes
    <2>3. Bytes(history) > 2 * CapacityBytes /\ Len(history) > 1
      BY <1>1, <2>1, <2>2, HeldBack
    <2>4. Bytes(history) \in Nat /\ Len(history) \in Nat /\ 2 * CapacityBytes \in Nat
      BY HistoryAssumption, LenProperties DEF Bytes, RingTypes
    <2>5. QED
      BY <2>3, <2>4 DEF HistoryBounded
  <1>4. ASSUME UNCHANGED evicted PROVE FALSE
    BY <1>4
  <1>5. ASSUME NEW t \in Threads PROVE ~(Enter(t) \/ Leave(t) \/ Forget(t) \/ FlushAtExit(t))
    BY <1>4 DEF Enter, Leave, Record, Forget, FlushAtExit, ringVars
  <1>6. ASSUME NEW v \in Windows
        PROVE  ~(EnterBlock(v) \/ ExitBlock(v) \/ ExitRefused(v) \/ BlockFails(v))
    BY <1>4 DEF EnterBlock, ExitBlock, ExitRefused, BlockFails, ringVars
  <1>7. ~(StopThreads \/ AskWhole \/ Close \/ Join \/ Ended \/ UNCHANGED vars)
    BY <1>4 DEF StopThreads, AskWhole, Close, Join, Ended, ringVars, vars
  <1>8. ~(BeginDump \/ NoMessage \/ NothingDrained \/ CheckClosed \/ ReadTails \/ Assemble
          \/ Reply \/ LastAbsorbed \/ Die)
    BY <1>4 DEF BeginDump, NoMessage, NothingDrained, CheckClosed, ReadTails, Assemble, Reply,
       LastAbsorbed, Die, Goes, ringVars
  <1>9. QED
    BY <1>2, <1>3, <1>5, <1>6, <1>7, <1>8 DEF Next, Recorder

\* While a window is open, the history gives up an event of that window only when
\* it and what has just come in exceed twice the capacity, however many windows
\* open and close meanwhile and in which order: the oldest holds the floor
\* (refloor in recorder.rs, evict_over_capacity in ring.rs).
THEOREM WindowsHoldTheHistory == Spec => WindowsKept
  <1>1. Init => Rising
    <2>1. <<>> \in Seq(RisingTo(clock))
      BY EmptySeq
    <2>2. QED
      BY <2>1 DEF Init, Rising
  <1>2. Spec => []Rising
    BY <1>1, RisingNext, TypesHold, PTL DEF Spec
  <1> DEFINE Step == \A w \in windows \cap windows' :
                (\E x \in evicted' \ evicted : x >= start[w]) =>
                    \E t \in Threads : Bytes(history \o rings[t]) > 2 * CapacityBytes
  <1>3. Types /\ HistoryBounded /\ Rising /\ [Next]_vars => [Step]_vars
    BY KeptForWindow
  <1> HIDE DEF Step
  <1>4. Spec => [][Step]_vars
    BY <1>2, <1>3, TypesHold, HistoryNeverOverflows, PTL DEF Spec
  <1>5. QED
    BY <1>4 DEF Step, WindowsKept
---------------------------------------------------------------------------
(* The way of a thread's batches.                                           *)
\* What came later of a thread.
Later(a, b) ==
    \A i \in 1..Len(a.events), j \in 1..Len(b.events) : a.events[i].ticks < b.events[j].ticks

Successive(t, s) ==
    \A i, j \in 1..Len(s) : i < j /\ s[i].tid = t /\ s[j].tid = t => Later(s[i], s[j])

OneAfter(t, r, s) ==
    \A i \in 1..Len(r), j \in 1..Len(s) : r[i].tid = t /\ s[j].tid = t => Later(r[i], s[j])

Own(t, s) == \A i \in 1..Len(s) : s[i].tid = t

InPath(t, h, r, b) ==
    /\ Own(t, r) /\ Own(t, b)
    /\ Successive(t, h) /\ Successive(t, r)
    /\ OneAfter(t, h, r) /\ OneAfter(t, h, b) /\ OneAfter(t, r, b)

\* The batches of a thread stay in order on their way.
Paths == \A t \in Threads : InPath(t, history, rings[t], batch[t])

LEMMA SuccessiveJoin ==
  ASSUME NEW t, NEW S, NEW r \in Seq(S), NEW s \in Seq(S),
         Successive(t, r), Successive(t, s), OneAfter(t, r, s)
  PROVE  Successive(t, r \o s)
  <1>1. PICK both : both = r \o s
    OBVIOUS
  <1>2. /\ Len(r) \in Nat /\ Len(s) \in Nat
        /\ \A i \in 1..Len(both) :
               \/ i \in 1..Len(r) /\ both[i] = r[i]
               \/ i - Len(r) \in 1..Len(s) /\ both[i] = s[i - Len(r)]
    BY <1>1, JoinedParts
  <1>3. ASSUME NEW i \in 1..Len(both), NEW j \in 1..Len(both),
               i < j, both[i].tid = t, both[j].tid = t
        PROVE  Later(both[i], both[j])
    <2>1. CASE i \in 1..Len(r) /\ both[i] = r[i]
      <3>1. CASE j \in 1..Len(r) /\ both[j] = r[j]
        BY <1>3, <2>1, <3>1 DEF Successive
      <3>2. CASE j - Len(r) \in 1..Len(s) /\ both[j] = s[j - Len(r)]
        BY <1>3, <2>1, <3>2 DEF OneAfter
      <3>3. QED
        BY <1>2, <3>1, <3>2
    <2>2. CASE i - Len(r) \in 1..Len(s) /\ both[i] = s[i - Len(r)]
      <3>1. ~(j \in 1..Len(r))
        BY <1>2, <1>3, <2>2
      <3>2. j - Len(r) \in 1..Len(s) /\ both[j] = s[j - Len(r)]
        BY <1>2, <3>1
      <3>3. i - Len(r) < j - Len(r)
        BY <1>2, <1>3
      <3>4. QED
        BY <1>3, <2>2, <3>2, <3>3 DEF Successive
    <2>3. QED
      BY <1>2, <2>1, <2>2
  <1>4. QED
    BY <1>1, <1>3 DEF Successive

LEMMA AfterJoin ==
  ASSUME NEW t, NEW S, NEW r \in Seq(S), NEW s \in Seq(S), NEW b
  PROVE  /\ OneAfter(t, r, b) /\ OneAfter(t, s, b) => OneAfter(t, r \o s, b)
         /\ OneAfter(t, b, r) /\ OneAfter(t, b, s) => OneAfter(t, b, r \o s)
  <1>1. PICK both : both = r \o s
    OBVIOUS
  <1>2. \A i \in 1..Len(both) :
            \/ i \in 1..Len(r) /\ both[i] = r[i]
            \/ i - Len(r) \in 1..Len(s) /\ both[i] = s[i - Len(r)]
    BY <1>1, JoinedParts
  <1>3. OneAfter(t, r, b) /\ OneAfter(t, s, b) => OneAfter(t, both, b)
    BY <1>2, Zenon DEF OneAfter
  <1>4. OneAfter(t, b, r) /\ OneAfter(t, b, s) => OneAfter(t, b, both)
    BY <1>2, Zenon DEF OneAfter
  <1>5. QED
    BY <1>1, <1>3, <1>4

LEMMA OwnJoin ==
  ASSUME NEW t, NEW S, NEW r \in Seq(S), NEW s \in Seq(S), Own(t, r), Own(t, s)
  PROVE  Own(t, r \o s)
  <1>1. PICK both : both = r \o s
    OBVIOUS
  <1>2. \A i \in 1..Len(both) :
            \/ i \in 1..Len(r) /\ both[i] = r[i]
            \/ i - Len(r) \in 1..Len(s) /\ both[i] = s[i - Len(r)]
    BY <1>1, JoinedParts
  <1>3. Own(t, both)
    BY <1>2 DEF Own
  <1>4. QED
    BY <1>1, <1>3

LEMMA NoneAfter ==
  ASSUME NEW t
  PROVE  /\ Own(t, <<>>) /\ Successive(t, <<>>)
         /\ \A s : OneAfter(t, s, <<>>) /\ OneAfter(t, <<>>, s)
  <1>1. PICK none : none = <<>>
    OBVIOUS
  <1>2. \A i \in 1..Len(none) : FALSE
    BY <1>1
  <1>3. Own(t, none) /\ Successive(t, none) /\ \A s : OneAfter(t, s, none) /\ OneAfter(t, none, s)
    BY <1>2 DEF Own, Successive, OneAfter
  <1>4. QED
    BY <1>1, <1>3

LEMMA OneSuccessive ==
  ASSUME NEW t, NEW S, NEW s \in Seq(S), Len(s) <= 1
  PROVE  Successive(t, s)
  <1>1. Len(s) \in Nat
    BY LenProperties
  <1>2. QED
    BY <1>1 DEF Successive

\* Another thread's batches are of no concern.
LEMMA OthersBatches ==
  ASSUME NEW t, NEW u, t # u, NEW s, Own(u, s)
  PROVE  Successive(t, s) /\ \A r : OneAfter(t, r, s) /\ OneAfter(t, s, r)
  BY DEF Own, Successive, OneAfter

LEMMA PathShipped ==
  ASSUME NEW t, NEW S, NEW h \in Seq(S), NEW r \in Seq(S), NEW b \in Seq(S), Len(b) <= 1,
         InPath(t, h, r, b)
  PROVE  InPath(t, h, r \o b, <<>>) /\ InPath(t, h, r, <<>>)
  <1>1. Successive(t, b)
    BY OneSuccessive
  <1>2. Successive(t, r \o b)
    BY <1>1, SuccessiveJoin DEF InPath
  <1>3. Own(t, r \o b)
    BY OwnJoin DEF InPath
  <1>4. OneAfter(t, h, r \o b)
    BY AfterJoin DEF InPath
  <1>5. QED
    BY <1>2, <1>3, <1>4, NoneAfter DEF InPath

LEMMA PathTaken ==
  ASSUME NEW t, NEW S, NEW h \in Seq(S), NEW r \in Seq(S), NEW b \in Seq(S), InPath(t, h, r, b)
  PROVE  InPath(t, h \o r, <<>>, b)
  <1>1. Successive(t, h \o r)
    BY SuccessiveJoin DEF InPath
  <1>2. OneAfter(t, h \o r, b)
    BY AfterJoin DEF InPath
  <1>3. QED
    BY <1>1, <1>2, NoneAfter DEF InPath

LEMMA PathBeside ==
  ASSUME NEW t, NEW u, t # u, NEW S, NEW h \in Seq(S), NEW r, NEW b, NEW s \in Seq(S),
         InPath(t, h, r, b), Own(u, s)
  PROVE  InPath(t, h \o s, r, b)
  <1>1. Successive(t, s) /\ \A v : OneAfter(t, v, s) /\ OneAfter(t, s, v)
    BY OthersBatches
  <1>2. Successive(t, h \o s)
    BY <1>1, SuccessiveJoin DEF InPath
  <1>3. OneAfter(t, h \o s, r) /\ OneAfter(t, h \o s, b)
    BY <1>1, AfterJoin DEF InPath
  <1>4. QED
    BY <1>2, <1>3 DEF InPath

LEMMA WithoutFirst ==
  ASSUME NEW S, NEW s \in Seq(S), NEW n \in 0..Len(s)
  PROVE  /\ Len(s) \in Nat /\ Len(Without(s, n)) = Len(s) - n
         /\ \A i \in 1..(Len(s) - n) : i + n \in 1..Len(s) /\ Without(s, n)[i] = s[i + n]
  <1>1. Len(s) \in Nat /\ \A i \in 1..Len(s) : s[i] \in S
    BY ElementOfSeq, LenProperties
  <1>2. \A i \in (n + 1)..Len(s) : s[i] \in S
    BY <1>1
  <1>3. Len(Without(s, n)) = IF n + 1 <= Len(s) THEN Len(s) - (n + 1) + 1 ELSE 0
    BY <1>1, <1>2, SubSeqProperties DEF Without
  <1>4. \A i \in 1..(Len(s) - (n + 1) + 1) : Without(s, n)[i] = s[(n + 1) + i - 1]
    BY <1>1, <1>2, SubSeqProperties DEF Without
  <1>5. Len(Without(s, n)) = Len(s) - n
    BY <1>1, <1>3
  <1>6. ASSUME NEW i \in 1..(Len(s) - n) PROVE i + n \in 1..Len(s) /\ Without(s, n)[i] = s[i + n]
    <2>1. i \in 1..(Len(s) - (n + 1) + 1) /\ (n + 1) + i - 1 = i + n /\ i + n \in 1..Len(s)
      BY <1>1
    <2>2. QED
      BY <1>4, <2>1
  <1>7. QED
    BY <1>1, <1>5, <1>6

LEMMA PathHeld ==
  ASSUME NEW t, NEW S, NEW h \in Seq(S), NEW r, NEW b, NEW n \in 0..Len(h), InPath(t, h, r, b)
  PROVE  InPath(t, Without(h, n), r, b)
  <1>1. PICK left : left = Without(h, n)
    OBVIOUS
  <1>2. /\ Len(h) \in Nat /\ Len(left) = Len(h) - n
        /\ \A i \in 1..Len(left) : i + n \in 1..Len(h) /\ left[i] = h[i + n]
    BY <1>1, WithoutFirst
  <1>3. ASSUME NEW i \in 1..Len(left), NEW j \in 1..Len(left),
               i < j, left[i].tid = t, left[j].tid = t
        PROVE  Later(left[i], left[j])
    <2>1. i + n < j + n
      BY <1>2, <1>3
    <2>2. QED
      BY <1>2, <1>3, <2>1 DEF InPath, Successive
  <1>4. OneAfter(t, left, r) /\ OneAfter(t, left, b)
    BY <1>2 DEF InPath, OneAfter
  <1>5. QED
    BY <1>1, <1>3, <1>4 DEF InPath, Successive

\* A batch whose events are all older.
LEMMA OlderBatch ==
  ASSUME NEW c \in Nat, NEW a \in RisingTo(c), NEW e, e.ticks = c + 1, NEW i \in 1..Len(a.events)
  PROVE  a.events[i].ticks < e.ticks
  <1>1. a.events[i].ticks <= c /\ a.events[i].ticks \in Nat
    BY TicksBelow
  <1>2. QED
    BY <1>1

LEMMA PathNew ==
  ASSUME NEW t \in Threads, NEW c \in Nat, NEW h \in Seq(RisingTo(c)), NEW r \in Seq(RisingTo(c)),
         NEW e \in Events, e.ticks = c + 1, InPath(t, h, r, <<>>)
  PROVE  InPath(t, h, r, BatchOf(t, e))
  <1>1. PICK b : BatchOf(t, e) = <<b>> /\ b.tid = t /\ b.events = <<e>>
    BY NewBatch
  <1>2. Len(<<b>>) = 1 /\ <<b>>[1] = b /\ Len(<<e>>) = 1 /\ <<e>>[1] = e
    OBVIOUS
  <1>3. Own(t, <<b>>)
    BY <1>1, <1>2 DEF Own
  <1>4. ASSUME NEW a \in RisingTo(c) PROVE Later(a, b)
    <2>1. \A i \in 1..Len(a.events) : a.events[i].ticks < e.ticks
      BY OlderBatch
    <2>2. QED
      BY <1>1, <1>2, <2>1 DEF Later
  <1>5. ASSUME NEW s \in Seq(RisingTo(c)) PROVE OneAfter(t, s, <<b>>)
    <2>1. \A i \in 1..Len(s) : Later(s[i], b)
      BY <1>4, ElementOfSeq
    <2>2. QED
      BY <1>2, <2>1 DEF OneAfter
  <1>6. QED
    BY <1>1, <1>3, <1>5 DEF InPath

LEMMA PathLonger ==
  ASSUME NEW t \in Threads, NEW c \in Nat, NEW h \in Seq(RisingTo(c)), NEW r \in Seq(RisingTo(c)),
         NEW old \in RisingTo(c), NEW e \in Events, e.ticks = c + 1, InPath(t, h, r, <<old>>)
  PROVE  InPath(t, h, r, <<Longer(old, e)>>)
  <1>1. PICK b : b = Longer(old, e)
    OBVIOUS
  <1>2. /\ b.tid = old.tid /\ Len(b.events) = Len(old.events) + 1
        /\ \A i \in 1..Len(old.events) : b.events[i] = old.events[i]
        /\ b.events[Len(old.events) + 1] = e
    BY <1>1, LongerRises
  <1>3. Len(<<b>>) = 1 /\ <<b>>[1] = b /\ Len(<<old>>) = 1 /\ <<old>>[1] = old
    OBVIOUS
  <1>4. Own(t, <<b>>) /\ old.tid = t
    BY <1>2, <1>3 DEF InPath, Own
  <1>5. ASSUME NEW a \in RisingTo(c), Later(a, old) PROVE Later(a, b)
    <2>1. ASSUME NEW i \in 1..Len(a.events), NEW j \in 1..Len(b.events)
          PROVE  a.events[i].ticks < b.events[j].ticks
      <3>1. CASE j \in 1..Len(old.events)
        BY <1>2, <1>5, <3>1 DEF Later
      <3>2. CASE j = Len(old.events) + 1
        BY <1>2, <3>2, OlderBatch
      <3>3. Len(old.events) \in Nat
        BY RisingBatch
      <3>4. QED
        BY <1>2, <3>1, <3>2, <3>3
    <2>2. QED
      BY <2>1 DEF Later
  <1>6. ASSUME NEW s \in Seq(RisingTo(c)), OneAfter(t, s, <<old>>) PROVE OneAfter(t, s, <<b>>)
    <2>1. ASSUME NEW i \in 1..Len(s), s[i].tid = t PROVE Later(s[i], b)
      <3>1. Later(s[i], old)
        BY <1>3, <1>4, <1>6, <2>1 DEF OneAfter
      <3>2. QED
        BY <1>5, <3>1, ElementOfSeq
    <2>2. QED
      BY <1>3, <2>1 DEF OneAfter
  <1>7. QED
    BY <1>1, <1>4, <1>6 DEF InPath

LEMMA PathsNext ==
  ASSUME Types, Rising, Paths, [Next]_vars
  PROVE  Paths'
  <1>1. clock \in Nat
    BY ClockGoesOn
  <1>2. PICK S : S = RisingTo(clock)
    OBVIOUS
  <1>3. history \in Seq(S) /\ \A t \in Threads : batch[t] \in Seq(S) /\ rings[t] \in Seq(S)
    BY <1>2 DEF Rising
  <1>4. \A t \in Threads : Len(batch[t]) <= 1
    BY DEF Types, TypeOK, ThreadTypes
  <1>5. ASSUME NEW t \in Threads, Gone(t) PROVE InPath(t, history, rings'[t], <<>>)
    <2>1. InPath(t, history, rings[t] \o batch[t], <<>>) /\ InPath(t, history, rings[t], <<>>)
      BY <1>3, <1>4, PathShipped DEF Paths
    <2>2. QED
      BY <1>5, <2>1 DEF Gone
  <1>6. ASSUME NEW t \in Threads, Gone(t) PROVE rings'[t] \in Seq(S)
    <2>1. rings[t] \o batch[t] \in Seq(S)
      BY <1>3, ConcatProperties
    <2>2. QED
      BY <1>3, <1>6, <2>1 DEF Gone
  <1>7. ASSUME ThreadsMove, NEW t \in Threads PROVE InPath(t, history', rings'[t], batch'[t])
    <2>1. history' = history
      BY <1>7 DEF ThreadsMove
    <2>2. CASE Stays(t)
      BY <2>1, <2>2 DEF Stays, Paths
    <2>3. CASE Shipped(t)
      BY <1>5, <2>1, <2>3 DEF Shipped
    <2>4. ASSUME NEW e \in Events, Recorded(t, e) PROVE InPath(t, history, rings'[t], batch'[t])
      <3>1. e.ticks = clock + 1
        BY <2>4 DEF Recorded
      <3>2. CASE Gone(t) /\ batch'[t] = BatchOf(t, e)
        <4>1. rings'[t] \in Seq(RisingTo(clock)) /\ history \in Seq(RisingTo(clock))
          BY <1>2, <1>3, <1>6, <3>2
        <4>2. InPath(t, history, rings'[t], BatchOf(t, e))
          BY <1>1, <1>5, <3>1, <3>2, <4>1, PathNew
        <4>3. QED
          BY <3>2, <4>2
      <3>3. CASE batch[t] # <<>> /\ rings'[t] = rings[t] /\ batch'[t] = <<Longer(batch[t][1], e)>>
        <4>1. PICK old \in RisingTo(clock) : old = batch[t][1] /\ batch[t] = <<old>>
          BY <3>3, BatchInHand
        <4>2. InPath(t, history, rings[t], <<old>>)
          BY <4>1 DEF Paths
        <4>3. InPath(t, history, rings[t], <<Longer(old, e)>>)
          BY <1>1, <1>2, <1>3, <3>1, <4>2, PathLonger
        <4>4. QED
          BY <3>3, <4>1, <4>3
      <3>4. QED
        BY <2>4, <3>2, <3>3 DEF Recorded
    <2>5. QED
      BY <1>7, <2>1, <2>2, <2>3, <2>4 DEF ThreadsMove
  <1>8. ASSUME NEW s \in Seq(S), NEW ws, Hold(s, ws), NEW t, NEW r, NEW b, InPath(t, s, r, b)
        PROVE  InPath(t, history', r, b)
    <2>1. PICK n \in 0..Len(s) : history' = Without(s, n)
      BY <1>8 DEF Hold, Enough
    <2>2. QED
      BY <1>8, <2>1, PathHeld
  <1>9. ASSUME HistoryMoves, NEW t \in Threads PROVE InPath(t, history', rings'[t], batch'[t])
    <2>1. batch'[t] = batch[t]
      BY <1>9 DEF HistoryMoves
    <2>2. CASE Holds
      <3>1. PICK ws : Hold(history, ws) /\ UNCHANGED rings
        BY <2>2 DEF Holds
      <3>2. InPath(t, history, rings[t], batch[t])
        BY DEF Paths
      <3>3. InPath(t, history', rings[t], batch[t])
        BY <1>3, <1>8, <3>1, <3>2
      <3>4. QED
        BY <2>1, <3>1, <3>3
    <2>3. ASSUME NEW u \in Threads, TakeRing(u) PROVE InPath(t, history', rings'[t], batch[t])
      <3>1. rings' = [rings EXCEPT ![u] = <<>>] /\ rings \in [Threads -> Seq(Batches)]
        BY <2>3 DEF TakeRing, Types, TypeOK, QueueTypes
      <3>2. rings'[t] = IF t = u THEN <<>> ELSE rings[t]
        BY <3>1
      <3>3. PICK joined : joined = history \o rings[u]
        OBVIOUS
      <3>4. joined \in Seq(S)
        BY <1>3, <3>3, ConcatProperties
      <3>5. InPath(t, joined, rings'[t], batch[t])
        <4>1. CASE t = u
          <5>1. InPath(t, history \o rings[t], <<>>, batch[t])
            BY <1>3, PathTaken DEF Paths
          <5>2. QED
            BY <3>2, <3>3, <4>1, <5>1
        <4>2. CASE t # u
          <5>1. InPath(t, history, rings[t], batch[t]) /\ Own(u, rings[u])
            BY DEF Paths, InPath
          <5>2. InPath(t, history \o rings[u], rings[t], batch[t])
            BY <1>3, <4>2, <5>1, PathBeside
          <5>3. QED
            BY <3>2, <3>3, <4>2, <5>2
        <4>3. QED
          BY <4>1, <4>2
      <3>6. QED
        BY <1>8, <2>3, <3>3, <3>4, <3>5 DEF TakeRing
    <2>4. QED
      BY <1>9, <2>1, <2>2, <2>3 DEF HistoryMoves, Takes
  <1>10. ASSUME Dies, NEW t \in Threads PROVE InPath(t, history', rings'[t], batch'[t])
    BY <1>10, NoneAfter DEF Dies, Paths, InPath
  <1>11. QED
    BY <1>7, <1>9, <1>10, StepMoves DEF Paths
---------------------------------------------------------------------------
(* Where events are.                                                        *)
HeldIn(s, t, x) ==
    \E j \in 1..Len(s) : \E l \in 1..Len(s[j].events) :
        s[j].tid = t /\ x = s[j].events[l]

Somewhere(t, e) ==
    \/ e.ticks \in lost \cup evicted
    \/ HeldIn(history, t, e) \/ HeldIn(rings[t], t, e) \/ HeldIn(batch[t], t, e)

\* Every event is somewhere on its way, but for those that are lost or evicted.
NothingForgotten ==
    pc # "dead" => \A t \in Threads : \A j \in 1..Len(log[t]) : Somewhere(t, log[t][j])

LEMMA HeldInJoin ==
  ASSUME NEW t, NEW e, NEW S, NEW r \in Seq(S), NEW s \in Seq(S), HeldIn(r, t, e) \/ HeldIn(s, t, e)
  PROVE  HeldIn(r \o s, t, e)
  <1>1. PICK both : both = r \o s
    OBVIOUS
  <1>2. /\ \A i \in 1..Len(r) : i \in 1..Len(both) /\ both[i] = r[i]
        /\ \A i \in 1..Len(s) : Len(r) + i \in 1..Len(both) /\ both[Len(r) + i] = s[i]
    <2>1. \A i \in 1..Len(r) : i \in 1..Len(r \o s) /\ (r \o s)[i] = r[i]
      BY JoinedParts
    <2>2. \A i \in 1..Len(s) : Len(r) + i \in 1..Len(r \o s) /\ (r \o s)[Len(r) + i] = s[i]
      BY JoinedParts
    <2>3. QED
      BY <1>1, <2>1, <2>2
  <1>3. CASE HeldIn(r, t, e)
    <2>1. PICK j \in 1..Len(r) : \E l \in 1..Len(r[j].events) : r[j].tid = t /\ e = r[j].events[l]
      BY <1>3 DEF HeldIn
    <2>2. j \in 1..Len(both) /\ both[j] = r[j]
      BY <1>2
    <2>3. QED
      BY <1>1, <2>1, <2>2 DEF HeldIn
  <1>4. CASE HeldIn(s, t, e)
    <2>1. PICK j \in 1..Len(s) : \E l \in 1..Len(s[j].events) : s[j].tid = t /\ e = s[j].events[l]
      BY <1>4 DEF HeldIn
    <2>2. Len(r) + j \in 1..Len(both) /\ both[Len(r) + j] = s[j]
      BY <1>2
    <2>3. QED
      BY <1>1, <2>1, <2>2 DEF HeldIn
  <1>5. QED
    BY <1>3, <1>4

\* What Hold gives up is evicted.
LEMMA HeldOrEvicted ==
  ASSUME NEW t, NEW e, NEW s \in Seq(Batches), NEW ws, Hold(s, ws), HeldIn(s, t, e)
  PROVE  HeldIn(history', t, e) \/ e.ticks \in evicted'
  <1>1. PICK n \in 0..Len(s) :
             /\ history' = Without(s, n)
             /\ evicted' = evicted \cup UNION {TicksOf(s[i].events) : i \in 1..n}
    BY DEF Hold, Enough
  <1>2. PICK j \in 1..Len(s) : \E l \in 1..Len(s[j].events) : s[j].tid = t /\ e = s[j].events[l]
    BY DEF HeldIn
  <1>3. PICK l \in 1..Len(s[j].events) : s[j].tid = t /\ e = s[j].events[l]
    BY <1>2
  <1>4. PICK left : left = Without(s, n)
    OBVIOUS
  <1>5. /\ Len(s) \in Nat /\ Len(left) = Len(s) - n
        /\ \A i \in 1..(Len(s) - n) : left[i] = s[i + n]
    BY <1>4, WithoutFirst
  <1>6. CASE j <= n
    <2>1. j \in 1..n
      BY <1>6
    <2>2. s[j].events \in Seq(Events)
      <3>1. s[j] \in Batches
        BY ElementOfSeq
      <3>2. QED
        BY <3>1 DEF Batches
    <2>3. e.ticks \in TicksOf(s[j].events)
      BY <1>3, <2>2, LenProperties DEF TicksOf
    <2>4. QED
      BY <1>1, <2>1, <2>3
  <1>7. CASE ~(j <= n)
    <2>1. PICK i : i = j - n
      OBVIOUS
    <2>2. i \in 1..Len(left) /\ i \in 1..(Len(s) - n) /\ i + n = j
      BY <1>5, <1>7, <2>1
    <2>3. left[i] = s[j]
      BY <1>5, <2>2
    <2>4. HeldIn(left, t, e)
      BY <1>3, <2>2, <2>3 DEF HeldIn
    <2>5. QED
      BY <1>1, <1>4, <2>4
  <1>8. QED
    BY <1>6, <1>7

LEMMA LostGrows ==
  ASSUME Types, [Next]_vars
  PROVE  lost \subseteq lost'
  <1>1. ASSUME NEW t \in Threads, Enter(t) \/ Leave(t) \/ Forget(t) \/ FlushAtExit(t)
        PROVE  lost \subseteq lost'
    BY <1>1 DEF Enter, Leave, Forget, FlushAtExit, Record, Push, Ship
  <1>2. ASSUME NEW w \in Windows, EnterBlock(w) \/ ExitBlock(w) \/ ExitRefused(w) \/ BlockFails(w)
        PROVE  lost \subseteq lost'
    BY <1>2 DEF EnterBlock, ExitBlock, ExitRefused, BlockFails
  <1>3. CASE StopThreads
    BY <1>3 DEF StopThreads
  <1>4. CASE AskWhole \/ Close \/ Join \/ Ended \/ UNCHANGED vars
    BY <1>4 DEF AskWhole, Close, Join, Ended, vars
  <1>5. CASE \/ HandleOpen \/ BeginDump \/ NoMessage \/ NothingDrained \/ CheckClosed \/ ReadTails
             \/ Assemble \/ Written \/ Reply \/ LastAbsorbed \/ Die
    BY <1>5 DEF HandleOpen, BeginDump, NoMessage, NothingDrained, CheckClosed, ReadTails,
       Assemble, Written, Reply, LastAbsorbed, Die, Goes
  <1>6. ASSUME NEW t \in Threads, Drain(t) \/ Absorb(t) PROVE lost \subseteq lost'
    BY <1>6 DEF Drain, Absorb
  <1>7. QED
    BY <1>1, <1>2, <1>3, <1>4, <1>5, <1>6 DEF Next, Recorder

LEMMA DeadStaysDead ==
  ASSUME Types, pc = "dead", [Next]_vars
  PROVE  pc' = "dead"
  <1>1. ASSUME NEW t \in Threads, Enter(t) \/ Leave(t) \/ Forget(t) \/ FlushAtExit(t)
        PROVE  pc' = "dead"
    BY <1>1 DEF Enter, Leave, Forget, FlushAtExit, Record, recorderVars
  <1>2. ASSUME NEW w \in Windows, EnterBlock(w) \/ ExitBlock(w) \/ ExitRefused(w) \/ BlockFails(w)
        PROVE  pc' = "dead"
    BY <1>2 DEF EnterBlock, ExitBlock, ExitRefused, BlockFails, recorderVars
  <1>3. CASE StopThreads \/ AskWhole \/ Close \/ Join \/ Ended \/ UNCHANGED vars
    BY <1>3 DEF StopThreads, AskWhole, Close, Join, Ended, recorderVars, vars
  <1>4. ~(\/ HandleOpen \/ BeginDump \/ NoMessage \/ NothingDrained \/ CheckClosed \/ ReadTails
          \/ Assemble \/ Written \/ Reply \/ LastAbsorbed \/ Die)
    BY DEF HandleOpen, BeginDump, NoMessage, NothingDrained, CheckClosed, ReadTails,
       Assemble, Written, Reply, LastAbsorbed, Die, Goes
  <1>5. ASSUME NEW t \in Threads, Drain(t) \/ Absorb(t) PROVE pc' = "dead"
    BY <1>5 DEF Drain, Absorb, recorderVars
  <1>6. QED
    BY <1>1, <1>2, <1>3, <1>4, <1>5 DEF Next, Recorder

LEMMA GoneSomewhere ==
  ASSUME Types, Paths, [Next]_vars, NEW t \in Threads, Gone(t),
         NEW e, HeldIn(rings[t], t, e) \/ HeldIn(batch[t], t, e)
  PROVE  e.ticks \in lost' \/ HeldIn(rings'[t], t, e)
  <1>1. rings[t] \in Seq(Batches) /\ batch[t] \in Seq(Batches) /\ Len(batch[t]) <= 1
    BY DEF Types, TypeOK, ThreadTypes, QueueTypes
  <1>2. CASE rings'[t] = rings[t] \o batch[t]
    BY <1>1, <1>2, HeldInJoin
  <1>3. CASE rings'[t] = rings[t] /\ batch[t] # <<>> /\ TicksOf(batch[t][1].events) \subseteq lost'
    <2>1. CASE HeldIn(rings[t], t, e)
      BY <1>3, <2>1
    <2>2. CASE HeldIn(batch[t], t, e)
      <3>1. PICK n \in 1..Len(batch[t]) : \E l \in 1..Len(batch[t][n].events) : e = batch[t][n].events[l]
        BY <2>2 DEF HeldIn
      <3>2. Len(batch[t]) = 1 /\ batch[t][1] \in Batches
        BY <1>1, <1>3, OneBatch
      <3>3. n = 1
        BY <3>1, <3>2
      <3>4. PICK l \in 1..Len(batch[t][1].events) : e = batch[t][1].events[l]
        BY <3>1, <3>3
      <3>5. batch[t][1].events \in Seq(Events)
        BY <3>2 DEF Batches
      <3>6. e.ticks \in TicksOf(batch[t][1].events)
        BY <3>4, <3>5, LenProperties DEF TicksOf
      <3>7. QED
        BY <1>3, <3>6
    <2>3. QED
      BY <2>1, <2>2
  <1>4. QED
    BY <1>2, <1>3 DEF Gone

LEMMA NewInBatch ==
  ASSUME NEW t \in Threads, NEW c \in Nat, NEW e \in Events, e.ticks = c + 1
  PROVE  HeldIn(BatchOf(t, e), t, e)
  <1>1. PICK b : BatchOf(t, e) = <<b>> /\ b.tid = t /\ b.events = <<e>>
    BY NewBatch
  <1>2. PICK s, l : s = <<b>> /\ l = <<e>>
    OBVIOUS
  <1>3. Len(s) = 1 /\ s[1] = b /\ Len(l) = 1 /\ l[1] = e
    BY <1>2
  <1>4. 1 \in 1..Len(s) /\ 1 \in 1..Len(s[1].events) /\ s[1].tid = t /\ e = s[1].events[1]
    <2>1. b.events = l /\ 1 \in 1..1
      BY <1>1, <1>2
    <2>2. QED
      BY <1>1, <1>3, <2>1
  <1>5. HeldIn(s, t, e)
    BY <1>4 DEF HeldIn
  <1>6. QED
    BY <1>1, <1>2, <1>5

LEMMA StillInLonger ==
  ASSUME NEW t \in Threads, NEW c \in Nat, NEW old \in RisingTo(c), NEW e \in Events,
         e.ticks = c + 1, old.tid = t, NEW x, HeldIn(<<old>>, t, x) \/ x = e
  PROVE  HeldIn(<<Longer(old, e)>>, t, x)
  <1>1. PICK b : b = Longer(old, e)
    OBVIOUS
  <1>2. /\ b.tid = t /\ Len(b.events) = Len(old.events) + 1
        /\ \A i \in 1..Len(old.events) : b.events[i] = old.events[i]
        /\ b.events[Len(old.events) + 1] = e
    BY <1>1, LongerRises
  <1>3. Len(old.events) \in Nat
    BY RisingBatch
  <1>4. PICK s, r : s = <<b>> /\ r = <<old>>
    OBVIOUS
  <1>5. Len(s) = 1 /\ s[1] = b /\ Len(r) = 1 /\ r[1] = old
    BY <1>4
  <1>6. 1 \in 1..Len(s) /\ \A i \in 1..Len(old.events) : i \in 1..Len(b.events)
    BY <1>2, <1>3, <1>5
  <1>7. CASE HeldIn(r, t, x)
    <2>1. PICK l \in 1..Len(old.events) : x = old.events[l]
      BY <1>5, <1>7 DEF HeldIn
    <2>2. l \in 1..Len(b.events) /\ x = b.events[l]
      BY <1>2, <1>6, <2>1
    <2>3. HeldIn(s, t, x)
      BY <1>2, <1>5, <1>6, <2>2 DEF HeldIn
    <2>4. QED
      BY <1>1, <1>4, <2>3
  <1>8. CASE x = e
    <2>1. Len(old.events) + 1 \in 1..Len(b.events)
      BY <1>2, <1>3
    <2>2. HeldIn(s, t, x)
      BY <1>2, <1>5, <1>6, <1>8, <2>1 DEF HeldIn
    <2>3. QED
      BY <1>1, <1>4, <2>2
  <1>9. QED
    BY <1>4, <1>7, <1>8

LEMMA ForgottenNothingNext ==
  ASSUME Types, Rising, Paths, NothingForgotten, [Next]_vars
  PROVE  NothingForgotten'
  <1> SUFFICES ASSUME pc' # "dead", NEW t \in Threads, NEW j \in 1..Len(log'[t]),
                      NEW x, x = log'[t][j]
               PROVE  Somewhere(t, x)'
    BY DEF NothingForgotten, Somewhere
  <1>1. pc # "dead" /\ ~Dies
    BY DeadStaysDead DEF Dies
  <1>2. \A k \in 1..Len(log[t]) : Somewhere(t, log[t][k])
    BY <1>1 DEF NothingForgotten
  <1>3. lost \subseteq lost' /\ clock \in Nat
    BY LostGrows, ClockGoesOn
  <1>4. log[t] \in Seq(Events) /\ history \in Seq(Batches) /\ \A u \in Threads : rings[u] \in Seq(Batches)
    BY DEF Types, TypeOK, ThreadTypes, QueueTypes, RingTypes
  <1>5. x = log'[t][j]
    OBVIOUS
  <1>6. ASSUME ThreadsMove PROVE Somewhere(t, x)'
    <2>1. history' = history /\ evicted' = evicted
      BY <1>6 DEF ThreadsMove
    <2>2. ASSUME NEW y, Somewhere(t, y), Gone(t)
          PROVE  y.ticks \in lost' \cup evicted' \/ HeldIn(history', t, y) \/ HeldIn(rings'[t], t, y)
      <3>1. HeldIn(rings[t], t, y) \/ HeldIn(batch[t], t, y)
            => y.ticks \in lost' \/ HeldIn(rings'[t], t, y)
        BY <2>2, GoneSomewhere
      <3>2. QED
        BY <1>3, <2>1, <2>2, <3>1 DEF Somewhere
    <2>3. CASE Stays(t)
      <3>1. Somewhere(t, x)
        BY <1>2, <1>5, <2>3 DEF Stays
      <3>2. QED
        BY <1>3, <2>1, <2>3, <3>1 DEF Stays, Somewhere
    <2>4. CASE Shipped(t)
      <3>1. Somewhere(t, x)
        BY <1>2, <1>5, <2>4 DEF Shipped
      <3>2. QED
        BY <2>2, <2>4, <3>1 DEF Shipped, Somewhere
    <2>5. ASSUME NEW e \in Events, Recorded(t, e) PROVE Somewhere(t, x)'
      <3>1. e.ticks = clock + 1 /\ log'[t] = Append(log[t], e)
        BY <2>5 DEF Recorded
      <3>2. Somewhere(t, x) \/ x = e
        <4>1. Len(log'[t]) = Len(log[t]) + 1 /\ Len(log[t]) \in Nat
          BY <1>4, <3>1, AppendProperties, LenProperties
        <4>2. CASE j \in 1..Len(log[t])
          <5>1. log'[t][j] = log[t][j]
            BY <1>4, <3>1, <4>2, AppendProperties
          <5>2. QED
            BY <1>2, <1>5, <4>2, <5>1
        <4>3. CASE j = Len(log[t]) + 1
          <5>1. log'[t][j] = e
            BY <1>4, <3>1, <4>3, AppendProperties
          <5>2. QED
            BY <1>5, <5>1
        <4>4. QED
          BY <4>1, <4>2, <4>3
      <3>3. CASE Gone(t) /\ batch'[t] = BatchOf(t, e)
        <4>1. CASE Somewhere(t, x)
          BY <2>2, <3>3, <4>1 DEF Somewhere
        <4>2. CASE x = e
          <5>1. HeldIn(batch'[t], t, e)
            BY <1>3, <3>1, <3>3, NewInBatch
          <5>2. QED
            BY <4>2, <5>1 DEF Somewhere
        <4>3. QED
          BY <3>2, <4>1, <4>2
      <3>4. CASE batch[t] # <<>> /\ rings'[t] = rings[t] /\ batch'[t] = <<Longer(batch[t][1], e)>>
        <4>1. PICK old \in RisingTo(clock) : old = batch[t][1] /\ batch[t] = <<old>> /\ Len(batch[t]) = 1
          BY <3>4, BatchInHand
        <4>2. old.tid = t
          <5>1. 1 \in 1..Len(batch[t])
            BY <4>1
          <5>2. QED
            BY <4>1, <5>1 DEF Paths, InPath, Own
        <4>3. HeldIn(batch[t], t, x) \/ x = e => HeldIn(batch'[t], t, x)
          <5>1. HeldIn(<<old>>, t, x) \/ x = e => HeldIn(<<Longer(old, e)>>, t, x)
            BY <1>3, <3>1, <4>2, StillInLonger
          <5>2. QED
            BY <3>4, <4>1, <5>1
        <4>4. QED
          BY <1>3, <2>1, <3>2, <3>4, <4>3 DEF Somewhere
      <3>5. QED
        BY <2>5, <3>3, <3>4 DEF Recorded
    <2>6. QED
      BY <1>6, <2>3, <2>4, <2>5 DEF ThreadsMove
  <1>7. ASSUME HistoryMoves PROVE Somewhere(t, x)'
    <2>1. Somewhere(t, x) /\ batch'[t] = batch[t]
      BY <1>2, <1>5, <1>7 DEF HistoryMoves
    <2>2. ASSUME NEW s \in Seq(Batches), NEW ws, Hold(s, ws), HeldIn(s, t, x)
          PROVE  Somewhere(t, x)'
      BY <2>2, HeldOrEvicted DEF Somewhere
    <2>3. ASSUME NEW s, NEW ws, Hold(s, ws) PROVE evicted \subseteq evicted'
      BY <2>3 DEF Hold
    <2>4. CASE Holds
      <3>1. PICK ws : Hold(history, ws) /\ UNCHANGED rings
        BY <2>4 DEF Holds
      <3>2. evicted \subseteq evicted'
        BY <2>3, <3>1
      <3>3. CASE HeldIn(history, t, x)
        BY <1>4, <2>2, <3>1, <3>3
      <3>4. CASE x.ticks \in lost \cup evicted \/ HeldIn(rings[t], t, x) \/ HeldIn(batch[t], t, x)
        BY <1>3, <2>1, <3>1, <3>2, <3>4 DEF Somewhere
      <3>5. QED
        BY <2>1, <3>3, <3>4 DEF Somewhere
    <2>5. ASSUME NEW u \in Threads, TakeRing(u) PROVE Somewhere(t, x)'
      <3>1. rings' = [rings EXCEPT ![u] = <<>>] /\ rings \in [Threads -> Seq(Batches)]
        BY <2>5 DEF TakeRing, Types, TypeOK, QueueTypes
      <3>2. rings'[t] = IF t = u THEN <<>> ELSE rings[t]
        BY <3>1
      <3>3. PICK joined : joined = history \o rings[u]
        OBVIOUS
      <3>4. joined \in Seq(Batches) /\ Hold(joined, windows)
        BY <1>4, <2>5, <3>3, ConcatProperties DEF TakeRing
      <3>5. evicted \subseteq evicted'
        BY <2>3, <3>4
      <3>6. CASE HeldIn(history, t, x) \/ (t = u /\ HeldIn(rings[t], t, x))
        <4>1. HeldIn(joined, t, x)
          BY <1>4, <3>3, <3>6, HeldInJoin
        <4>2. QED
          BY <2>2, <3>4, <4>1
      <3>7. CASE \/ x.ticks \in lost \cup evicted \/ HeldIn(batch[t], t, x)
                 \/ t # u /\ HeldIn(rings[t], t, x)
        BY <1>3, <2>1, <3>2, <3>5, <3>7 DEF Somewhere
      <3>8. QED
        BY <2>1, <3>6, <3>7 DEF Somewhere
    <2>6. QED
      BY <1>7, <2>4, <2>5 DEF HistoryMoves, Takes
  <1>8. QED
    BY <1>1, <1>5, <1>6, <1>7, StepMoves
---------------------------------------------------------------------------
(* Tails.                                                                   *)
OneTail == \A b, c \in tails : b.tid = c.tid => b = c

LEMMA OneTailNext ==
  ASSUME Types, Paths, OneTail, [Next]_vars
  PROVE  OneTail'
  <1>1. CASE ReadTails
    <2>1. tails' = {batch[t][1] : t \in Registered}
      BY <1>1 DEF ReadTails
    <2>2. ASSUME NEW t \in Registered PROVE batch[t][1].tid = t
      <3>1. Len(batch[t]) = 1
        BY OneBatch DEF Registered, Types, TypeOK, ThreadTypes
      <3>2. 1 \in 1..Len(batch[t])
        BY <3>1
      <3>3. QED
        BY <3>2 DEF Paths, InPath, Own, Registered
    <2>3. QED
      BY <2>1, <2>2 DEF OneTail
  <1>2. QED
    BY <1>1, TailsChange DEF OneTail

\* No dump's end is ahead of the clock.
EndsPast == \A m \in InHand : m.type # "open" => m.end <= clock

LEMMA InHandMessages ==
  ASSUME RecorderTypes
  PROVE  \A m \in InHand : m \in Messages /\ (m.type # "open" => m.end \in Nat)
  <1> SUFFICES ASSUME NEW m \in InHand PROVE m \in Messages /\ (m.type # "open" => m.end \in Nat)
    OBVIOUS
  <1>1. control \in Seq(Messages) /\ job \in Seq(Messages)
    BY DEF RecorderTypes
  <1>2. m \in Messages
    BY <1>1, ElementOfSeq, LenProperties DEF InHand, Range
  <1>3. m.type # "open" => m.end \in Nat
    BY <1>2, HistoryAssumption DEF Messages
  <1>4. QED
    BY <1>2, <1>3

LEMMA EndsPastNext ==
  ASSUME Types, EndsPast, [Next]_vars
  PROVE  EndsPast'
  <1>1. RecorderTypes /\ clock \in Nat /\ clock' \in {clock, clock + 1}
    BY ClockGoesOn DEF Types, TypeOK
  <1>2. ASSUME InHand' \subseteq InHand PROVE EndsPast'
    <2> SUFFICES ASSUME NEW m \in InHand, m.type # "open" PROVE m.end <= clock'
      BY <1>2 DEF EndsPast
    <2>1. m.end \in Nat /\ m.end <= clock
      BY <1>1, InHandMessages DEF EndsPast
    <2>2. QED
      BY <1>1, <2>1
  <1>3. ASSUME NEW m \in Messages, Send(m), job' = job, m.type = "open" \/ m.end = clock'
        PROVE  EndsPast'
    <2>1. CASE ~Receiving
      <3>1. InHand' = InHand
        BY <1>3, <2>1 DEF Send, InHand
      <3>2. QED
        BY <1>2, <3>1
    <2>2. CASE Receiving
      <3>1. InHand' = InHand \cup {m}
        BY <1>1, <1>3, <2>2, SentIsInHand
      <3>2. ASSUME NEW o \in InHand, o.type # "open" PROVE o.end <= clock'
        <4>1. o.end \in Nat /\ o.end <= clock
          BY <1>1, <3>2, InHandMessages DEF EndsPast
        <4>2. QED
          BY <1>1, <4>1
      <3>3. m.type # "open" => m.end <= clock'
        BY <1>1, <1>3
      <3>4. QED
        BY <3>1, <3>2, <3>3 DEF EndsPast
    <2>3. QED
      BY <2>1, <2>2
  <1>4. ASSUME control' = control, job' = job PROVE EndsPast'
    BY <1>2, <1>4 DEF InHand
  <1>5. ASSUME NEW t \in Threads, Enter(t) \/ Leave(t) \/ Forget(t) \/ FlushAtExit(t)
        PROVE  EndsPast'
    BY <1>4, <1>5 DEF Enter, Leave, Record, Forget, FlushAtExit, recorderVars
  <1>6. ASSUME NEW w \in Windows, EnterBlock(w) \/ ExitBlock(w) \/ ExitRefused(w) \/ BlockFails(w)
        PROVE  EndsPast'
    <2>1. CASE EnterBlock(w)
      <3>1. PICK m \in Messages : m.type = "open" /\ Send(m)
        <4>1. [type |-> "open", window |-> w] \in Messages
          BY DEF Messages
        <4>2. QED
          BY <2>1, <4>1 DEF EnterBlock
      <3>2. QED
        BY <1>3, <2>1, <3>1 DEF EnterBlock, recorderVars
    <2>2. CASE ExitBlock(w)
      <3>1. PICK m \in Messages : m.end = clock' /\ Send(m)
        <4>1. clock' \in 0..MaxTicks
          BY <2>2 DEF ExitBlock, ReadClock, Types, TypeOK, ThreadTypes
        <4>2. [type |-> "dump", window |-> w, end |-> clock'] \in Messages
          BY <4>1 DEF Messages
        <4>3. QED
          BY <2>2, <4>2 DEF ExitBlock
      <3>2. QED
        BY <1>3, <2>2, <3>1 DEF ExitBlock, recorderVars
    <2>3. CASE ExitRefused(w) \/ BlockFails(w)
      BY <1>4, <2>3 DEF ExitRefused, BlockFails, recorderVars
    <2>4. QED
      BY <1>6, <2>1, <2>2, <2>3
  <1>7. CASE AskWhole
    <2>1. PICK m \in Messages : m.end = clock' /\ Send(m)
      <3>1. clock' \in 0..MaxTicks
        BY <1>7 DEF AskWhole, ReadClock, Types, TypeOK, ThreadTypes
      <3>2. [type |-> "dumpall", end |-> clock'] \in Messages
        BY <3>1 DEF Messages
      <3>3. QED
        BY <1>7, <3>2 DEF AskWhole
    <2>2. QED
      BY <1>3, <1>7, <2>1 DEF AskWhole, recorderVars
  <1>8. CASE StopThreads \/ Close \/ Join \/ Ended \/ UNCHANGED vars
    BY <1>4, <1>8 DEF StopThreads, Close, Join, Ended, recorderVars, vars
  <1>9. CASE HandleOpen \/ BeginDump
    <2>1. control \in Seq(Messages) /\ control # <<>>
      BY <1>1, <1>9 DEF HandleOpen, BeginDump, RecorderTypes
    <2>2. Range(control) = {Head(control)} \cup Range(Tail(control))
      BY <2>1, HeadOrTail
    <2>3. control' = Tail(control) /\ job' \in {job, <<Head(control)>>}
      BY <1>9 DEF HandleOpen, BeginDump
    <2>4. InHand' \subseteq InHand
      BY <2>2, <2>3, JobRange DEF InHand
    <2>5. QED
      BY <1>2, <2>4
  <1>10. CASE Reply \/ Die
    <2>1. control' \in {control, <<>>} /\ job' = <<>>
      BY <1>10 DEF Reply, Die
    <2>2. QED
      BY <1>2, <2>1, JobRange DEF InHand
  <1>11. CASE \/ NoMessage \/ NothingDrained \/ CheckClosed \/ ReadTails \/ Assemble \/ Written
              \/ LastAbsorbed
    BY <1>4, <1>11 DEF NoMessage, NothingDrained, CheckClosed, ReadTails, Assemble, Written,
       LastAbsorbed, Goes
  <1>12. ASSUME NEW t \in Threads, Drain(t) \/ Absorb(t) PROVE EndsPast'
    BY <1>4, <1>12 DEF Drain, Absorb, recorderVars
  <1>13. QED
    BY <1>5, <1>6, <1>7, <1>8, <1>9, <1>10, <1>11, <1>12 DEF Next, Recorder

ExitedEmpty == \A t \in Threads : life[t] = "exited" => batch[t] = <<>>

LEMMA ExitedNext ==
  ASSUME Types, ExitedEmpty, [Next]_vars
  PROVE  ExitedEmpty' /\ \A t \in Threads : life'[t] = "alive" => life[t] = "alive"
  <1> USE DEF Types, TypeOK
  <1>1. batch \in [Threads -> Seq(Batches)] /\ life \in [Threads -> {"alive", "forgotten", "exited"}]
    BY DEF ThreadTypes
  <1>2. ASSUME UNCHANGED life, \A u \in Threads : batch'[u] \in {batch[u], <<>>}
        PROVE  ExitedEmpty' /\ \A t \in Threads : life'[t] = "alive" => life[t] = "alive"
    BY <1>2 DEF ExitedEmpty
  <1>3. ASSUME NEW t \in Threads, NEW e, Record(t, e)
        PROVE  ExitedEmpty' /\ \A u \in Threads : life'[u] = "alive" => life[u] = "alive"
    <2>1. life' = life /\ life[t] = "alive" /\ Push(t, e)
      BY <1>3 DEF Record
    <2>2. \A u \in Threads \ {t} : batch'[u] = batch[u]
      BY <1>1, <2>1 DEF Push
    <2>3. QED
      BY <2>1, <2>2 DEF ExitedEmpty
  <1>4. ASSUME NEW t \in Threads, Enter(t) \/ Leave(t)
        PROVE  ExitedEmpty' /\ \A u \in Threads : life'[u] = "alive" => life[u] = "alive"
    BY <1>3, <1>4 DEF Enter, Leave
  <1>5. ASSUME NEW t \in Threads, Forget(t) \/ FlushAtExit(t)
        PROVE  ExitedEmpty' /\ \A u \in Threads : life'[u] = "alive" => life[u] = "alive"
    <2>1. CASE Forget(t)
      <3>1. batch' = batch /\ life' = [life EXCEPT ![t] = "forgotten"]
        BY <2>1 DEF Forget
      <3>2. QED
        BY <1>1, <3>1 DEF ExitedEmpty
    <2>2. CASE FlushAtExit(t)
      <3>1. batch' = [batch EXCEPT ![t] = <<>>] /\ life' = [life EXCEPT ![t] = "exited"]
        BY <2>2 DEF FlushAtExit
      <3>2. QED
        BY <1>1, <3>1 DEF ExitedEmpty
    <2>3. QED
      BY <1>5, <2>1, <2>2
  <1>6. ASSUME NEW w \in Windows, EnterBlock(w) \/ ExitBlock(w) \/ ExitRefused(w) \/ BlockFails(w)
        PROVE  UNCHANGED life /\ \A u \in Threads : batch'[u] \in {batch[u], <<>>}
    BY <1>6 DEF EnterBlock, ExitBlock, ExitRefused, BlockFails, threadVars
  <1>7. CASE StopThreads
    <2>1. UNCHANGED life /\ \A u \in Threads : batch'[u] \in {batch[u], <<>>}
      BY <1>7 DEF StopThreads
    <2>2. QED
      BY <1>2, <2>1
  <1>8. CASE AskWhole \/ Close \/ Join \/ Ended \/ UNCHANGED vars
    <2>1. UNCHANGED <<life, batch>>
      BY <1>8 DEF AskWhole, Close, Join, Ended, threadVars, vars
    <2>2. QED
      BY <1>2, <2>1
  <1>9. CASE Recorder
    <2>1. UNCHANGED <<life, batch>>
      <3>1. CASE NoMessage \/ NothingDrained \/ CheckClosed \/ ReadTails \/ Assemble \/ LastAbsorbed
        BY <3>1 DEF NoMessage, NothingDrained, CheckClosed, ReadTails, Assemble, LastAbsorbed, Goes,
           threadVars
      <3>2. CASE HandleOpen \/ BeginDump \/ Written \/ Reply \/ Die
        BY <3>2 DEF HandleOpen, BeginDump, Written, Reply, Die, threadVars
      <3>3. ASSUME NEW t \in Threads, Drain(t) \/ Absorb(t) PROVE UNCHANGED <<life, batch>>
        BY <3>3 DEF Drain, Absorb, threadVars
      <3>4. QED
        BY <1>9, <3>1, <3>2, <3>3 DEF Recorder
    <2>2. QED
      BY <1>2, <2>1
  <1>10. QED
    BY <1>2, <1>4, <1>5, <1>6, <1>7, <1>8, <1>9 DEF Next

\* Between the read of the tails and the dump, the tails and the dump stay.
LEMMA AgainNext ==
  ASSUME Types, [Next]_vars, pc' = "again"
  PROVE  ReadTails \/ (pc = "again" /\ tails' = tails /\ job' = job)
  <1>1. ASSUME NEW t \in Threads, Enter(t) \/ Leave(t) \/ Forget(t) \/ FlushAtExit(t)
        PROVE  pc = "again" /\ tails' = tails /\ job' = job
    BY <1>1 DEF Enter, Leave, Record, Forget, FlushAtExit, recorderVars
  <1>2. ASSUME NEW w \in Windows, EnterBlock(w) \/ ExitBlock(w) \/ ExitRefused(w) \/ BlockFails(w)
        PROVE  pc = "again" /\ tails' = tails /\ job' = job
    BY <1>2 DEF EnterBlock, ExitBlock, ExitRefused, BlockFails, recorderVars
  <1>3. CASE StopThreads \/ AskWhole \/ Close \/ Join \/ Ended \/ UNCHANGED vars
    BY <1>3 DEF StopThreads, AskWhole, Close, Join, Ended, recorderVars, vars
  <1>4. ~(\/ HandleOpen \/ BeginDump \/ NoMessage \/ NothingDrained \/ CheckClosed
          \/ Assemble \/ Written \/ Reply \/ LastAbsorbed \/ Die)
    BY DEF HandleOpen, BeginDump, NoMessage, NothingDrained, CheckClosed,
       Assemble, Written, Reply, LastAbsorbed, Die, Goes
  <1>5. ASSUME NEW t \in Threads, Drain(t) \/ Absorb(t)
        PROVE  pc = "again" /\ tails' = tails /\ job' = job
    BY <1>5 DEF Drain, Absorb, recorderVars
  <1>6. QED
    BY <1>1, <1>2, <1>3, <1>4, <1>5 DEF Next, Recorder

\* What a thread's batch holds up to the end of the dump, its tail shows.
TailsShow ==
    pc = "again" => \A t \in Registered : \A k \in 1..Len(batch[t][1].events) :
        batch[t][1].events[k].ticks <= job[1].end =>
            \E b \in tails :
                /\ b.tid = t /\ b.base = batch[t][1].base
                /\ k \in 1..Len(b.events) /\ b.events[k] = batch[t][1].events[k]

LEMMA TailsShowNext ==
  ASSUME Types, Rising, Paths, EndsPast, ExitedEmpty, TailsShow, [Next]_vars
  PROVE  TailsShow'
  <1> SUFFICES ASSUME pc' = "again", NEW t \in Registered', NEW k \in 1..Len(batch'[t][1].events),
                      batch'[t][1].events[k].ticks <= job'[1].end
               PROVE  \E b \in tails' :
                          /\ b.tid = t /\ b.base = batch'[t][1].base
                          /\ k \in 1..Len(b.events) /\ b.events[k] = batch'[t][1].events[k]
    BY DEF TailsShow
  <1>1. t \in Threads /\ batch'[t] # <<>> /\ life[t] = "alive"
    BY ExitedNext DEF Registered
  <1>2. CASE ReadTails
    <2>1. tails' = {batch[u][1] : u \in Registered} /\ batch' = batch
      BY <1>2 DEF ReadTails, Goes, threadVars
    <2>2. t \in Registered
      BY <1>1, <2>1 DEF Registered
    <2>3. batch[t][1].tid = t
      <3>1. Len(batch[t]) = 1
        BY <1>1, <2>1, OneBatch DEF Types, TypeOK, ThreadTypes
      <3>2. 1 \in 1..Len(batch[t])
        BY <3>1
      <3>3. QED
        BY <1>1, <3>2 DEF Paths, InPath, Own
    <2>4. QED
      BY <2>1, <2>2, <2>3
  <1>3. CASE pc = "again" /\ tails' = tails /\ job' = job
    <2>1. ASSUME batch[t] # <<>>, k \in 1..Len(batch[t][1].events),
                 batch'[t][1].base = batch[t][1].base,
                 batch'[t][1].events[k] = batch[t][1].events[k]
          PROVE  \E b \in tails' :
                     /\ b.tid = t /\ b.base = batch'[t][1].base
                     /\ k \in 1..Len(b.events) /\ b.events[k] = batch'[t][1].events[k]
      <3>1. t \in Registered
        BY <1>1, <2>1 DEF Registered
      <3>2. QED
        BY <1>3, <2>1, <3>1 DEF TailsShow
    <2>2. job[1].end \in Nat /\ job[1].end <= clock /\ clock \in Nat
      <3>1. job[1] \in Messages /\ job[1].type \in {"dump", "dumpall"}
        BY <1>3, JobIsMessage DEF Types, TypeOK
      <3>2. job[1] \in InHand
        <4>1. job \in Seq(Messages) /\ Len(job) = 1
          BY <1>3 DEF Types, TypeOK, RecorderTypes, JobInHand
        <4>2. Range(job) = {job[1]}
          BY <4>1, OneJob
        <4>3. QED
          BY <4>2 DEF InHand
      <3>3. job[1].end \in Nat
        BY <3>1, HistoryAssumption DEF Messages
      <3>4. job[1].end <= clock
        BY <3>1, <3>2 DEF EndsPast
      <3>5. QED
        BY <3>3, <3>4, ClockGoesOn
    <2>3. ASSUME NEW e, e.ticks = clock + 1 PROVE batch'[t][1].events[k] # e
      BY <1>3, <2>2, <2>3
    <2>4. ~(HistoryMoves \/ Dies) \/ batch'[t] = batch[t]
      BY DEF HistoryMoves, Dies
    <2>5. CASE batch'[t] = batch[t]
      BY <1>1, <2>1, <2>5
    <2>6. CASE ThreadsMove
      <3>1. ~Shipped(t)
        BY <1>1 DEF Shipped
      <3>2. CASE Stays(t)
        BY <2>5, <3>2 DEF Stays
      <3>3. ASSUME NEW e \in Events, Recorded(t, e)
            PROVE  \E b \in tails' :
                       /\ b.tid = t /\ b.base = batch'[t][1].base
                       /\ k \in 1..Len(b.events) /\ b.events[k] = batch'[t][1].events[k]
        <4>1. e.ticks = clock + 1
          BY <3>3 DEF Recorded
        <4>2. CASE Gone(t) /\ batch'[t] = BatchOf(t, e)
          <5>1. PICK b : BatchOf(t, e) = <<b>> /\ b.events = <<e>>
            BY <1>1, <2>2, <4>1, NewBatch
          <5>2. batch'[t][1].events = <<e>>
            BY <4>2, <5>1
          <5>3. k = 1
            BY <5>2
          <5>4. batch'[t][1].events[k] = e
            BY <5>2, <5>3
          <5>5. QED
            BY <2>3, <4>1, <5>4
        <4>3. CASE batch[t] # <<>> /\ rings'[t] = rings[t] /\ batch'[t] = <<Longer(batch[t][1], e)>>
          <5>1. PICK old \in RisingTo(clock) : old = batch[t][1]
            BY <1>1, <4>3, BatchInHand
          <5>2. PICK b : b = Longer(old, e)
            OBVIOUS
          <5>3. /\ b.base = old.base /\ Len(b.events) = Len(old.events) + 1
                /\ \A i \in 1..Len(old.events) : b.events[i] = old.events[i]
                /\ b.events[Len(old.events) + 1] = e
            BY <2>2, <4>1, <5>2, LongerRises
          <5>4. batch'[t][1] = b
            BY <4>3, <5>1, <5>2
          <5>5. Len(old.events) \in Nat
            BY <5>1, RisingBatch
          <5>6. k # Len(old.events) + 1
            BY <2>3, <4>1, <5>3, <5>4
          <5>7. k \in 1..Len(old.events)
            BY <5>3, <5>4, <5>5, <5>6
          <5>8. QED
            BY <2>1, <4>3, <5>1, <5>3, <5>4, <5>7
        <4>4. QED
          BY <3>3, <4>2, <4>3 DEF Recorded
      <3>4. QED
        BY <1>1, <2>6, <3>1, <3>2, <3>3 DEF ThreadsMove
    <2>7. QED
      BY <2>4, <2>5, <2>6, StepMoves
  <1>4. QED
    BY <1>2, <1>3, AgainNext
---------------------------------------------------------------------------
(* What a thread's slice of a dump shows.                                   *)
\* What a dump shows: events, and opens made up at the horizon.
Shown == [ticks : 0..MaxTicks, opens : BOOLEAN, frame : Frames]

LEMMA EventsAreShown ==
  ASSUME NEW e \in Events
  PROVE  e \in Shown /\ e.ticks \in 0..MaxTicks
  BY HistoryAssumption DEF Events, Shown

\* Sorting moves every event to a place of its own, the earlier before the later.
LEMMA SortPermutes ==
  ASSUME NEW s \in Seq(Shown)
  PROVE  \E f \in Bijection(DOMAIN s, DOMAIN s) :
             /\ SortedByTicks(s) = [n \in DOMAIN s |-> s[f[n]]]
             /\ \A n, m \in DOMAIN s : n < m => s[f[n]].ticks <= s[f[m]].ticks
  <1> DEFINE D == DOMAIN s
             Rank(i) == Cardinality(Preceding(s, i))
  <1>1. D = 1..Len(s) /\ Len(s) \in Nat
    BY LenProperties
  <1>2. IsFiniteSet(D) /\ Cardinality(D) = Len(s)
    <2>1. Cardinality(1..Len(s)) = IF 1 > Len(s) THEN 0 ELSE Len(s) - 1 + 1
      BY <1>1, FS_Interval
    <2>2. IsFiniteSet(1..Len(s))
      BY <1>1, FS_Interval
    <2>3. QED
      BY <1>1, <2>1, <2>2
  <1>3. \A i \in D : s[i].ticks \in Int
    <2> TAKE i \in D
    <2>1. s[i] \in Shown
      BY <1>1, ElementOfSeq
    <2>2. QED
      BY <2>1, HistoryAssumption DEF Shown
  <1>4. ASSUME NEW i \in D
        PROVE  /\ IsFiniteSet(Preceding(s, i)) /\ Rank(i) \in Nat
               /\ Rank(i) < Len(s)
    <2>1. Preceding(s, i) \subseteq D
      BY DEF Preceding
    <2>2. i \in D /\ i \notin Preceding(s, i)
      BY <1>1, <1>3 DEF Preceding, GoesBefore
    <2>3. IsFiniteSet(Preceding(s, i)) /\ Rank(i) <= Len(s) /\ Rank(i) # Len(s)
      BY <1>2, <2>1, <2>2, FS_Subset
    <2>4. Rank(i) \in Nat
      BY <2>3, FS_CardinalityType
    <2>5. QED
      BY <1>1, <2>3, <2>4
  <1>5. ASSUME NEW i \in D, NEW j \in D, GoesBefore(s, i, j) PROVE Rank(i) < Rank(j)
    <2>1. Preceding(s, i) \subseteq Preceding(s, j)
      <3> SUFFICES ASSUME NEW l \in D, GoesBefore(s, l, i) PROVE GoesBefore(s, l, j)
        BY DEF Preceding
      <3>1. QED
        BY <1>1, <1>3, <1>5 DEF GoesBefore
    <2>2. i \in Preceding(s, j) /\ i \notin Preceding(s, i)
      BY <1>1, <1>3, <1>5 DEF Preceding, GoesBefore
    <2>3. Rank(i) <= Rank(j) /\ Rank(i) # Rank(j)
      BY <1>4, <2>1, <2>2, FS_Subset
    <2>4. QED
      BY <1>4, <2>3
  <1>6. ASSUME NEW i \in D, NEW j \in D PROVE i = j \/ Rank(i) < Rank(j) \/ Rank(j) < Rank(i)
    <2>1. i = j \/ GoesBefore(s, i, j) \/ GoesBefore(s, j, i)
      BY <1>1, <1>3 DEF GoesBefore
    <2>2. QED
      BY <1>5, <2>1
  <1>7. ASSUME NEW i \in D, NEW j \in D, Rank(i) = Rank(j) PROVE i = j
    BY <1>4, <1>6, <1>7
  \* Every place is some event's.
  <1>8. \A n \in D : \E i \in D : Rank(i) = n - 1
    <2> DEFINE r == [i \in D |-> Rank(i) + 1]
    <2>1. \A i \in D : Rank(i) + 1 \in D
      BY <1>1, <1>4
    <2>2. r \in [D -> D]
      BY <2>1
    <2>3. \A i, j \in D : r[i] = r[j] => i = j
      BY <1>4, <1>7
    <2> HIDE DEF r
    <2>4. r \in Injection(D, D)
      BY <2>2, <2>3 DEF Injection, IsInjective
    <2>5. r \in Surjection(D, D)
      BY <1>2, <2>4, FS_Injection
    <2>6. \A n \in D : \E i \in D : r[i] = n
      BY <2>5 DEF Surjection
    <2>7. \A i \in D : r[i] = Rank(i) + 1
      BY DEF r
    <2>8. ASSUME NEW n \in D, NEW i \in D, r[i] = n PROVE Rank(i) = n - 1
      <3>1. Rank(i) \in Nat /\ n = Rank(i) + 1
        BY <1>4, <2>7, <2>8
      <3>2. QED
        BY <3>1
    <2>9. QED
      BY <2>6, <2>8
  <1> DEFINE f == [n \in D |-> CHOOSE i \in D : Rank(i) = n - 1]
  <1>9. \A n \in D : f[n] \in D /\ Rank(f[n]) = n - 1
    BY <1>8
  <1>10. SortedByTicks(s) = [n \in D |-> s[f[n]]]
    BY DEF SortedByTicks
  <1> HIDE DEF f
  <1>11. ASSUME NEW n \in D, NEW m \in D PROVE (f[n] = f[m] => n = m) /\ (n < m => s[f[n]].ticks <= s[f[m]].ticks)
    <2>1. f[n] = f[m] => n = m
      BY <1>1, <1>9
    <2>2. n < m => Rank(f[n]) < Rank(f[m])
      BY <1>1, <1>9
    <2>3. f[n] \in D /\ f[m] \in D /\ Rank(f[n]) \in Nat /\ Rank(f[m]) \in Nat
      BY <1>4, <1>9
    <2>4. n < m => ~GoesBefore(s, f[m], f[n])
      BY <1>5, <2>2, <2>3
    <2>5. n < m => s[f[n]].ticks <= s[f[m]].ticks
      BY <1>3, <2>3, <2>4 DEF GoesBefore
    <2>6. QED
      BY <2>1, <2>5
  <1>12. \A i \in D : \E n \in D : f[n] = i
    <2> SUFFICES ASSUME NEW i \in D PROVE \E n \in D : f[n] = i
      OBVIOUS
    <2>1. Rank(i) + 1 \in D /\ (Rank(i) + 1) - 1 = Rank(i)
      BY <1>1, <1>4
    <2>2. f[Rank(i) + 1] \in D /\ Rank(f[Rank(i) + 1]) = Rank(i)
      BY <1>9, <2>1
    <2>3. QED
      BY <1>7, <2>1, <2>2
  <1>13. f \in [D -> D]
    BY <1>9 DEF f
  <1>14. f \in Bijection(D, D)
    BY <1>11, <1>12, <1>13 DEF Bijection, Injection, Surjection, IsInjective
  <1>15. QED
    BY <1>10, <1>11, <1>14

\* Sorting drops nothing.
LEMMA SortShows ==
  ASSUME NEW s \in Seq(Shown), NEW k \in DOMAIN s
  PROVE  \E n \in DOMAIN SortedByTicks(s) : SortedByTicks(s)[n] = s[k]
  <1>1. PICK f \in Bijection(DOMAIN s, DOMAIN s) : SortedByTicks(s) = [n \in DOMAIN s |-> s[f[n]]]
    BY SortPermutes
  <1>2. PICK n \in DOMAIN s : f[n] = k
    BY <1>1 DEF Bijection, Surjection
  <1>3. QED
    BY <1>1, <1>2

Replayed == [open : Seq(Shown), out : Seq(Shown), begun : BOOLEAN, over : BOOLEAN]

LEMMA AfterTypes ==
  ASSUME NEW open \in Seq(Shown), NEW e \in Events, horizon \in 0..MaxTicks
  PROVE  After(open, e) \in Seq(Shown) /\ MadeUp(open, e) \in Seq(Shown) /\ <<e>> \in Seq(Shown)
  <1>1. e \in Shown
    BY EventsAreShown
  <1>2. After(open, e) \in Seq(Shown)
    <2>1. CASE e.opens
      BY <1>1, <2>1, AppendProperties DEF After
    <2>2. CASE open # <<>>
      <3>1. Len(open) \in Nat \ {0}
        BY <2>2, EmptySeq
      <3>2. \A i \in 1..(Len(open) - 1) : open[i] \in Shown
        BY <3>1, ElementOfSeq
      <3>3. SubSeq(open, 1, Len(open) - 1) \in Seq(Shown)
        BY <3>1, <3>2, SubSeqProperties
      <3>4. QED
        BY <1>1, <2>2, <3>3, AppendProperties DEF After, Front
    <2>3. QED
      BY <2>1, <2>2 DEF After
  <1>3. MadeUp(open, e) \in Seq(Shown)
    <2>1. [ticks |-> horizon, opens |-> TRUE, frame |-> e.frame] \in Shown
      BY DEF Events, Shown
    <2>2. <<>> \in Seq(Shown)
      BY EmptySeq
    <2>3. QED
      BY <2>1, <2>2 DEF MadeUp
  <1>4. QED
    BY <1>1, <1>2, <1>3

LEMMA ReplayOneTypes ==
  ASSUME NEW first, NEW last, NEW acc \in Replayed, NEW e \in Events, horizon \in 0..MaxTicks
  PROVE  ReplayOne(first, last, acc, e) \in Replayed
  <1>1. After(acc.open, e) \in Seq(Shown) /\ MadeUp(acc.open, e) \in Seq(Shown) /\ <<e>> \in Seq(Shown)
    BY AfterTypes DEF Replayed
  <1>2. PICK shown : shown = (IF acc.begun THEN acc.out ELSE acc.open)
    OBVIOUS
  <1>3. shown \in Seq(Shown)
    BY <1>2 DEF Replayed
  <1>4. PICK added : added = shown \o MadeUp(acc.open, e) \o <<e>>
    OBVIOUS
  <1>5. added \in Seq(Shown)
    BY <1>1, <1>3, <1>4, ConcatProperties
  <1>6. ReplayOne(first, last, acc, e) \in
            {[acc EXCEPT !.open = After(acc.open, e)],
             [acc EXCEPT !.out = shown, !.begun = TRUE, !.over = TRUE],
             [acc EXCEPT !.out = added, !.open = After(acc.open, e), !.begun = TRUE]}
    BY <1>2, <1>4 DEF ReplayOne
  <1>7. [acc EXCEPT !.open = After(acc.open, e)] \in Replayed
    BY <1>1 DEF Replayed
  <1>8. [acc EXCEPT !.out = shown, !.begun = TRUE, !.over = TRUE] \in Replayed
    BY <1>3 DEF Replayed
  <1>9. [acc EXCEPT !.out = added, !.open = After(acc.open, e), !.begun = TRUE] \in Replayed
    BY <1>1, <1>5 DEF Replayed
  <1>10. QED
    BY <1>6, <1>7, <1>8, <1>9

\* An event that is not past the end of the window does not end the replay, one
\* inside the window is shown, and what is shown stays.
LEMMA ReplayOneShows ==
  ASSUME NEW first \in Int, NEW last \in Int, NEW acc \in Replayed, NEW e \in Events,
         horizon \in 0..MaxTicks
  PROVE  LET next == ReplayOne(first, last, acc, e)
         IN  /\ ~acc.over /\ e.ticks <= last => ~next.over
             /\ ~acc.over /\ first <= e.ticks /\ e.ticks <= last => next.begun /\ Shows(next.out, e)
             /\ \A x : acc.begun /\ Shows(acc.out, x) => next.begun /\ Shows(next.out, x)
  <1>1. MadeUp(acc.open, e) \in Seq(Shown) /\ <<e>> \in Seq(Shown) /\ e.ticks \in Int
    <2>1. acc.open \in Seq(Shown)
      BY DEF Replayed
    <2>2. MadeUp(acc.open, e) \in Seq(Shown) /\ <<e>> \in Seq(Shown)
      BY <2>1, AfterTypes
    <2>3. e.ticks \in Int
      BY HistoryAssumption DEF Events
    <2>4. QED
      BY <2>2, <2>3
  <1>2. PICK next : next = ReplayOne(first, last, acc, e)
    OBVIOUS
  <1>3. PICK shown : shown = (IF acc.begun THEN acc.out ELSE acc.open)
    OBVIOUS
  <1>4. shown \in Seq(Shown)
    BY <1>3 DEF Replayed
  <1>5. PICK added : added = shown \o MadeUp(acc.open, e) \o <<e>>
    OBVIOUS
  <1>6. ASSUME NEW x, Shows(shown, x) PROVE Shows(added, x)
    <2>1. Shows(shown \o MadeUp(acc.open, e), x) /\ shown \o MadeUp(acc.open, e) \in Seq(Shown)
      BY <1>1, <1>4, <1>6, ShowsMore, ConcatProperties
    <2>2. QED
      BY <1>1, <1>5, <2>1, ShowsMore
  <1>7. Shows(added, e)
    <2>1. shown \o MadeUp(acc.open, e) \in Seq(Shown)
      BY <1>1, <1>4, ConcatProperties
    <2>2. Shows(<<e>>, e)
      BY DEF Shows
    <2>3. QED
      BY <1>1, <1>5, <2>1, <2>2, ShowsMore
  <1>8. next = IF e.ticks < first THEN [acc EXCEPT !.open = After(acc.open, e)]
               ELSE IF acc.over \/ e.ticks > last
                    THEN [acc EXCEPT !.out = shown, !.begun = TRUE, !.over = TRUE]
                    ELSE [acc EXCEPT !.out = added, !.open = After(acc.open, e), !.begun = TRUE]
    BY <1>2, <1>3, <1>5 DEF ReplayOne
  <1>9. CASE e.ticks < first
    <2>1. next.out = acc.out /\ next.begun = acc.begun /\ next.over = acc.over
      BY <1>8, <1>9 DEF Replayed
    <2>2. ~(first <= e.ticks)
      BY <1>1, <1>9
    <2>3. QED
      BY <1>2, <2>1, <2>2
  <1>10. CASE ~(e.ticks < first) /\ (acc.over \/ e.ticks > last)
    <2>1. next.out = shown /\ next.begun
      BY <1>8, <1>10 DEF Replayed
    <2>2. ~(~acc.over /\ e.ticks <= last)
      BY <1>1, <1>10
    <2>3. QED
      BY <1>2, <1>3, <2>1, <2>2
  <1>11. CASE ~(e.ticks < first) /\ ~(acc.over \/ e.ticks > last)
    <2>1. next.out = added /\ next.begun /\ next.over = acc.over
      BY <1>8, <1>11 DEF Replayed
    <2>2. QED
      BY <1>2, <1>3, <1>6, <1>7, <1>11, <2>1
  <1>12. QED
    BY <1>9, <1>10, <1>11

\* g[i] is what the replay has come to after i events.
Replays(stream, first, last, size, g) ==
    g = [i \in 0..size |->
            IF i = 0 THEN [open |-> <<>>, out |-> <<>>, begun |-> FALSE, over |-> FALSE]
            ELSE ReplayOne(first, last, g[i - 1], stream[i])]

LEMMA ReplaysExists ==
  ASSUME NEW stream, NEW first, NEW last, NEW size \in Nat
  PROVE  \E g : Replays(stream, first, last, size, g)
  <1> DEFINE T == {n \in Nat : \E g : Replays(stream, first, last, n, g)}
             none == [open |-> <<>>, out |-> <<>>, begun |-> FALSE, over |-> FALSE]
  <1>1. 0 \in T
    <2> HIDE DEF none
    <2> DEFINE g == [i \in 0..0 |-> none]
    <2>1. g = [i \in 0..0 |-> IF i = 0 THEN none ELSE ReplayOne(first, last, g[i - 1], stream[i])]
      <3>1. \A i \in 0..0 : i = 0
        OBVIOUS
      <3>2. QED
        BY <3>1, Zenon
    <2> HIDE DEF g
    <2>2. Replays(stream, first, last, 0, g)
      BY <2>1 DEF Replays, none
    <2>3. QED
      BY <2>2
  <1>2. ASSUME NEW n \in 1..size, n - 1 \in T PROVE n \in T
    <2>1. PICK g : Replays(stream, first, last, n - 1, g)
      BY <1>2
    <2> HIDE DEF none
    <2> DEFINE h == [i \in 0..n |-> IF i < n THEN g[i] ELSE ReplayOne(first, last, g[n - 1], stream[n])]
    <2>2. g = [i \in 0..(n - 1) |-> IF i = 0 THEN none ELSE ReplayOne(first, last, g[i - 1], stream[i])]
      BY <2>1 DEF Replays, none
    <2>3. ASSUME NEW i \in 0..n
          PROVE  h[i] = IF i = 0 THEN none ELSE ReplayOne(first, last, h[i - 1], stream[i])
      <3>1. CASE i < n
        <4>1. i \in 0..(n - 1)
          BY <3>1
        <4>2. g[i] = IF i = 0 THEN none ELSE ReplayOne(first, last, g[i - 1], stream[i])
          BY <2>2, <4>1, Zenon
        <4>3. h[i] = g[i] /\ (i # 0 => h[i - 1] = g[i - 1])
          BY <3>1
        <4> HIDE DEF h
        <4>4. QED
          BY <4>2, <4>3
      <3>2. CASE i = n
        <4>1. h[n] = ReplayOne(first, last, g[n - 1], stream[n]) /\ h[n - 1] = g[n - 1] /\ n # 0
          BY <3>2
        <4> HIDE DEF h
        <4>2. QED
          BY <3>2, <4>1
      <3>3. QED
        BY <3>1, <3>2
    <2>4. h = [i \in 0..n |-> IF i = 0 THEN none ELSE ReplayOne(first, last, h[i - 1], stream[i])]
      BY <2>3
    <2> HIDE DEF h
    <2>5. Replays(stream, first, last, n, h)
      BY <2>4 DEF Replays, none
    <2>6. QED
      BY <2>5
  <1>3. size \in T
    <2> HIDE DEF T
    <2>1. T \subseteq Nat
      BY DEF T
    <2>2. QED
      BY <1>1, <1>2, <2>1, NatSteps
  <1>4. QED
    BY <1>3

LEMMA ReplayIsLast ==
  ASSUME NEW stream, NEW first, NEW last, Len(stream) \in Nat
  PROVE  \E g : /\ Replays(stream, first, last, Len(stream), g)
                /\ Replay(stream, first, last) =
                       IF g[Len(stream)].begun THEN g[Len(stream)].out ELSE g[Len(stream)].open
  <1> DEFINE g == CHOOSE g : Replays(stream, first, last, Len(stream), g)
  <1>1. Replays(stream, first, last, Len(stream), g)
    BY ReplaysExists
  <1>2. Replay(stream, first, last) =
            IF g[Len(stream)].begun THEN g[Len(stream)].out ELSE g[Len(stream)].open
    BY DEF Replay, Replays
  <1> HIDE DEF g
  <1>3. QED
    BY <1>1, <1>2

LEMMA ReplaysUnfold ==
  ASSUME NEW stream, NEW first, NEW last, NEW size \in Nat, NEW g,
         Replays(stream, first, last, size, g)
  PROVE  /\ g[0] = [open |-> <<>>, out |-> <<>>, begun |-> FALSE, over |-> FALSE]
         /\ \A i \in 1..size : g[i] = ReplayOne(first, last, g[i - 1], stream[i])
  <1> DEFINE none == [open |-> <<>>, out |-> <<>>, begun |-> FALSE, over |-> FALSE]
  <1>1. g = [i \in 0..size |-> IF i = 0 THEN none ELSE ReplayOne(first, last, g[i - 1], stream[i])]
    BY DEF Replays
  <1> HIDE DEF none
  <1>2. 0 \in 0..size
    OBVIOUS
  <1>3. g[0] = none
    BY <1>1, <1>2, Zenon
  <1>4. ASSUME NEW i \in 1..size PROVE g[i] = ReplayOne(first, last, g[i - 1], stream[i])
    <2>1. i \in 0..size /\ i # 0
      OBVIOUS
    <2>2. QED
      BY <1>1, <2>1, Zenon
  <1>5. QED
    BY <1>3, <1>4 DEF none

\* The replay shows an event of the window, unless one past its end comes before it.
LEMMA ReplayShows ==
  ASSUME NEW stream \in Seq(Events), NEW first \in Int, NEW last \in Int, horizon \in 0..MaxTicks,
         NEW k \in 1..Len(stream), first <= stream[k].ticks, stream[k].ticks <= last,
         \A j \in 1..(k - 1) : stream[j].ticks <= last
  PROVE  Replay(stream, first, last) \in Seq(Shown) /\ Shows(Replay(stream, first, last), stream[k])
  <1>1. Len(stream) \in Nat /\ \A i \in 1..Len(stream) : stream[i] \in Events
    BY LenProperties, ElementOfSeq
  <1>2. PICK g : /\ Replays(stream, first, last, Len(stream), g)
                 /\ Replay(stream, first, last) =
                        IF g[Len(stream)].begun THEN g[Len(stream)].out ELSE g[Len(stream)].open
    BY <1>1, ReplayIsLast
  <1>3. g[0] = [open |-> <<>>, out |-> <<>>, begun |-> FALSE, over |-> FALSE]
    BY <1>1, <1>2, ReplaysUnfold
  <1>4. \A i \in 1..Len(stream) : g[i] = ReplayOne(first, last, g[i - 1], stream[i])
    BY <1>1, <1>2, ReplaysUnfold
  <1> DEFINE Good(i) == /\ g[i] \in Replayed
                        /\ i < k => ~g[i].over
                        /\ i >= k => g[i].begun /\ Shows(g[i].out, stream[k])
             T == {n \in Nat : n <= Len(stream) => Good(n)}
  <1>5. 0 \in T
    <2>1. g[0] \in Replayed /\ ~g[0].over
      BY <1>3, EmptySeq DEF Replayed
    <2>2. 0 < k
      OBVIOUS
    <2>3. Good(0)
      BY <2>1, <2>2
    <2>4. QED
      BY <2>3
  <1>6. ASSUME NEW n \in 1..Len(stream), n - 1 \in T PROVE n \in T
    <2> SUFFICES Good(n)
      BY <1>1
    <2>1. Good(n - 1)
      BY <1>1, <1>6
    <2>2. g[n] = ReplayOne(first, last, g[n - 1], stream[n]) /\ stream[n] \in Events
      BY <1>1, <1>4
    <2>3. g[n] \in Replayed
      BY <2>1, <2>2, ReplayOneTypes
    <2>4. /\ ~g[n - 1].over /\ stream[n].ticks <= last => ~g[n].over
          /\ ~g[n - 1].over /\ first <= stream[n].ticks /\ stream[n].ticks <= last
                 => g[n].begun /\ Shows(g[n].out, stream[n])
          /\ \A x : g[n - 1].begun /\ Shows(g[n - 1].out, x) => g[n].begun /\ Shows(g[n].out, x)
      <3>1. g[n - 1] \in Replayed
        BY <2>1
      <3>2. QED
        BY <2>2, <3>1, ReplayOneShows
    <2>5. CASE n < k
      <3>1. n - 1 < k /\ n \in 1..(k - 1)
        BY <1>1, <2>5
      <3>2. ~g[n].over
        BY <2>1, <2>4, <3>1
      <3>3. ~(n >= k)
        BY <1>1, <2>5
      <3>4. QED
        BY <2>3, <3>2, <3>3
    <2>6. CASE n = k
      <3>1. n - 1 < k /\ ~(n < k)
        BY <1>1, <2>6
      <3>2. g[n].begun /\ Shows(g[n].out, stream[k])
        BY <2>1, <2>4, <2>6, <3>1
      <3>3. QED
        BY <2>3, <3>1, <3>2
    <2>7. CASE n > k
      <3>1. n - 1 >= k /\ ~(n < k)
        BY <1>1, <2>7
      <3>2. g[n].begun /\ Shows(g[n].out, stream[k])
        BY <2>1, <2>4, <3>1
      <3>3. QED
        BY <2>3, <3>1, <3>2
    <2>8. QED
      BY <1>1, <2>5, <2>6, <2>7
  <1>7. Len(stream) \in T
    <2> HIDE DEF T
    <2>1. T \subseteq Nat
      BY DEF T
    <2>2. QED
      BY <1>1, <1>5, <1>6, <2>1, NatSteps
  <1>8. Good(Len(stream)) /\ Len(stream) >= k
    BY <1>1, <1>7
  <1>9. QED
    BY <1>2, <1>8 DEF Replayed

LEMMA SeqOfOne ==
  ASSUME NEW S, \A x, y \in S : x = y
  PROVE  /\ SetToSeq(S) \in Seq(S) /\ Len(SetToSeq(S)) <= 1
         /\ \A x \in S : Shows(SetToSeq(S), x)
  <1>1. CASE S = {}
    <2>1. Cardinality(S) = 0
      BY <1>1, FS_EmptySet
    <2> DEFINE f == [n \in 1..0 |-> n]
    <2>2. f \in [1..Cardinality(S) -> S] /\ IsInjective(f)
      BY <2>1 DEF IsInjective
    <2>3. SetToSeq(S) \in [1..Cardinality(S) -> S]
      BY <2>2 DEF SetToSeq
    <2>4. SetToSeq(S) \in Seq(S) /\ Len(SetToSeq(S)) = 0
      BY <2>1, <2>3
    <2>5. QED
      BY <1>1, <2>4
  <1>2. ASSUME NEW x \in S
        PROVE  SetToSeq(S) \in Seq(S) /\ Len(SetToSeq(S)) <= 1 /\ Shows(SetToSeq(S), x)
    <2>1. S = {x}
      OBVIOUS
    <2>2. Cardinality(S) = 1
      BY <2>1, FS_Singleton
    <2> DEFINE f == [n \in 1..1 |-> x]
    <2>3. f \in [1..Cardinality(S) -> S]
      BY <2>2
    <2>4. IsInjective(f)
      BY DEF IsInjective
    <2>5. SetToSeq(S) \in [1..1 -> S]
      BY <2>2, <2>3, <2>4 DEF SetToSeq
    <2>6. PICK s \in [1..1 -> S] : s = SetToSeq(S)
      BY <2>5
    <2>7. s \in Seq(S) /\ Len(s) = 1 /\ s[1] = x
      BY <2>1
    <2>8. QED
      BY <2>6, <2>7 DEF Shows
  <1>3. QED
    BY <1>1, <1>2

FreshTails(t) == {b \in tails : b.tid = t /\ FreshTail(b)}

\* The batches that a stream is made of, and what it takes of them.
ChainOf(t, batches, chain) ==
    /\ batches \in Seq(Batches) /\ chain \in Seq(Seq(Events)) /\ Len(chain) = Len(batches)
    /\ Len(history) \in Nat /\ Len(batches) \in Len(history)..(Len(history) + 1)
    /\ \A i \in 1..Len(history) : batches[i] = history[i]
    /\ \A i \in 1..Len(batches) : ~(i <= Len(history)) => batches[i] \in FreshTails(t)
    /\ \A b \in FreshTails(t) : \E i \in 1..Len(batches) : ~(i <= Len(history)) /\ batches[i] = b
    /\ \A i \in 1..Len(batches) : batches[i].tid = t => chain[i] = batches[i].events
    /\ \A i \in 1..Len(chain) : \A k \in 1..Len(chain[i]) :
           chain[i] = batches[i].events /\ batches[i].tid = t

LEMMA StreamChain ==
  ASSUME history \in Seq(Batches), tails \subseteq Batches, NEW t \in Threads,
         \A b, c \in tails : b.tid = c.tid => b = c
  PROVE  \E batches, chain : ChainOf(t, batches, chain) /\ Stream(t) = FlattenSeq(chain)
  <1>1. PICK fresh : fresh = SetToSeq(FreshTails(t))
    OBVIOUS
  <1>2. fresh \in Seq(FreshTails(t)) /\ Len(fresh) <= 1 /\ \A b \in FreshTails(t) : Shows(fresh, b)
    <2>1. \A b, c \in FreshTails(t) : b = c
      BY DEF FreshTails
    <2> HIDE DEF FreshTails
    <2>2. QED
      BY <1>1, <2>1, SeqOfOne
  <1>3. FreshTails(t) \subseteq Batches
    BY DEF FreshTails
  <1>4. fresh \in Seq(Batches)
    BY <1>2, <1>3
  <1>5. PICK atHand : atHand = history \o fresh
    OBVIOUS
  <1>6. /\ atHand \in Seq(Batches) /\ Len(history) \in Nat /\ Len(fresh) \in Nat
        /\ Len(atHand) = Len(history) + Len(fresh)
        /\ \A i \in 1..Len(atHand) :
               atHand[i] = IF i <= Len(history) THEN history[i] ELSE fresh[i - Len(history)]
    <2>1. atHand \in Seq(Batches)
      BY <1>4, <1>5, ConcatProperties
    <2>2. Len(history) \in Nat /\ Len(fresh) \in Nat
      BY <1>4, LenProperties
    <2>3. Len(atHand) = Len(history) + Len(fresh)
      BY <1>4, <1>5, ConcatProperties
    <2>4. \A i \in 1..Len(history) + Len(fresh) :
               atHand[i] = IF i <= Len(history) THEN history[i] ELSE fresh[i - Len(history)]
      BY <1>4, <1>5, ConcatProperties
    <2>5. QED
      BY <2>1, <2>2, <2>3, <2>4
  <1>7. PICK chain : chain = [i \in DOMAIN atHand |-> IF atHand[i].tid = t THEN atHand[i].events ELSE <<>>]
    OBVIOUS
  <1>8. DOMAIN atHand = 1..Len(atHand)
    BY <1>6, LenProperties
  <1>9. ASSUME NEW i \in 1..Len(atHand)
        PROVE  /\ chain[i] = IF atHand[i].tid = t THEN atHand[i].events ELSE <<>>
               /\ chain[i] \in Seq(Events)
    <2>1. atHand[i] \in Batches
      BY <1>6, ElementOfSeq
    <2>2. atHand[i].events \in Seq(Events) /\ <<>> \in Seq(Events)
      BY <2>1, EmptySeq DEF Batches
    <2>3. QED
      BY <1>7, <1>8, <2>2
  <1>10. chain \in Seq(Seq(Events)) /\ Len(chain) = Len(atHand)
    <2>1. Len(atHand) \in Nat
      BY <1>6
    <2>2. chain \in [1..Len(atHand) -> Seq(Events)]
      BY <1>7, <1>8, <1>9
    <2>3. QED
      BY <2>1, <2>2
  <1>11. Stream(t) = FlattenSeq(chain)
    BY <1>1, <1>5, <1>7 DEF Stream, FreshTails
  \* Where an event of the chain comes from.
  <1>12. ASSUME NEW j \in 1..Len(chain), NEW l \in 1..Len(chain[j])
         PROVE  chain[j] = atHand[j].events /\ atHand[j].tid = t
    <2>1. chain[j] = IF atHand[j].tid = t THEN atHand[j].events ELSE <<>>
      BY <1>9, <1>10
    <2>2. CASE atHand[j].tid = t
      BY <2>1, <2>2
    <2>3. CASE atHand[j].tid # t
      <3>1. Len(chain[j]) = 0
        BY <2>1, <2>3, EmptySeq
      <3>2. QED
        BY <3>1
    <2>4. QED
      BY <2>2, <2>3
  <1>13. ASSUME NEW i \in 1..Len(atHand), ~(i <= Len(history)) PROVE atHand[i] \in FreshTails(t)
    <2>1. atHand[i] = fresh[i - Len(history)] /\ i - Len(history) \in 1..Len(fresh)
      BY <1>6, <1>13
    <2>2. QED
      BY <1>2, <2>1, ElementOfSeq
  <1>14. ASSUME NEW b \in FreshTails(t)
         PROVE  \E i \in 1..Len(atHand) : ~(i <= Len(history)) /\ atHand[i] = b
    <2>1. PICK n \in 1..Len(fresh) : fresh[n] = b
      BY <1>2 DEF Shows
    <2>2. PICK i : i = Len(history) + n
      OBVIOUS
    <2>3. i \in 1..Len(atHand) /\ ~(i <= Len(history)) /\ i - Len(history) = n
      BY <1>6, <2>2
    <2>4. atHand[i] = fresh[i - Len(history)]
      BY <1>6, <2>3
    <2>5. QED
      BY <2>1, <2>3, <2>4
  <1>15. \A i \in 1..Len(history) : atHand[i] = history[i]
    BY <1>6
  <1>16. Len(atHand) \in Len(history)..(Len(history) + 1)
    BY <1>2, <1>6
  <1>17. \A i \in 1..Len(atHand) : atHand[i].tid = t => chain[i] = atHand[i].events
    BY <1>9
  <1>18. ChainOf(t, atHand, chain)
    BY <1>6, <1>10, <1>12, <1>13, <1>14, <1>15, <1>16, <1>17 DEF ChainOf
  <1>19. QED
    BY <1>11, <1>18

\* Before batch i's event k, the stream has what the history has before it.
HistoryEarlier(t, i, k, x) ==
    \E j \in 1..Len(history) : \E l \in 1..Len(history[j].events) :
        /\ history[j].tid = t /\ x = history[j].events[l]
        /\ j < i \/ (j = i /\ l < k)

LEMMA StreamShows ==
  ASSUME history \in Seq(Batches), tails \subseteq Batches, NEW t \in Threads,
         \A b, c \in tails : b.tid = c.tid => b = c
  PROVE  /\ Stream(t) \in Seq(Events)
         /\ \A i \in 1..Len(history) : \A k \in 1..Len(history[i].events) :
                history[i].tid = t =>
                    \E p \in 1..Len(Stream(t)) :
                        /\ Stream(t)[p] = history[i].events[k]
                        /\ \A q \in 1..(p - 1) : HistoryEarlier(t, i, k, Stream(t)[q])
         /\ \A b \in FreshTails(t) : \A k \in 1..Len(b.events) :
                \E p \in 1..Len(Stream(t)) :
                    /\ Stream(t)[p] = b.events[k]
                    /\ \A q \in 1..(p - 1) :
                           \/ HeldIn(history, t, Stream(t)[q])
                           \/ \E l \in 1..(k - 1) : Stream(t)[q] = b.events[l]
  <1>1. \E batches, chain : ChainOf(t, batches, chain) /\ Stream(t) = FlattenSeq(chain)
    BY StreamChain
  <1>2. PICK atHand, chain : ChainOf(t, atHand, chain) /\ Stream(t) = FlattenSeq(chain)
    BY <1>1
  <1>3. /\ Len(history) \in Nat /\ Len(chain) = Len(atHand) /\ Len(atHand) \in Len(history)..(Len(history) + 1)
        /\ \A i \in 1..Len(history) : atHand[i] = history[i]
    BY <1>2 DEF ChainOf
  <1>4. PICK stream : stream = Stream(t)
    OBVIOUS
  <1>5. stream \in Seq(Events) /\ ShownInOrder(chain, stream)
    BY <1>2, <1>4, FlattenInOrder DEF ChainOf
  <1>6. ASSUME NEW j \in 1..Len(chain), NEW l \in 1..Len(chain[j])
        PROVE  chain[j] = atHand[j].events /\ atHand[j].tid = t
    BY <1>2 DEF ChainOf
  <1>7. ASSUME NEW i \in 1..Len(history), NEW k \in 1..Len(history[i].events), history[i].tid = t
         PROVE  \E p \in 1..Len(stream) :
                    /\ stream[p] = history[i].events[k]
                    /\ \A q \in 1..(p - 1) : HistoryEarlier(t, i, k, stream[q])
    <2>1. i \in 1..Len(atHand) /\ atHand[i] = history[i]
      BY <1>3
    <2>2. chain[i] = history[i].events /\ i \in 1..Len(chain)
      BY <1>2, <1>3, <1>7, <2>1 DEF ChainOf
    <2>3. PICK p \in 1..Len(stream) :
              stream[p] = chain[i][k] /\ \A q \in 1..(p - 1) : FromBefore(chain, i, k, stream[q])
      BY <1>5, <2>2 DEF ShownInOrder
    <2>4. ASSUME NEW q \in 1..(p - 1) PROVE HistoryEarlier(t, i, k, stream[q])
      <3>1. PICK j \in 1..Len(chain) : \E l \in 1..Len(chain[j]) :
                    stream[q] = chain[j][l] /\ (j < i \/ (j = i /\ l < k))
        BY <2>3 DEF FromBefore
      <3>2. PICK l \in 1..Len(chain[j]) : stream[q] = chain[j][l] /\ (j < i \/ (j = i /\ l < k))
        BY <3>1
      <3>3. chain[j] = atHand[j].events /\ atHand[j].tid = t
        BY <1>6
      <3>4. j \in 1..Len(history)
        BY <1>3, <3>2
      <3>5. atHand[j] = history[j]
        BY <1>3, <3>4
      <3>6. QED
        BY <3>2, <3>3, <3>4, <3>5 DEF HistoryEarlier
    <2>5. QED
      BY <2>2, <2>3, <2>4
  <1>8. ASSUME NEW b \in FreshTails(t), NEW k \in 1..Len(b.events)
         PROVE  \E p \in 1..Len(stream) :
                    /\ stream[p] = b.events[k]
                    /\ \A q \in 1..(p - 1) :
                           \/ HeldIn(history, t, stream[q])
                           \/ \E l \in 1..(k - 1) : stream[q] = b.events[l]
    <2>1. PICK i \in 1..Len(atHand) : ~(i <= Len(history)) /\ atHand[i] = b
      BY <1>2 DEF ChainOf
    <2>2. i = Len(history) + 1
      BY <1>3, <2>1
    <2>3. b.tid = t
      BY DEF FreshTails
    <2>4. chain[i] = b.events /\ i \in 1..Len(chain)
      BY <1>2, <1>3, <2>1, <2>3 DEF ChainOf
    <2>5. PICK p \in 1..Len(stream) :
              stream[p] = chain[i][k] /\ \A q \in 1..(p - 1) : FromBefore(chain, i, k, stream[q])
      BY <1>5, <2>4 DEF ShownInOrder
    <2>6. ASSUME NEW q \in 1..(p - 1)
          PROVE  HeldIn(history, t, stream[q]) \/ \E l \in 1..(k - 1) : stream[q] = b.events[l]
      <3>1. PICK j \in 1..Len(chain) : \E l \in 1..Len(chain[j]) :
                    stream[q] = chain[j][l] /\ (j < i \/ (j = i /\ l < k))
        BY <2>5 DEF FromBefore
      <3>2. PICK l \in 1..Len(chain[j]) : stream[q] = chain[j][l] /\ (j < i \/ (j = i /\ l < k))
        BY <3>1
      <3>3. chain[j] = atHand[j].events /\ atHand[j].tid = t
        BY <1>6
      <3>4. CASE j <= Len(history)
        <4>1. j \in 1..Len(history) /\ atHand[j] = history[j]
          BY <1>3, <3>4
        <4>2. QED
          BY <3>2, <3>3, <4>1 DEF HeldIn
      <3>5. CASE ~(j <= Len(history))
        <4>1. j = i /\ l < k
          BY <1>3, <2>2, <3>2, <3>5
        <4>2. chain[j] = b.events /\ l \in 1..(k - 1)
          BY <2>4, <4>1
        <4>3. QED
          BY <3>2, <4>2
      <3>6. QED
        BY <3>4, <3>5
    <2>7. QED
      BY <2>4, <2>5, <2>6
  <1>9. QED
    BY <1>4, <1>5, <1>7, <1>8

---------------------------------------------------------------------------
(* A dump is complete.                                                      *)
DumpInv == Types /\ Rising /\ Paths /\ NothingForgotten /\ TailsShow /\ OneTail /\ ExitedEmpty

\* The ticks a dump spans.
LEMMA DumpSpan ==
  ASSUME Types, pc = "again"
  PROVE  First(job[1]) \in Int /\ job[1].end \in Int
  <1> USE HistoryAssumption
  <1>1. job[1] \in Messages /\ job[1].type \in {"dump", "dumpall"}
    BY JobIsMessage DEF Types, TypeOK
  <1>2. job[1].type = "dump" => job[1].window \in Windows
    BY JobIsMessage DEF Types, TypeOK
  <1>3. job[1].end \in 0..MaxTicks
    BY <1>1 DEF Messages
  <1>4. First(job[1]) \in 0..MaxTicks
    BY <1>2 DEF First, Types, TypeOK, ClientTypes
  <1>5. QED
    BY <1>3, <1>4

\* An event of the window that comes in the stream before all later ones is dumped.
LEMMA StreamDumped ==
  ASSUME Types, pc = "again", NEW t \in Threads, Stream(t) \in Seq(Events),
         NEW p \in 1..Len(Stream(t)), Within(Stream(t)[p]),
         \A q \in 1..(p - 1) : Stream(t)[q].ticks < Stream(t)[p].ticks
  PROVE  \E i \in DOMAIN Dumped(t) : Dumped(t)[i] = Stream(t)[p]
  <1> USE HistoryAssumption
  <1>1. PICK first, last : first = First(job[1]) /\ last = job[1].end
    OBVIOUS
  <1>2. first \in Int /\ last \in Int
    BY <1>1, DumpSpan
  <1>3. PICK stream \in Seq(Events) : stream = Stream(t)
    OBVIOUS
  <1>4. horizon \in 0..MaxTicks
    BY DEF Types, TypeOK, RingTypes
  <1>5. first <= stream[p].ticks /\ stream[p].ticks <= last
    BY <1>1, <1>3 DEF Within
  <1>6. ASSUME NEW q \in 1..(p - 1) PROVE stream[q].ticks <= last
    <2>1. Len(stream) \in Nat
      BY LenProperties
    <2>2. q \in 1..Len(stream) /\ p \in 1..Len(stream)
      BY <1>3, <2>1
    <2>3. stream[q] \in Events /\ stream[p] \in Events
      BY <2>2, ElementOfSeq
    <2>4. stream[q].ticks \in Int /\ stream[p].ticks \in Int
      BY <2>3 DEF Events
    <2>5. stream[q].ticks < stream[p].ticks
      BY <1>3
    <2>6. QED
      BY <1>2, <1>5, <2>4, <2>5
  <1>7. Replay(stream, first, last) \in Seq(Shown) /\ Shows(Replay(stream, first, last), stream[p])
    BY <1>2, <1>3, <1>4, <1>5, <1>6, ReplayShows
  <1>8. PICK shown \in Seq(Shown) : shown = Replay(stream, first, last)
    BY <1>7
  <1>9. PICK k \in 1..Len(shown) : shown[k] = stream[p]
    BY <1>7, <1>8 DEF Shows
  <1>10. k \in DOMAIN shown
    BY LenProperties
  <1>11. \E n \in DOMAIN SortedByTicks(shown) : SortedByTicks(shown)[n] = shown[k]
    BY <1>10, SortShows
  <1>12. Dumped(t) = SortedByTicks(shown)
    BY <1>1, <1>3, <1>8 DEF Dumped
  <1>13. QED
    BY <1>3, <1>9, <1>11, <1>12

\* What the history holds of a thread, and up to the dump's end what its batch
\* holds, is in its stream, behind earlier events only.
StreamHas(t, e) ==
    /\ Stream(t) \in Seq(Events)
    /\ \E p \in 1..Len(Stream(t)) :
           Stream(t)[p] = e /\ \A q \in 1..(p - 1) : Stream(t)[q].ticks < e.ticks

LEMMA FromHistory ==
  ASSUME DumpInv, pc = "again", NEW t \in Threads, NEW e, HeldIn(history, t, e)
  PROVE  StreamHas(t, e)
  <1>1. Types /\ Rising /\ Paths /\ OneTail
    BY DEF DumpInv
  <1>2. history \in Seq(Batches) /\ tails \subseteq Batches
    BY <1>1 DEF Types, TypeOK, RingTypes, RecorderTypes
  <1>3. PICK i \in 1..Len(history) : \E k \in 1..Len(history[i].events) :
                history[i].tid = t /\ e = history[i].events[k]
    BY DEF HeldIn
  <1>4. PICK k \in 1..Len(history[i].events) : history[i].tid = t /\ e = history[i].events[k]
    BY <1>3
  <1>5. Stream(t) \in Seq(Events)
    BY <1>1, <1>2, StreamShows DEF OneTail
  <1>6. \E p \in 1..Len(Stream(t)) :
            /\ Stream(t)[p] = history[i].events[k]
            /\ \A q \in 1..(p - 1) : HistoryEarlier(t, i, k, Stream(t)[q])
    BY <1>1, <1>2, <1>4, StreamShows DEF OneTail
  <1>7. PICK p \in 1..Len(Stream(t)) :
            /\ Stream(t)[p] = history[i].events[k]
            /\ \A q \in 1..(p - 1) : HistoryEarlier(t, i, k, Stream(t)[q])
    BY <1>6
  <1>8. ASSUME NEW q \in 1..(p - 1) PROVE Stream(t)[q].ticks < e.ticks
    <2>1. PICK j \in 1..Len(history) : \E l \in 1..Len(history[j].events) :
                  /\ history[j].tid = t /\ Stream(t)[q] = history[j].events[l]
                  /\ j < i \/ (j = i /\ l < k)
      BY <1>7 DEF HistoryEarlier
    <2>2. PICK l \in 1..Len(history[j].events) :
                  /\ history[j].tid = t /\ Stream(t)[q] = history[j].events[l]
                  /\ j < i \/ (j = i /\ l < k)
      BY <2>1
    <2>3. CASE j < i
      <3>1. Later(history[j], history[i])
        BY <1>1, <1>4, <2>2, <2>3 DEF Paths, InPath, Successive
      <3>2. QED
        BY <1>4, <2>2, <3>1 DEF Later
    <2>4. CASE j = i /\ l < k
      <3>1. history[i] \in RisingTo(clock)
        BY <1>1, ElementOfSeq DEF Rising
      <3>2. QED
        BY <1>4, <2>2, <2>4, <3>1, RisingBatch
    <2>5. QED
      BY <2>2, <2>3, <2>4
  <1>9. Stream(t)[p] = e
    BY <1>4, <1>7
  <1>10. QED
    BY <1>5, <1>8, <1>9 DEF StreamHas

LEMMA FromBatch ==
  ASSUME DumpInv, pc = "again", NEW t \in Threads \ InExit, NEW e, HeldIn(batch[t], t, e),
         e.ticks <= job[1].end
  PROVE  StreamHas(t, e)
  <1>1. Types /\ Rising /\ Paths /\ OneTail /\ TailsShow /\ ExitedEmpty
    BY DEF DumpInv
  <1>2. history \in Seq(Batches) /\ tails \subseteq Batches
    BY <1>1 DEF Types, TypeOK, RingTypes, RecorderTypes
  <1>3. batch[t] \in Seq(Batches) /\ Len(batch[t]) <= 1
    BY <1>1 DEF Types, TypeOK, ThreadTypes
  <1>4. PICK n \in 1..Len(batch[t]) : \E l \in 1..Len(batch[t][n].events) : e = batch[t][n].events[l]
    BY DEF HeldIn
  <1>5. Len(batch[t]) = 1 /\ n = 1
    <2>1. PICK size \in Nat : size = Len(batch[t])
      BY <1>3, LenProperties
    <2>2. n \in 1..size /\ size <= 1
      BY <1>3, <1>4, <2>1
    <2>3. \A m \in Nat : \A l \in 1..m : m <= 1 => m = 1 /\ l = 1
      OBVIOUS
    <2>4. QED
      BY <2>1, <2>2, <2>3
  <1>6. PICK mine : mine = batch[t][1]
    OBVIOUS
  <1>7. PICK k \in 1..Len(mine.events) : e = mine.events[k]
    BY <1>4, <1>5, <1>6
  <1>8. mine \in RisingTo(clock) /\ mine.tid = t
    <2>1. batch[t] \in Seq(RisingTo(clock)) /\ 1 \in 1..Len(batch[t])
      BY <1>1, <1>5 DEF Rising
    <2>2. mine \in RisingTo(clock)
      BY <1>6, <2>1, ElementOfSeq
    <2>3. mine.tid = t
      BY <1>1, <1>6, <2>1 DEF Paths, InPath, Own
    <2>4. QED
      BY <2>2, <2>3
  <1>9. t \in Registered
    <2>1. batch[t] # <<>>
      <3> SUFFICES ASSUME batch[t] = <<>> PROVE FALSE
        OBVIOUS
      <3>1. Len(batch[t]) = 0
        OBVIOUS
      <3>2. QED
        BY <1>5, <3>1
    <2>2. life[t] \in {"alive", "forgotten", "exited"}
      BY <1>1 DEF Types, TypeOK, ThreadTypes
    <2>3. QED
      BY <1>1, <2>1, <2>2 DEF InExit, ExitedEmpty, Registered
  <1>11. PICK b \in tails :
             b.tid = t /\ b.base = mine.base /\ k \in 1..Len(b.events) /\ b.events[k] = mine.events[k]
    BY <1>1, <1>6, <1>7, <1>9 DEF TailsShow
  <1>12. ASSUME NEW i \in 1..Len(history), history[i].tid = t PROVE Later(history[i], mine)
    BY <1>1, <1>5, <1>6, <1>8, <1>12 DEF Paths, InPath, OneAfter
  <1>13. FreshTail(b)
    <2> SUFFICES ASSUME NEW i \in DOMAIN history, history[i].tid = t, history[i].base = mine.base
                 PROVE  FALSE
      BY <1>11 DEF FreshTail
    <2>1. i \in 1..Len(history)
      BY <1>2, LenProperties
    <2>2. history[i] \in RisingTo(clock)
      BY <1>1, <2>1, ElementOfSeq DEF Rising
    <2>3. 1 \in 1..Len(history[i].events) /\ 1 \in 1..Len(mine.events)
      BY <1>8, <2>2, RisingBatch
    <2>4. history[i].events[1].ticks < mine.events[1].ticks
      BY <1>12, <2>1, <2>3 DEF Later
    <2>5. history[i].events[1].ticks = mine.events[1].ticks
      BY <1>8, <2>2, RisingBatch
    <2>6. mine.events[1].ticks \in Nat
      BY <1>8, <2>3, RisingBatch
    <2>7. QED
      BY <2>4, <2>5, <2>6
  <1>14. b \in FreshTails(t) /\ b \in RisingTo(clock)
    BY <1>1, <1>11, <1>13 DEF FreshTails, Rising
  <1>15. Stream(t) \in Seq(Events)
    BY <1>1, <1>2, StreamShows DEF OneTail
  <1>16. \E p \in 1..Len(Stream(t)) :
             /\ Stream(t)[p] = b.events[k]
             /\ \A q \in 1..(p - 1) :
                    \/ HeldIn(history, t, Stream(t)[q])
                    \/ \E l \in 1..(k - 1) : Stream(t)[q] = b.events[l]
    BY <1>1, <1>2, <1>11, <1>14, StreamShows DEF OneTail
  <1>17. PICK p \in 1..Len(Stream(t)) :
             /\ Stream(t)[p] = b.events[k]
             /\ \A q \in 1..(p - 1) :
                    \/ HeldIn(history, t, Stream(t)[q])
                    \/ \E l \in 1..(k - 1) : Stream(t)[q] = b.events[l]
    BY <1>16
  <1>18. Stream(t)[p] = e
    BY <1>7, <1>11, <1>17
  <1>19. ASSUME NEW q \in 1..(p - 1) PROVE Stream(t)[q].ticks < e.ticks
    <2>1. CASE HeldIn(history, t, Stream(t)[q])
      <3>1. PICK j \in 1..Len(history) : \E l \in 1..Len(history[j].events) :
                    history[j].tid = t /\ Stream(t)[q] = history[j].events[l]
        BY <2>1 DEF HeldIn
      <3>2. Later(history[j], mine)
        BY <1>12, <3>1
      <3>3. QED
        BY <1>7, <3>1, <3>2 DEF Later
    <2>2. ASSUME NEW l \in 1..(k - 1), Stream(t)[q] = b.events[l] PROVE Stream(t)[q].ticks < e.ticks
      <3>1. l \in 1..Len(b.events) /\ l < k /\ k \in 1..Len(b.events)
        <4>1. Len(b.events) \in Nat
          BY <1>14, RisingBatch
        <4>2. QED
          BY <1>11, <4>1
      <3>2. b.events[l].ticks < b.events[k].ticks
        BY <1>14, <3>1, RisingBatch
      <3>3. QED
        BY <1>7, <1>11, <2>2, <3>2
    <2>3. QED
      BY <1>17, <2>1, <2>2
  <1>20. QED
    BY <1>15, <1>18, <1>19 DEF StreamHas

LEMMA KeptAtHand ==
  ASSUME DumpInv, Assembling, NEW t \in Threads, NEW e \in Kept(t), e.ticks \notin lost
  PROVE  HeldIn(history, t, e) \/ HeldIn(batch[t], t, e)
  <1>1. pc = "again" /\ rings[t] = <<>>
    BY DEF Assembling, RingsEmpty
  <1>2. PICK j \in DOMAIN log[t] : log[t][j].ticks \notin evicted /\ e = log[t][j]
    BY DEF Kept
  <1>3. j \in 1..Len(log[t])
    BY LenProperties DEF DumpInv, Types, TypeOK, ThreadTypes
  <1>4. ~HeldIn(rings[t], t, e)
    <2>1. Len(rings[t]) = 0
      BY <1>1
    <2>2. QED
      BY <2>1 DEF HeldIn
  <1>5. QED
    BY <1>1, <1>2, <1>3, <1>4 DEF DumpInv, NothingForgotten, Somewhere

LEMMA AssembledWhole == DumpInv => DumpIsComplete
  <1> SUFFICES ASSUME DumpInv, Assembling, NEW t \in Threads \ InExit, NEW e \in Kept(t),
                      Within(e), e.ticks \notin lost
               PROVE  \E i \in DOMAIN Dumped(t) : Dumped(t)[i] = e
    BY DEF DumpIsComplete
  <1>1. pc = "again"
    BY DEF Assembling
  <1>2. HeldIn(history, t, e) \/ HeldIn(batch[t], t, e)
    BY KeptAtHand
  <1>3. StreamHas(t, e)
    BY <1>1, <1>2, FromHistory, FromBatch DEF Within
  <1>4. PICK p \in 1..Len(Stream(t)) :
            Stream(t)[p] = e /\ \A q \in 1..(p - 1) : Stream(t)[q].ticks < e.ticks
    BY <1>3 DEF StreamHas
  <1>5. QED
    BY <1>1, <1>3, <1>4, StreamDumped DEF DumpInv, StreamHas

LEMMA DumpInvInit == Init => Rising /\ Paths /\ NothingForgotten /\ TailsShow /\ OneTail /\ ExitedEmpty /\ EndsPast
  <1> SUFFICES ASSUME Init
               PROVE  Rising /\ Paths /\ NothingForgotten /\ TailsShow /\ OneTail /\ ExitedEmpty
                      /\ EndsPast
    OBVIOUS
  <1>1. \A t \in Threads : batch[t] = <<>> /\ rings[t] = <<>> /\ log[t] = <<>>
    BY DEF Init
  <1>2. history = <<>> /\ tails = {} /\ pc = "control" /\ control = <<>> /\ job = <<>>
    BY DEF Init
  <1>3. <<>> \in Seq(RisingTo(clock))
    BY EmptySeq
  <1>4. Rising
    BY <1>1, <1>2, <1>3 DEF Rising
  <1>5. Paths
    BY <1>1, <1>2, NoneAfter DEF Paths, InPath
  <1>6. NothingForgotten
    <2>1. \A t \in Threads : Len(log[t]) = 0
      BY <1>1
    <2>2. QED
      BY <2>1 DEF NothingForgotten
  <1>7. TailsShow /\ OneTail /\ ExitedEmpty
    BY <1>1, <1>2 DEF TailsShow, OneTail, ExitedEmpty
  <1>8. EndsPast
    BY <1>2, JobRange DEF EndsPast, InHand
  <1>9. QED
    BY <1>4, <1>5, <1>6, <1>7, <1>8

LEMMA DumpInvHolds == Spec => []DumpInv
  <1>1. Spec => [](Rising /\ Paths)
    BY DumpInvInit, RisingNext, PathsNext, TypesHold, PTL DEF Spec
  <1>2. Spec => [](NothingForgotten /\ OneTail /\ ExitedEmpty /\ EndsPast)
    BY <1>1, DumpInvInit, ForgottenNothingNext, OneTailNext, ExitedNext, EndsPastNext, TypesHold, PTL
       DEF Spec
  <1>3. Spec => []TailsShow
    BY <1>1, <1>2, DumpInvInit, TailsShowNext, TypesHold, PTL DEF Spec
  <1>4. QED
    BY <1>1, <1>2, <1>3, TypesHold, PTL DEF DumpInv

\* A dump holds every event of its window that is kept of a thread, however the
\* batch that the event is in moves meanwhile: what the ring has not yet brought
\* the tail shows, and a tail whose batch has come by now does not hide it (dump in
\* recorder.rs, assemble and replay in snapshot.rs).
THEOREM DumpsAreComplete == Spec => []DumpIsComplete
  BY DumpInvHolds, AssembledWhole, PTL

---------------------------------------------------------------------------
(* A dump invents nothing.                                                  *)
LogOf(t) == {log[t][i] : i \in DOMAIN log[t]}

\* A tick is one event's.
OneTick ==
    \A t, u \in Threads : \A x \in LogOf(t), y \in LogOf(u) :
        x.ticks <= clock /\ (x.ticks = y.ticks => t = u /\ x = y)

\* Calls nest: a frame is named by the tick it opens at and closes once.
ClosesOnce(t) ==
    /\ \A x \in LogOf(t) : IF x.opens THEN x.frame = x.ticks ELSE x.frame < x.ticks
    /\ \A x, y \in LogOf(t) : ~x.opens /\ ~y.opens /\ x.frame = y.frame => x = y

OpenFrames(t) ==
    /\ \A i, j \in 1..Len(stack[t]) : i < j => stack[t][j] < stack[t][i]
    /\ \A i \in 1..Len(stack[t]) :
           stack[t][i] <= clock /\ \A x \in LogOf(t) : ~x.opens => x.frame # stack[t][i]

CallsNest == \A t \in Threads : ClosesOnce(t) /\ OpenFrames(t)

OnTheWay == Range(history) \cup UNION {Range(rings[t]) \cup Range(batch[t]) : t \in Threads}

Logged == \A b \in OnTheWay \cup tails : \A k \in 1..Len(b.events) : b.events[k] \in LogOf(b.tid)

\* What is evicted of a thread is older than what is not.
EvictedFirst ==
    /\ \A b \in OnTheWay : \A k \in 1..Len(b.events) : \A x \in LogOf(b.tid) :
           x.ticks \in evicted => x.ticks < b.events[k].ticks
    /\ \A x \in evicted : x <= clock
    /\ horizon \in evicted \cup {0}

\* A tail is the beginning of a batch.
TailsBegin ==
    \A a \in tails, b \in OnTheWay :
        (\E k \in 1..Len(a.events) : a.events[k].ticks \in TicksOf(b.events)) =>
            a.tid = b.tid /\ a.base = b.base /\ EndTicks(a) <= EndTicks(b)

HorizonEnds ==
    \A b \in tails : \A k \in 1..Len(b.events) : b.events[k].ticks = horizon => k = Len(b.events)

\* Up to the end of the dump a thread has recorded nothing after its tail.
NoneBehind ==
    pc = "again" => \A b \in tails : \A x \in LogOf(b.tid) :
        x.ticks <= job[1].end => x.ticks <= EndTicks(b)

LastInBatch ==
    \A t \in Threads : batch[t] # <<>> => \A x \in LogOf(t) : x.ticks <= EndTicks(batch[t][1])

LEMMA LogTypes ==
  ASSUME Types, NEW t \in Threads, NEW x \in LogOf(t)
  PROVE  x \in Events /\ x.ticks \in Nat \ {0} /\ x.frame \in Int /\ x.opens \in BOOLEAN
  <1>1. log[t] \in Seq(Events)
    BY DEF Types, TypeOK, ThreadTypes
  <1>2. x \in Events
    BY <1>1, ElementOfSeq, LenProperties DEF LogOf
  <1>3. QED
    BY <1>2, HistoryAssumption DEF Events, Frames

LEMMA LogGrows ==
  ASSUME Types, NEW t \in Threads, NEW e \in Events, log'[t] = Append(log[t], e)
  PROVE  LogOf(t)' = LogOf(t) \cup {e}
  <1>1. log[t] \in Seq(Events)
    BY DEF Types, TypeOK, ThreadTypes
  <1>2. PICK old, new : old = log[t] /\ new = log'[t]
    OBVIOUS
  <1>3. /\ Len(old) \in Nat /\ DOMAIN old = 1..Len(old) /\ DOMAIN new = 1..(Len(old) + 1)
        /\ \A i \in 1..Len(old) : new[i] = old[i]
        /\ new[Len(old) + 1] = e
    <2>1. new \in Seq(Events)
      BY <1>1, <1>2, AppendProperties
    <2>2. Len(new) = Len(old) + 1 /\ new[Len(old) + 1] = e /\ \A i \in 1..Len(old) : new[i] = old[i]
      BY <1>1, <1>2, AppendProperties
    <2>3. Len(old) \in Nat /\ DOMAIN old = 1..Len(old) /\ DOMAIN new = 1..Len(new)
      BY <1>1, <1>2, <2>1, LenProperties
    <2>4. QED
      BY <2>2, <2>3
  <1>4. {new[i] : i \in DOMAIN new} = {old[i] : i \in DOMAIN old} \cup {e}
    <2>1. ASSUME NEW i \in DOMAIN new PROVE new[i] \in {old[j] : j \in DOMAIN old} \cup {e}
      BY <1>3
    <2>2. ASSUME NEW i \in DOMAIN old PROVE i \in DOMAIN new /\ new[i] = old[i]
      BY <1>3
    <2>3. Len(old) + 1 \in DOMAIN new
      BY <1>3
    <2>4. QED
      BY <1>3, <2>1, <2>2, <2>3
  <1>5. QED
    BY <1>2, <1>4 DEF LogOf

LEMMA LogStep ==
  ASSUME Types, [Next]_vars
  PROVE  UNCHANGED <<log, stack>> \/ \E t \in Threads : Enter(t) \/ Leave(t)
  <1>1. ASSUME NEW t \in Threads, Forget(t) \/ FlushAtExit(t) PROVE UNCHANGED <<log, stack>>
    BY <1>1 DEF Forget, FlushAtExit
  <1>2. ASSUME NEW w \in Windows, EnterBlock(w) \/ ExitBlock(w) \/ ExitRefused(w) \/ BlockFails(w)
        PROVE  UNCHANGED <<log, stack>>
    BY <1>2 DEF EnterBlock, ExitBlock, ExitRefused, BlockFails, threadVars
  <1>3. CASE StopThreads \/ AskWhole \/ Close \/ Join \/ Ended \/ UNCHANGED vars
    BY <1>3 DEF StopThreads, AskWhole, Close, Join, Ended, threadVars, vars
  <1>4. CASE \/ HandleOpen \/ BeginDump \/ NoMessage \/ NothingDrained \/ CheckClosed \/ ReadTails
             \/ Assemble \/ Written \/ Reply \/ LastAbsorbed \/ Die
    BY <1>4 DEF HandleOpen, BeginDump, NoMessage, NothingDrained, CheckClosed, ReadTails, Assemble,
       Written, Reply, LastAbsorbed, Die, Goes, threadVars
  <1>5. ASSUME NEW t \in Threads, Drain(t) \/ Absorb(t) PROVE UNCHANGED <<log, stack>>
    BY <1>5 DEF Drain, Absorb, threadVars
  <1>6. QED
    BY <1>1, <1>2, <1>3, <1>4, <1>5 DEF Next, Recorder

\* What a callback adds.
LEMMA CallbackStep ==
  ASSUME Types, NEW t \in Threads, Enter(t) \/ Leave(t)
  PROVE  \E e \in Events :
             /\ e.ticks = clock + 1 /\ clock' = clock + 1
             /\ LogOf(t)' = LogOf(t) \cup {e}
             /\ \A u \in Threads \ {t} : LogOf(u)' = LogOf(u) /\ stack'[u] = stack[u]
             /\ \/ e.opens /\ e.frame = clock + 1 /\ stack'[t] = <<clock + 1>> \o stack[t]
                \/ ~e.opens /\ stack[t] # <<>> /\ e.frame = Head(stack[t]) /\ stack'[t] = Tail(stack[t])
  <1> USE HistoryAssumption
  <1>1. /\ clock \in 0..MaxTicks /\ log \in [Threads -> Seq(Events)]
        /\ stack \in [Threads -> Seq(Frames)]
    BY DEF Types, TypeOK, ThreadTypes
  <1>2. ASSUME NEW e \in Events, e.ticks = clock + 1, Record(t, e)
        PROVE  /\ clock' = clock + 1 /\ LogOf(t)' = LogOf(t) \cup {e}
               /\ \A u \in Threads \ {t} : LogOf(u)' = LogOf(u)
    <2>1. clock' = clock + 1 /\ log' = [log EXCEPT ![t] = Append(@, e)]
      BY <1>2 DEF Record
    <2>2. log'[t] = Append(log[t], e) /\ \A u \in Threads \ {t} : log'[u] = log[u]
      BY <1>1, <2>1
    <2>3. LogOf(t)' = LogOf(t) \cup {e}
      BY <2>2, LogGrows
    <2>4. QED
      BY <2>1, <2>2, <2>3 DEF LogOf
  <1>3. clock + 1 \in 1..MaxTicks
    BY <1>1 DEF Enter, Leave, Record
  <1>4. CASE Enter(t)
    <2>1. PICK e : e = [ticks |-> clock + 1, opens |-> TRUE, frame |-> clock + 1]
      OBVIOUS
    <2>2. e \in Events
      BY <1>3, <2>1 DEF Events, Frames
    <2>3. Record(t, e) /\ stack' = [stack EXCEPT ![t] = <<clock + 1>> \o @]
      BY <1>4, <2>1 DEF Enter
    <2>4. stack'[t] = <<clock + 1>> \o stack[t] /\ \A u \in Threads \ {t} : stack'[u] = stack[u]
      BY <1>1, <2>3
    <2>5. e.ticks = clock + 1 /\ e.opens /\ e.frame = clock + 1
      BY <2>1
    <2>6. QED
      BY <1>2, <2>2, <2>3, <2>4, <2>5
  <1>5. CASE Leave(t)
    <2>1. PICK e : e = [ticks |-> clock + 1, opens |-> FALSE, frame |-> Head(stack[t])]
      OBVIOUS
    <2>2. stack[t] # <<>> /\ Head(stack[t]) \in Frames
      BY <1>1, <1>5, HeadTailProperties DEF Leave
    <2>3. e \in Events
      BY <1>3, <2>1, <2>2 DEF Events
    <2>4. Record(t, e) /\ stack' = [stack EXCEPT ![t] = Tail(@)]
      BY <1>5, <2>1 DEF Leave
    <2>5. stack'[t] = Tail(stack[t]) /\ \A u \in Threads \ {t} : stack'[u] = stack[u]
      BY <1>1, <2>4
    <2>6. e.ticks = clock + 1 /\ ~e.opens /\ e.frame = Head(stack[t])
      BY <2>1
    <2>7. QED
      BY <1>2, <2>2, <2>3, <2>4, <2>5, <2>6
  <1>6. QED
    BY <1>4, <1>5

LEMMA OneTickNext ==
  ASSUME Types, OneTick, [Next]_vars
  PROVE  OneTick'
  <1>1. clock \in Nat /\ clock' \in {clock, clock + 1}
    BY ClockGoesOn
  <1>2. ASSUME NEW t \in Threads, NEW x \in LogOf(t) PROVE x.ticks \in Nat /\ x.ticks <= clock
    BY LogTypes DEF OneTick
  <1>3. CASE UNCHANGED <<log, stack>>
    <2>1. \A t \in Threads : LogOf(t)' = LogOf(t)
      BY <1>3 DEF LogOf
    <2>2. \A t \in Threads : \A x \in LogOf(t) : x.ticks <= clock'
      BY <1>1, <1>2
    <2>3. QED
      BY <2>1, <2>2 DEF OneTick
  <1>4. ASSUME NEW t \in Threads, Enter(t) \/ Leave(t) PROVE OneTick'
    <2>1. PICK e \in Events :
               /\ e.ticks = clock + 1 /\ clock' = clock + 1 /\ LogOf(t)' = LogOf(t) \cup {e}
               /\ \A u \in Threads \ {t} : LogOf(u)' = LogOf(u)
      BY <1>4, CallbackStep
    <2>2. ASSUME NEW u \in Threads, NEW x \in LogOf(u)'
          PROVE  (x \in LogOf(u) /\ x.ticks # e.ticks) \/ (u = t /\ x = e)
      BY <1>1, <1>2, <2>1
    <2>3. ASSUME NEW u \in Threads, NEW x \in LogOf(u)' PROVE x.ticks <= clock'
      <3>1. x \in LogOf(u) => x.ticks <= clock'
        BY <1>1, <1>2, <2>1
      <3>2. x = e => x.ticks <= clock'
        BY <1>1, <2>1
      <3>3. QED
        BY <2>2, <3>1, <3>2
    <2>4. ASSUME NEW u \in Threads, NEW v \in Threads, NEW x \in LogOf(u)', NEW y \in LogOf(v)',
                 x.ticks = y.ticks
          PROVE  u = v /\ x = y
      <3>1. (x \in LogOf(u) /\ x.ticks # e.ticks) \/ (u = t /\ x = e)
        BY <2>2
      <3>2. (y \in LogOf(v) /\ y.ticks # e.ticks) \/ (v = t /\ y = e)
        BY <2>2
      <3>3. QED
        BY <2>4, <3>1, <3>2 DEF OneTick
    <2>5. QED
      BY <2>3, <2>4 DEF OneTick
  <1>5. QED
    BY <1>3, <1>4, LogStep

\* What other steps leave of the logs, and what any step adds.
LEMMA LogsGrow ==
  ASSUME Types, [Next]_vars, NEW t \in Threads
  PROVE  /\ LogOf(t) \subseteq LogOf(t)'
         /\ \A x \in LogOf(t)' \ LogOf(t) : x.ticks = clock + 1 /\ clock' = clock + 1
  <1>1. CASE UNCHANGED <<log, stack>>
    BY <1>1 DEF LogOf
  <1>2. ASSUME NEW u \in Threads, Enter(u) \/ Leave(u)
        PROVE  /\ LogOf(t) \subseteq LogOf(t)'
               /\ \A x \in LogOf(t)' \ LogOf(t) : x.ticks = clock + 1 /\ clock' = clock + 1
    <2>1. PICK e \in Events :
               /\ e.ticks = clock + 1 /\ clock' = clock + 1 /\ LogOf(u)' = LogOf(u) \cup {e}
               /\ \A v \in Threads \ {u} : LogOf(v)' = LogOf(v)
      BY <1>2, CallbackStep
    <2>2. QED
      BY <2>1
  <1>3. QED
    BY <1>1, <1>2, LogStep

LEMMA CallsNestNext ==
  ASSUME Types, OneTick, CallsNest, [Next]_vars
  PROVE  CallsNest'
  <1>1. clock \in Nat /\ clock' \in {clock, clock + 1}
    BY ClockGoesOn
  <1>2. ASSUME NEW t \in Threads PROVE stack[t] \in Seq(Frames) /\ Frames \subseteq Int
    BY HistoryAssumption DEF Types, TypeOK, ThreadTypes, Frames
  <1>3. ASSUME NEW t \in Threads, NEW i \in 1..Len(stack[t])
        PROVE  stack[t][i] \in Int /\ stack[t][i] <= clock /\ stack[t][i] <= clock'
    <2>1. stack[t][i] \in Int
      BY <1>2, ElementOfSeq
    <2>2. stack[t][i] <= clock
      BY DEF CallsNest, OpenFrames
    <2>3. QED
      BY <1>1, <2>1, <2>2
  <1>4. ASSUME NEW t \in Threads, LogOf(t)' = LogOf(t), stack'[t] = stack[t]
        PROVE  ClosesOnce(t)' /\ OpenFrames(t)'
    <2>1. ClosesOnce(t)'
      BY <1>4 DEF CallsNest, ClosesOnce
    <2>2. OpenFrames(t)'
      BY <1>3, <1>4 DEF CallsNest, OpenFrames
    <2>3. QED
      BY <2>1, <2>2
  <1>5. CASE UNCHANGED <<log, stack>>
    <2>1. \A t \in Threads : LogOf(t)' = LogOf(t) /\ stack'[t] = stack[t]
      BY <1>5 DEF LogOf
    <2>2. QED
      BY <1>4, <2>1 DEF CallsNest
  <1>6. ASSUME NEW t \in Threads, Enter(t) \/ Leave(t) PROVE CallsNest'
    <2>1. PICK e \in Events :
             /\ e.ticks = clock + 1 /\ clock' = clock + 1
             /\ LogOf(t)' = LogOf(t) \cup {e}
             /\ \A u \in Threads \ {t} : LogOf(u)' = LogOf(u) /\ stack'[u] = stack[u]
             /\ \/ e.opens /\ e.frame = clock + 1 /\ stack'[t] = <<clock + 1>> \o stack[t]
                \/ ~e.opens /\ stack[t] # <<>> /\ e.frame = Head(stack[t]) /\ stack'[t] = Tail(stack[t])
      BY <1>6, CallbackStep
    <2>2. PICK old, new : old = stack[t] /\ new = stack'[t]
      OBVIOUS
    <2>3. old \in Seq(Frames) /\ Len(old) \in Nat
      BY <1>2, <2>2, LenProperties
    <2>4. ASSUME NEW x \in LogOf(t) PROVE x.ticks \in Nat /\ x.ticks <= clock /\ x.frame \in Int /\ x.frame <= clock
      <3>1. x.ticks \in Nat /\ x.ticks <= clock /\ x.frame \in Int
        BY LogTypes DEF OneTick
      <3>2. IF x.opens THEN x.frame = x.ticks ELSE x.frame < x.ticks
        BY DEF CallsNest, ClosesOnce
      <3>3. QED
        BY <1>1, <3>1, <3>2
    <2>5. ClosesOnce(t)' /\ OpenFrames(t)'
      <3>1. CASE e.opens /\ e.frame = clock + 1 /\ new = <<clock + 1>> \o old
        <4>1. ClosesOnce(t)'
          BY <2>1, <3>1 DEF CallsNest, ClosesOnce
        <4>2. /\ Len(new) = Len(old) + 1 /\ new[1] = clock + 1
              /\ \A i \in 2..Len(new) : i - 1 \in 1..Len(old) /\ new[i] = old[i - 1]
          <5>1. <<clock + 1>> \in Seq(Int) /\ Len(<<clock + 1>>) = 1 /\ <<clock + 1>>[1] = clock + 1
            BY <1>1
          <5>2. old \in Seq(Int)
            BY <1>2, <2>3
          <5>3. Len(new) = 1 + Len(old)
            BY <3>1, <5>1, <5>2, ConcatProperties
          <5>4. \A i \in 1..(1 + Len(old)) : new[i] = IF i <= 1 THEN clock + 1 ELSE old[i - 1]
            BY <3>1, <5>1, <5>2, ConcatProperties
          <5>5. QED
            BY <2>3, <5>3, <5>4
        <4>3. ASSUME NEW i \in 1..Len(new), NEW j \in 1..Len(new), i < j PROVE new[j] < new[i]
          <5>1. j \in 2..Len(new)
            BY <2>3, <4>2, <4>3
          <5>2. new[j] = old[j - 1] /\ j - 1 \in 1..Len(old) /\ new[j] \in Int /\ new[j] <= clock
            BY <1>3, <2>2, <4>2, <5>1
          <5>3. CASE i = 1
            BY <1>1, <4>2, <5>2, <5>3
          <5>4. CASE i # 1
            <6>1. i \in 2..Len(new) /\ i - 1 < j - 1
              BY <4>3, <5>4
            <6>2. new[i] = old[i - 1] /\ i - 1 \in 1..Len(old)
              BY <4>2, <6>1
            <6>3. old[j - 1] < old[i - 1]
              BY <2>2, <5>2, <6>1, <6>2 DEF CallsNest, OpenFrames
            <6>4. QED
              BY <5>2, <6>2, <6>3
          <5>5. QED
            BY <5>3, <5>4
        <4>4. ASSUME NEW i \in 1..Len(new)
              PROVE  new[i] <= clock' /\ \A x \in LogOf(t)' : ~x.opens => x.frame # new[i]
          <5>1. CASE i = 1
            <6>1. \A x \in LogOf(t)' : ~x.opens => x.frame # clock + 1
              BY <1>1, <2>1, <2>4, <3>1
            <6>2. QED
              BY <1>1, <2>1, <4>2, <5>1, <6>1
          <5>2. CASE i # 1
            <6>1. i \in 2..Len(new)
              BY <5>2
            <6>2. new[i] = old[i - 1] /\ i - 1 \in 1..Len(old)
              BY <4>2, <6>1
            <6>3. old[i - 1] <= clock' /\ \A x \in LogOf(t) : ~x.opens => x.frame # old[i - 1]
              BY <1>3, <2>2, <6>2 DEF CallsNest, OpenFrames
            <6>4. QED
              BY <2>1, <3>1, <6>2, <6>3
          <5>3. QED
            BY <5>1, <5>2
        <4>5. QED
          BY <2>2, <4>1, <4>3, <4>4 DEF OpenFrames
      <3>2. CASE ~e.opens /\ old # <<>> /\ e.frame = Head(old) /\ new = Tail(old)
        <4>1. /\ Len(old) # 0 /\ e.frame = old[1] /\ Len(new) = Len(old) - 1
              /\ \A i \in 1..Len(new) : i + 1 \in 1..Len(old) /\ new[i] = old[i + 1]
          <5>1. Len(old) # 0
            BY <2>3, <3>2, EmptySeq
          <5>2. Head(old) = old[1] /\ Len(Tail(old)) = Len(old) - 1
            BY <2>3, <3>2, HeadTailProperties
          <5>3. \A i \in 1..Len(Tail(old)) : Tail(old)[i] = old[i + 1]
            BY <2>3, <3>2, HeadTailProperties
          <5>4. QED
            BY <2>3, <3>2, <5>1, <5>2, <5>3
        <4>2. 1 \in 1..Len(old)
          BY <2>3, <4>1
        <4>3. e.frame <= clock /\ e.frame \in Int /\ \A x \in LogOf(t) : ~x.opens => x.frame # e.frame
          BY <1>3, <2>2, <4>1, <4>2 DEF CallsNest, OpenFrames
        <4>4. e.frame < e.ticks
          BY <1>1, <2>1, <4>3
        <4>5. ClosesOnce(t)'
          <5>1. \A x \in LogOf(t)' : IF x.opens THEN x.frame = x.ticks ELSE x.frame < x.ticks
            BY <2>1, <3>2, <4>4 DEF CallsNest, ClosesOnce
          <5>2. ASSUME NEW x \in LogOf(t)', NEW y \in LogOf(t)', ~x.opens, ~y.opens, x.frame = y.frame
                PROVE  x = y
            BY <2>1, <4>3, <5>2 DEF CallsNest, ClosesOnce
          <5>3. QED
            BY <5>1, <5>2 DEF ClosesOnce
        <4>6. ASSUME NEW i \in 1..Len(new), NEW j \in 1..Len(new), i < j PROVE new[j] < new[i]
          <5>1. i + 1 < j + 1
            BY <4>6
          <5>2. old[j + 1] < old[i + 1]
            BY <2>2, <4>1, <5>1 DEF CallsNest, OpenFrames
          <5>3. QED
            BY <4>1, <5>2
        <4>7. ASSUME NEW i \in 1..Len(new)
              PROVE  new[i] <= clock' /\ \A x \in LogOf(t)' : ~x.opens => x.frame # new[i]
          <5>1. new[i] = old[i + 1] /\ i + 1 \in 1..Len(old) /\ 1 < i + 1
            BY <4>1
          <5>2. old[i + 1] < old[1] /\ old[i + 1] \in Int /\ old[1] \in Int
            BY <1>3, <2>2, <4>2, <5>1 DEF CallsNest, OpenFrames
          <5>3. old[i + 1] <= clock' /\ \A x \in LogOf(t) : ~x.opens => x.frame # old[i + 1]
            BY <1>3, <2>2, <5>1 DEF CallsNest, OpenFrames
          <5>4. e.frame # old[i + 1]
            BY <4>1, <5>2
          <5>5. QED
            BY <2>1, <5>1, <5>3, <5>4
        <4>8. QED
          BY <2>2, <4>5, <4>6, <4>7 DEF OpenFrames
      <3>3. QED
        BY <2>1, <2>2, <3>1, <3>2
    <2>6. QED
      BY <1>4, <2>1, <2>5 DEF CallsNest
  <1>7. QED
    BY <1>5, <1>6, LogStep

LEMMA WayRange ==
  ASSUME Types, NEW t \in Threads
  PROVE  /\ Range(rings[t] \o batch[t]) = Range(rings[t]) \cup Range(batch[t])
         /\ Range(history \o rings[t]) = Range(history) \cup Range(rings[t])
         /\ \A b \in Range(batch[t]) : batch[t] # <<>> /\ b = batch[t][1]
         /\ batch[t] # <<>> => batch[t][1] \in Range(batch[t])
  <1>1. /\ history \in Seq(Batches) /\ rings[t] \in Seq(Batches) /\ batch[t] \in Seq(Batches)
        /\ Len(batch[t]) <= 1
    BY DEF Types, TypeOK, RingTypes, QueueTypes, ThreadTypes
  <1>2. /\ Range(rings[t] \o batch[t]) = Range(rings[t]) \cup Range(batch[t])
        /\ Range(history \o rings[t]) = Range(history) \cup Range(rings[t])
    BY <1>1, RangeConcatenation
  <1>3. DOMAIN batch[t] = 1..Len(batch[t]) /\ Len(batch[t]) \in {0, 1}
    <2>1. DOMAIN batch[t] = 1..Len(batch[t]) /\ Len(batch[t]) \in Nat
      BY <1>1, LenProperties
    <2>2. \A n \in Nat : n <= 1 => n \in {0, 1}
      OBVIOUS
    <2>3. QED
      BY <1>1, <2>1, <2>2
  <1>4. batch[t] # <<>> => Len(batch[t]) = 1
    BY <1>1, OneBatch
  <1>5. \A b \in Range(batch[t]) : batch[t] # <<>> /\ b = batch[t][1]
    BY <1>3 DEF Range
  <1>6. batch[t] # <<>> => batch[t][1] \in Range(batch[t])
    BY <1>3, <1>4 DEF Range
  <1>7. QED
    BY <1>2, <1>5, <1>6

LEMMA HoldRange ==
  ASSUME NEW s \in Seq(Batches), NEW n \in 0..Len(s)
  PROVE  \A b \in Range(Without(s, n)) : \E m \in (n + 1)..Len(s) : b = s[m]
  <1>1. PICK left : left = Without(s, n)
    OBVIOUS
  <1>2. /\ Len(s) \in Nat /\ Len(left) = Len(s) - n
        /\ \A i \in 1..(Len(s) - n) : i + n \in 1..Len(s) /\ left[i] = s[i + n]
    BY <1>1, WithoutFirst
  <1>3. DOMAIN left = 1..Len(left)
    <2>1. \A i \in (n + 1)..Len(s) : s[i] \in Batches
      BY ElementOfSeq, LenProperties
    <2>2. left \in Seq(Batches)
      BY <1>1, <1>2, <2>1, SubSeqProperties DEF Without
    <2>3. QED
      BY <2>2, LenProperties
  <1>4. ASSUME NEW b \in Range(left) PROVE \E m \in (n + 1)..Len(s) : b = s[m]
    <2>1. PICK i \in 1..(Len(s) - n) : b = left[i]
      BY <1>2, <1>3 DEF Range
    <2>2. i + n \in (n + 1)..Len(s)
      BY <1>2
    <2>3. QED
      BY <1>2, <2>1, <2>2
  <1>5. QED
    BY <1>1, <1>4

\* What a step of the history's gives up and what it keeps.
GivesUp(s, n) ==
    /\ history' = Without(s, n)
    /\ horizon' = IF n = 0 THEN horizon ELSE EndTicks(s[n])
    /\ evicted' = evicted \cup UNION {TicksOf(s[i].events) : i \in 1..n}
    /\ Range(s) \subseteq OnTheWay
    /\ \A t \in Threads : InPath(t, s, rings'[t], batch'[t])
    /\ \A t \in Threads : rings'[t] \in {rings[t], <<>>}

LEMMA HistoryGivesUp ==
  ASSUME Types, Paths, HistoryMoves
  PROVE  \E s \in Seq(Batches) : \E n \in 0..Len(s) : GivesUp(s, n)
  <1>1. /\ history \in Seq(Batches) /\ rings \in [Threads -> Seq(Batches)]
        /\ \A t \in Threads : rings[t] \in Seq(Batches) /\ batch[t] \in Seq(Batches)
    BY DEF Types, TypeOK, RingTypes, QueueTypes, ThreadTypes
  <1>2. batch' = batch
    BY DEF HistoryMoves
  <1>3. CASE Holds
    <2>1. PICK ws : Hold(history, ws) /\ UNCHANGED rings
      BY <1>3 DEF Holds
    <2>2. PICK n \in 0..Len(history) :
               /\ history' = Without(history, n)
               /\ horizon' = IF n = 0 THEN horizon ELSE EndTicks(history[n])
               /\ evicted' = evicted \cup UNION {TicksOf(history[i].events) : i \in 1..n}
      BY <2>1 DEF Hold, Enough
    <2>3. Range(history) \subseteq OnTheWay
      BY DEF OnTheWay
    <2>4. \A t \in Threads : InPath(t, history, rings'[t], batch'[t])
      BY <1>2, <2>1 DEF Paths
    <2>5. GivesUp(history, n)
      BY <2>1, <2>2, <2>3, <2>4 DEF GivesUp
    <2>6. QED
      BY <1>1, <2>5
  <1>4. ASSUME NEW t \in Threads, TakeRing(t)
        PROVE  \E s \in Seq(Batches) : \E n \in 0..Len(s) : GivesUp(s, n)
    <2>1. PICK s : s = history \o rings[t]
      OBVIOUS
    <2>2. s \in Seq(Batches)
      BY <1>1, <2>1, ConcatProperties
    <2>3. PICK n \in 0..Len(s) :
               /\ history' = Without(s, n)
               /\ horizon' = IF n = 0 THEN horizon ELSE EndTicks(s[n])
               /\ evicted' = evicted \cup UNION {TicksOf(s[i].events) : i \in 1..n}
      <3>1. Hold(s, windows)
        BY <1>4, <2>1 DEF TakeRing
      <3>2. PICK n \in Enough(s, windows) :
                 /\ history' = Without(s, n)
                 /\ horizon' = IF n = 0 THEN horizon ELSE EndTicks(s[n])
                 /\ evicted' = evicted \cup UNION {TicksOf(s[i].events) : i \in 1..n}
        BY <3>1 DEF Hold
      <3>3. n \in 0..Len(s)
        BY DEF Enough
      <3>4. QED
        BY <3>2, <3>3
    <2>4. Range(s) \subseteq OnTheWay
      <3>1. Range(s) = Range(history) \cup Range(rings[t])
        BY <2>1, WayRange
      <3>2. Range(rings[t]) \subseteq UNION {Range(rings[u]) \cup Range(batch[u]) : u \in Threads}
        OBVIOUS
      <3>3. QED
        BY <3>1, <3>2 DEF OnTheWay
    <2>5. rings' = [rings EXCEPT ![t] = <<>>]
      BY <1>4 DEF TakeRing
    <2>6. ASSUME NEW u \in Threads PROVE InPath(u, s, rings'[u], batch'[u])
      <3>1. InPath(u, history, rings[u], batch[u]) /\ Own(t, rings[t])
        BY DEF Paths, InPath
      <3>2. CASE u = t
        <4>1. InPath(t, s, <<>>, batch[t])
          BY <1>1, <2>1, <3>1, <3>2, PathTaken
        <4>2. QED
          BY <1>1, <1>2, <2>5, <3>2, <4>1
      <3>3. CASE u # t
        <4>1. InPath(u, s, rings[u], batch[u])
          BY <1>1, <2>1, <3>1, <3>3, PathBeside
        <4>2. QED
          BY <1>1, <1>2, <2>5, <3>3, <4>1
      <3>4. QED
        BY <3>2, <3>3
    <2>7. \A u \in Threads : rings'[u] \in {rings[u], <<>>}
      BY <1>1, <2>5
    <2>8. GivesUp(s, n)
      BY <2>3, <2>4, <2>6, <2>7 DEF GivesUp
    <2>9. QED
      BY <2>2, <2>8
  <1>5. QED
    BY <1>3, <1>4 DEF HistoryMoves, Takes

\* Where a batch on its way comes from.
LEMMA OnWayMoves ==
  ASSUME Types, Paths, [Next]_vars, NEW b \in OnTheWay'
  PROVE  \/ b \in OnTheWay
         \/ \E t \in Threads : \E e \in Events :
                /\ Recorded(t, e)
                /\ \/ b = BatchOf(t, e)[1]
                   \/ batch[t] # <<>> /\ b = Longer(batch[t][1], e)
  <1>1. \/ b \in Range(history')
        \/ \E t \in Threads : b \in Range(rings'[t]) \/ b \in Range(batch'[t])
    BY DEF OnTheWay
  <1>2. \A t \in Threads : \A c : c \in Range(rings[t]) \/ c \in Range(batch[t]) => c \in OnTheWay
    BY DEF OnTheWay
  <1>3. \A c \in Range(history) : c \in OnTheWay
    BY DEF OnTheWay
  <1>4. Range(<<>>) = {}
    BY DEF Range
  <1>5. CASE ThreadsMove
    <2>1. CASE b \in Range(history')
      BY <1>3, <1>5, <2>1 DEF ThreadsMove
    <2>2. ASSUME NEW t \in Threads, b \in Range(rings'[t]) PROVE b \in OnTheWay
      <3>1. Stays(t) \/ Gone(t) \/ rings'[t] = rings[t]
        BY <1>5 DEF ThreadsMove, Shipped, Recorded
      <3>2. rings'[t] = rings[t] \/ rings'[t] = rings[t] \o batch[t]
        BY <3>1 DEF Stays, Gone
      <3>3. QED
        BY <1>2, <2>2, <3>2, WayRange
    <2>3. ASSUME NEW t \in Threads, b \in Range(batch'[t]), b \notin OnTheWay
          PROVE  \E e \in Events :
                     /\ Recorded(t, e)
                     /\ \/ b = BatchOf(t, e)[1]
                        \/ batch[t] # <<>> /\ b = Longer(batch[t][1], e)
      <3>1. ~Stays(t) /\ ~Shipped(t)
        BY <1>2, <1>4, <2>3 DEF Stays, Shipped
      <3>2. PICK e \in Events : Recorded(t, e)
        BY <1>5, <3>1 DEF ThreadsMove
      <3>3. CASE batch'[t] = BatchOf(t, e)
        <4>1. b \in Range(BatchOf(t, e))
          BY <2>3, <3>3
        <4>2. b = BatchOf(t, e)[1]
          BY <4>1 DEF BatchOf, Range
        <4>3. QED
          BY <3>2, <4>2
      <3>4. CASE batch[t] # <<>> /\ batch'[t] = <<Longer(batch[t][1], e)>>
        <4>1. b \in Range(<<Longer(batch[t][1], e)>>)
          BY <2>3, <3>4
        <4>2. b = Longer(batch[t][1], e)
          BY <4>1 DEF Range
        <4>3. QED
          BY <3>2, <3>4, <4>2
      <3>5. QED
        BY <3>2, <3>3, <3>4 DEF Recorded
    <2>4. QED
      BY <1>1, <2>1, <2>2, <2>3
  <1>6. CASE HistoryMoves
    <2>1. PICK s \in Seq(Batches) : \E n \in 0..Len(s) : GivesUp(s, n)
      BY <1>6, HistoryGivesUp
    <2>2. PICK n \in 0..Len(s) : GivesUp(s, n)
      BY <2>1
    <2>3. b \in Range(history') => b \in OnTheWay
      <3>1. ASSUME b \in Range(history') PROVE b \in OnTheWay
        <4>1. PICK m \in (n + 1)..Len(s) : b = s[m]
          BY <2>2, <3>1, HoldRange DEF GivesUp
        <4>2. m \in DOMAIN s
          BY LenProperties
        <4>3. b \in Range(s)
          BY <4>1, <4>2 DEF Range
        <4>4. QED
          BY <2>2, <4>3 DEF GivesUp
      <3>2. QED
        BY <3>1
    <2>4. ASSUME NEW t \in Threads PROVE rings'[t] \in {rings[t], <<>>} /\ batch'[t] = batch[t]
      BY <1>6, <2>2 DEF GivesUp, HistoryMoves
    <2>5. QED
      BY <1>1, <1>2, <1>4, <2>3, <2>4
  <1>7. CASE Dies
    BY <1>1, <1>2, <1>4, <1>7 DEF Dies
  <1>8. QED
    BY <1>5, <1>6, <1>7, StepMoves

LEMMA NewEvents ==
  ASSUME Types, Rising, Paths, NEW t \in Threads, NEW e \in Events, Recorded(t, e), NEW b,
         b = BatchOf(t, e)[1] \/ (batch[t] # <<>> /\ b = Longer(batch[t][1], e))
  PROVE  /\ b.tid = t /\ EndTicks(b) = clock + 1 /\ b.events \in Seq(Events)
         /\ \A k \in 1..Len(b.events) :
                \/ b.events[k] = e
                \/ /\ batch[t] # <<>> /\ batch[t][1] \in OnTheWay
                   /\ batch[t][1].tid = t /\ b.base = batch[t][1].base
                   /\ k \in 1..Len(batch[t][1].events) /\ b.events[k] = batch[t][1].events[k]
  <1>1. clock \in Nat /\ e.ticks = clock + 1
    BY HistoryAssumption DEF Recorded, Types, TypeOK, ThreadTypes
  <1>2. CASE b = BatchOf(t, e)[1]
    <2>1. b = [tid |-> t, base |-> e.ticks, events |-> <<e>>]
      BY <1>2 DEF BatchOf
    <2>2. b.tid = t /\ b.events = <<e>> /\ Len(<<e>>) = 1 /\ <<e>>[1] = e /\ <<e>> \in Seq(Events)
      BY <2>1
    <2>3. \A k \in 1..Len(b.events) : b.events[k] = e
      BY <2>2
    <2>4. EndTicks(b) = e.ticks
      BY <2>2 DEF EndTicks
    <2>5. QED
      BY <1>1, <2>2, <2>3, <2>4
  <1>3. CASE batch[t] # <<>> /\ b = Longer(batch[t][1], e)
    <2>1. PICK old : old = batch[t][1]
      OBVIOUS
    <2>2. old \in RisingTo(clock)
      BY <1>3, <2>1, BatchInHand
    <2>3. old \in OnTheWay
      BY <1>3, <2>1, WayRange DEF OnTheWay
    <2>4. old.tid = t
      <3>1. 1 \in 1..Len(batch[t])
        BY <1>3, BatchInHand
      <3>2. QED
        BY <2>1, <3>1 DEF Paths, InPath, Own
    <2>5. old \in Batches /\ old.events \in Seq(Events) /\ Len(old.events) \in Nat
      BY <2>2, RisingBatch DEF Batches
    <2>6. b = [old EXCEPT !.events = Append(@, e)]
      BY <1>3, <2>1 DEF Longer
    <2>7. b.tid = old.tid /\ b.base = old.base /\ b.events = Append(old.events, e)
      BY <2>5, <2>6 DEF Batches
    <2>8. /\ Len(b.events) = Len(old.events) + 1 /\ b.events[Len(old.events) + 1] = e
          /\ \A k \in 1..Len(old.events) : b.events[k] = old.events[k]
          /\ b.events \in Seq(Events)
      BY <2>5, <2>7, AppendProperties
    <2>9. EndTicks(b) = e.ticks
      BY <2>8 DEF EndTicks
    <2>10. ASSUME NEW k \in 1..Len(b.events)
           PROVE  \/ b.events[k] = e
                  \/ k \in 1..Len(old.events) /\ b.events[k] = old.events[k]
      BY <2>5, <2>8
    <2>11. QED
      BY <1>1, <1>3, <2>1, <2>3, <2>4, <2>7, <2>8, <2>9, <2>10
  <1>4. QED
    BY <1>2, <1>3

LEMMA RecordedLog ==
  ASSUME Types, NEW t \in Threads, NEW e \in Events, Recorded(t, e)
  PROVE  e \in LogOf(t)' /\ e.ticks = clock + 1 /\ clock' = clock + 1
  BY LogGrows DEF Recorded

LEMMA TailIsBatch ==
  ASSUME Types, Paths, ReadTails, NEW a \in tails'
  PROVE  a.tid \in Threads /\ batch[a.tid] # <<>> /\ a = batch[a.tid][1] /\ a \in OnTheWay
  <1>1. PICK t \in Registered : a = batch[t][1]
    BY DEF ReadTails
  <1>2. t \in Threads /\ batch[t] # <<>>
    BY DEF Registered
  <1>3. Len(batch[t]) = 1
    BY <1>2, OneBatch DEF Types, TypeOK, ThreadTypes
  <1>4. 1 \in 1..Len(batch[t])
    BY <1>3
  <1>5. a.tid = t
    BY <1>1, <1>2, <1>4 DEF Paths, InPath, Own
  <1>6. a \in OnTheWay
    BY <1>1, <1>2, WayRange DEF OnTheWay
  <1>7. QED
    BY <1>1, <1>2, <1>5, <1>6

LEMMA ReadTailsStays ==
  ASSUME ReadTails
  PROVE  OnTheWay' = OnTheWay /\ UNCHANGED <<clock, log, evicted, horizon, job>> /\ pc = "first"
  BY DEF ReadTails, Goes, OnTheWay, ringVars, threadVars

LEMMA LoggedNext ==
  ASSUME Types, Rising, Paths, Logged, [Next]_vars
  PROVE  Logged'
  <1>0. \A b \in OnTheWay \cup tails : b.tid \in Threads
    <2>1. /\ history \in Seq(Batches) /\ tails \subseteq Batches
          /\ \A t \in Threads : rings[t] \in Seq(Batches) /\ batch[t] \in Seq(Batches)
      BY DEF Types, TypeOK, RingTypes, RecorderTypes, QueueTypes, ThreadTypes
    <2>2. OnTheWay \subseteq Batches
      <3>1. Range(history) \subseteq Batches
        BY <2>1, RangeOfSeq
      <3>2. \A t \in Threads : Range(rings[t]) \cup Range(batch[t]) \subseteq Batches
        BY <2>1, RangeOfSeq
      <3>3. QED
        BY <3>1, <3>2 DEF OnTheWay
    <2>3. QED
      BY <2>1, <2>2 DEF Batches
  <1>1. ASSUME NEW b \in OnTheWay \cup tails, NEW k \in 1..Len(b.events)
        PROVE  b.events[k] \in LogOf(b.tid)'
    BY <1>0, LogsGrow DEF Logged
  <1>2. ASSUME NEW b \in OnTheWay', NEW k \in 1..Len(b.events), b \notin OnTheWay
        PROVE  b.events[k] \in LogOf(b.tid)'
    <2>1. PICK t \in Threads : \E e \in Events :
                /\ Recorded(t, e)
                /\ \/ b = BatchOf(t, e)[1]
                   \/ batch[t] # <<>> /\ b = Longer(batch[t][1], e)
      BY <1>2, OnWayMoves
    <2>2. PICK e \in Events :
                /\ Recorded(t, e)
                /\ \/ b = BatchOf(t, e)[1]
                   \/ batch[t] # <<>> /\ b = Longer(batch[t][1], e)
      BY <2>1
    <2>3. e \in LogOf(t)'
      BY <2>2, RecordedLog
    <2>4. b.tid = t
      BY <2>2, NewEvents
    <2>5. \/ b.events[k] = e
          \/ /\ batch[t][1] \in OnTheWay /\ batch[t][1].tid = t
             /\ k \in 1..Len(batch[t][1].events) /\ b.events[k] = batch[t][1].events[k]
      BY <2>2, NewEvents
    <2>6. QED
      BY <1>1, <2>3, <2>4, <2>5
  <1>3. tails' \subseteq tails \cup OnTheWay
    BY TailsChange, TailIsBatch
  <1>4. QED
    BY <1>1, <1>2, <1>3 DEF Logged

LEMMA OnWayRises ==
  ASSUME Types, Rising, NEW b \in OnTheWay \cup tails
  PROVE  b \in RisingTo(clock) /\ b.tid \in Threads
  <1>1. /\ history \in Seq(RisingTo(clock)) /\ tails \subseteq RisingTo(clock)
        /\ \A t \in Threads : rings[t] \in Seq(RisingTo(clock)) /\ batch[t] \in Seq(RisingTo(clock))
    BY DEF Rising
  <1>2. OnTheWay \subseteq RisingTo(clock)
    <2>1. Range(history) \subseteq RisingTo(clock)
      BY <1>1, RangeOfSeq
    <2>2. \A t \in Threads : Range(rings[t]) \cup Range(batch[t]) \subseteq RisingTo(clock)
      BY <1>1, RangeOfSeq
    <2>3. QED
      BY <2>1, <2>2 DEF OnTheWay
  <1>3. b \in RisingTo(clock)
    BY <1>1, <1>2
  <1>4. b \in Batches
    BY <1>3, RisingBatch
  <1>5. QED
    BY <1>3, <1>4 DEF Batches

LEMMA EvictedFirstNext ==
  ASSUME Types, Rising, Paths, OneTick, Logged, EvictedFirst, [Next]_vars
  PROVE  EvictedFirst'
  <1>1. clock \in Nat /\ clock' \in {clock, clock + 1} /\ evicted \subseteq Nat
    BY ClockGoesOn DEF Types, TypeOK, RingTypes
  <1>2. CASE ThreadsMove
    <2>1. evicted' = evicted /\ horizon' = horizon
      BY <1>2 DEF ThreadsMove
    <2>2. \A x \in evicted' : x <= clock /\ x <= clock' /\ x < clock + 1
      BY <1>1, <2>1 DEF EvictedFirst
    <2>3. ASSUME NEW b \in OnTheWay, NEW k \in 1..Len(b.events), NEW x \in LogOf(b.tid)', x.ticks \in evicted'
          PROVE  x.ticks < b.events[k].ticks
      <3>1. b.tid \in Threads
        BY OnWayRises
      <3>2. x \in LogOf(b.tid)
        <4>1. PICK t \in Threads : t = b.tid
          BY <3>1
        <4>2. x \in LogOf(t) \/ x.ticks = clock + 1
          BY <2>3, <4>1, LogsGrow
        <4>3. x.ticks # clock + 1
          BY <1>1, <2>2, <2>3
        <4>4. QED
          BY <4>1, <4>2, <4>3
      <3>3. QED
        BY <2>1, <2>3, <3>2 DEF EvictedFirst
    <2>4. ASSUME NEW b \in OnTheWay', b \notin OnTheWay, NEW k \in 1..Len(b.events),
                 NEW x \in LogOf(b.tid)', x.ticks \in evicted'
          PROVE  x.ticks < b.events[k].ticks
      <3>1. PICK t \in Threads : \E e \in Events :
                /\ Recorded(t, e)
                /\ \/ b = BatchOf(t, e)[1]
                   \/ batch[t] # <<>> /\ b = Longer(batch[t][1], e)
        BY <2>4, OnWayMoves
      <3>2. PICK e \in Events :
                /\ Recorded(t, e)
                /\ \/ b = BatchOf(t, e)[1]
                   \/ batch[t] # <<>> /\ b = Longer(batch[t][1], e)
        BY <3>1
      <3>3. b.tid = t
        BY <3>2, NewEvents
      <3>4. CASE b.events[k] = e
        BY <2>2, <2>4, <3>2, <3>4, RecordedLog
      <3>5. CASE /\ batch[t][1] \in OnTheWay /\ batch[t][1].tid = t
                 /\ k \in 1..Len(batch[t][1].events) /\ b.events[k] = batch[t][1].events[k]
        BY <2>3, <2>4, <3>3, <3>5
      <3>6. QED
        BY <3>2, <3>4, <3>5, NewEvents
    <2>5. \A x \in evicted' : x <= clock'
      BY <2>2
    <2>6. horizon' \in evicted' \cup {0}
      BY <2>1 DEF EvictedFirst
    <2>7. QED
      BY <2>3, <2>4, <2>5, <2>6 DEF EvictedFirst
  <1>3. CASE HistoryMoves
    <2>1. PICK s \in Seq(Batches) : \E n \in 0..Len(s) : GivesUp(s, n)
      BY <1>3, HistoryGivesUp
    <2>2. PICK n \in 0..Len(s) : GivesUp(s, n)
      BY <2>1
    <2>3. clock' = clock /\ \A t \in Threads : LogOf(t)' = LogOf(t) /\ batch'[t] = batch[t]
      BY <1>3 DEF HistoryMoves, LogOf
    <2>4. Len(s) \in Nat /\ DOMAIN s = 1..Len(s) /\ 1..n \subseteq 1..Len(s)
      BY LenProperties
    <2>5. ASSUME NEW i \in 1..n
          PROVE  /\ s[i] \in OnTheWay /\ s[i] \in RisingTo(clock) /\ s[i].tid \in Threads
                 /\ DOMAIN s[i].events = 1..Len(s[i].events) /\ Len(s[i].events) \in 1..Len(s[i].events)
      <3>1. s[i] \in Range(s)
        BY <2>4 DEF Range
      <3>2. s[i] \in OnTheWay
        BY <2>2, <3>1 DEF GivesUp
      <3>3. s[i] \in RisingTo(clock) /\ s[i].tid \in Threads
        BY <3>2, OnWayRises
      <3>4. Len(s[i].events) \in Nat \ {0} /\ s[i].events \in Seq(Events)
        BY <3>3, RisingBatch
      <3>5. QED
        BY <3>2, <3>3, <3>4, LenProperties
    \* What stays of a thread is later than what goes of it.
    <2>6. ASSUME NEW i \in 1..n, NEW b \in OnTheWay', b.tid = s[i].tid PROVE Later(s[i], b)
      <3>1. PICK u \in Threads : u = s[i].tid
        BY <2>5
      <3>2. InPath(u, s, rings'[u], batch'[u])
        BY <2>2 DEF GivesUp
      <3>3. CASE b \in Range(history')
        <4>1. PICK m \in (n + 1)..Len(s) : b = s[m]
          BY <2>2, <3>3, HoldRange DEF GivesUp
        <4>2. m \in 1..Len(s) /\ i \in 1..Len(s) /\ i < m
          BY <2>4
        <4>3. QED
          BY <2>6, <3>1, <3>2, <4>1, <4>2 DEF InPath, Successive
      <3>4. ASSUME NEW v \in Threads, b \in Range(rings'[v]) PROVE Later(s[i], b)
        <4>1. rings'[v] \in Seq(Batches)
          <5>1. rings[v] \in Seq(Batches) /\ <<>> \in Seq(Batches)
            BY EmptySeq DEF Types, TypeOK, QueueTypes
          <5>2. QED
            BY <2>2, <5>1 DEF GivesUp
        <4>2. PICK j \in 1..Len(rings'[v]) : b = rings'[v][j]
          BY <3>4, <4>1, LenProperties DEF Range
        <4>3. Own(v, rings'[v])
          BY <2>2 DEF GivesUp, InPath
        <4>4. v = u
          BY <2>6, <3>1, <4>2, <4>3 DEF Own
        <4>5. i \in 1..Len(s)
          BY <2>4
        <4>6. QED
          BY <2>6, <3>1, <3>2, <4>2, <4>4, <4>5 DEF InPath, OneAfter
      <3>5. ASSUME NEW v \in Threads, b \in Range(batch'[v]) PROVE Later(s[i], b)
        <4>1. batch'[v] \in Seq(Batches)
          BY <2>3 DEF Types, TypeOK, ThreadTypes
        <4>2. PICK j \in 1..Len(batch'[v]) : b = batch'[v][j]
          BY <3>5, <4>1, LenProperties DEF Range
        <4>3. Own(v, batch'[v])
          BY <2>2 DEF GivesUp, InPath
        <4>4. v = u
          BY <2>6, <3>1, <4>2, <4>3 DEF Own
        <4>5. i \in 1..Len(s)
          BY <2>4
        <4>6. QED
          BY <2>6, <3>1, <3>2, <4>2, <4>4, <4>5 DEF InPath, OneAfter
      <3>6. QED
        BY <3>3, <3>4, <3>5 DEF OnTheWay
    <2>7. ASSUME NEW b \in OnTheWay' PROVE b \in OnTheWay
      <3>1. \A t \in Threads : \A e \in Events : ~Recorded(t, e)
        BY <1>1, <2>3 DEF Recorded
      <3>2. QED
        BY <3>1, OnWayMoves
    <2>8. ASSUME NEW b \in OnTheWay', NEW k \in 1..Len(b.events), NEW x \in LogOf(b.tid), x.ticks \in evicted'
          PROVE  x.ticks < b.events[k].ticks
      <3>1. CASE x.ticks \in evicted
        BY <2>7, <2>8, <3>1 DEF EvictedFirst
      <3>2. CASE x.ticks \notin evicted
        <4>1. PICK i \in 1..n : x.ticks \in TicksOf(s[i].events)
          BY <2>2, <2>8, <3>2 DEF GivesUp
        <4>2. PICK l \in 1..Len(s[i].events) : x.ticks = s[i].events[l].ticks
          BY <2>5, <4>1 DEF TicksOf
        <4>3. s[i].events[l] \in LogOf(s[i].tid) /\ s[i].tid \in Threads
          BY <2>5 DEF Logged
        <4>4. b.tid \in Threads
          BY <2>7, OnWayRises
        <4>5. s[i].tid = b.tid
          BY <4>2, <4>3, <4>4 DEF OneTick
        <4>6. Later(s[i], b)
          BY <2>6, <4>5
        <4>7. QED
          BY <4>2, <4>6 DEF Later
      <3>3. QED
        BY <3>1, <3>2
    <2>9. ASSUME NEW x \in evicted' PROVE x <= clock'
      <3>1. CASE x \in evicted
        BY <2>3, <3>1 DEF EvictedFirst
      <3>2. CASE x \notin evicted
        <4>1. PICK i \in 1..n : x \in TicksOf(s[i].events)
          BY <2>2, <2>9, <3>2 DEF GivesUp
        <4>2. PICK l \in 1..Len(s[i].events) : x = s[i].events[l].ticks
          BY <2>5, <4>1 DEF TicksOf
        <4>3. QED
          BY <1>1, <2>3, <2>5, <4>2, TicksBelow
      <3>3. QED
        BY <3>1, <3>2
    <2>10. horizon' \in evicted' \cup {0}
      <3>1. CASE n = 0
        BY <2>2, <3>1 DEF GivesUp, EvictedFirst
      <3>2. CASE n # 0
        <4>1. n \in 1..n
          BY <3>2
        <4>2. EndTicks(s[n]) \in TicksOf(s[n].events)
          BY <2>5, <4>1 DEF EndTicks, TicksOf
        <4>3. QED
          BY <2>2, <3>2, <4>1, <4>2 DEF GivesUp
      <3>3. QED
        BY <3>1, <3>2
    <2>11. QED
      BY <2>3, <2>7, <2>8, <2>9, <2>10, OnWayRises DEF EvictedFirst
  <1>4. CASE Dies
    <2>1. UNCHANGED <<evicted, horizon, clock>> /\ \A t \in Threads : LogOf(t)' = LogOf(t)
      BY <1>4 DEF Dies, LogOf
    <2>2. ASSUME NEW b \in OnTheWay' PROVE b \in OnTheWay /\ b.tid \in Threads
      <3>1. \A t \in Threads : \A e \in Events : ~Recorded(t, e)
        BY <1>1, <2>1 DEF Recorded
      <3>2. b \in OnTheWay
        BY <3>1, OnWayMoves
      <3>3. QED
        BY <3>2, OnWayRises
    <2>3. QED
      BY <2>1, <2>2 DEF EvictedFirst
  <1>5. QED
    BY <1>2, <1>3, <1>4, StepMoves

LEMMA TailsBeginNext ==
  ASSUME Types, Rising, Paths, OneTick, Logged, TailsBegin, [Next]_vars
  PROVE  TailsBegin'
  <1>1. clock \in Nat
    BY ClockGoesOn
  <1>2. CASE ReadTails
    <2> SUFFICES ASSUME NEW a \in tails', NEW b \in OnTheWay, NEW k \in 1..Len(a.events),
                        a.events[k].ticks \in TicksOf(b.events)
                 PROVE  a = b
      <3>1. \A b \in OnTheWay : EndTicks(b) <= EndTicks(b)
        <4> SUFFICES ASSUME NEW b \in OnTheWay PROVE EndTicks(b) <= EndTicks(b)
          OBVIOUS
        <4>1. b \in Batches
          BY OnWayRises, RisingBatch
        <4>2. EndTicks(b) \in Int
          BY <4>1, BatchEnds
        <4>3. QED
          BY <4>2
      <3>2. QED
        BY <1>2, <3>1, ReadTailsStays DEF TailsBegin
    <2>1. PICK t \in Threads : t = a.tid /\ batch[t] # <<>> /\ a = batch[t][1] /\ a \in OnTheWay
      BY <1>2, TailIsBatch
    <2>2. b \in RisingTo(clock) /\ b.tid \in Threads
      BY OnWayRises
    <2>3. DOMAIN b.events = 1..Len(b.events)
      BY <2>2, RisingBatch, LenProperties
    <2>4. PICK l \in 1..Len(b.events) : a.events[k].ticks = b.events[l].ticks
      BY <2>3 DEF TicksOf
    <2>5. a.events[k] \in LogOf(a.tid) /\ b.events[l] \in LogOf(b.tid)
      BY <2>1 DEF Logged
    <2>6. b.tid = t
      BY <2>1, <2>2, <2>4, <2>5 DEF OneTick
    <2>7. a.events[k].ticks \in Nat
      BY <2>1, OnWayRises, RisingBatch
    <2>8. ~Later(b, a)
      BY <2>4, <2>7 DEF Later
    <2>9. 1 \in 1..Len(batch[t])
      BY <2>1, BatchInHand
    <2>10. history \in Seq(Batches) /\ \A u \in Threads : rings[u] \in Seq(Batches)
      BY DEF Types, TypeOK, RingTypes, QueueTypes
    <2>11. b \notin Range(history)
      <3>1. \A i \in 1..Len(history) : history[i].tid = t => Later(history[i], a)
        BY <2>1, <2>9 DEF Paths, InPath, OneAfter
      <3>2. QED
        BY <2>6, <2>8, <2>10, <3>1, LenProperties DEF Range
    <2>12. ASSUME NEW u \in Threads, b \in Range(rings[u]) PROVE FALSE
      <3>1. PICK i \in 1..Len(rings[u]) : b = rings[u][i]
        BY <2>10, <2>12, LenProperties DEF Range
      <3>2. u = t
        BY <2>6, <3>1 DEF Paths, InPath, Own
      <3>3. Later(b, a)
        BY <2>1, <2>6, <2>9, <3>1, <3>2 DEF Paths, InPath, OneAfter
      <3>4. QED
        BY <2>8, <3>3
    <2>13. PICK u \in Threads : b \in Range(batch[u])
      BY <2>11, <2>12 DEF OnTheWay
    <2>14. batch[u] # <<>> /\ b = batch[u][1]
      BY <2>13, WayRange
    <2>15. b.tid = u
      <3>1. 1 \in 1..Len(batch[u])
        BY <2>14, BatchInHand
      <3>2. QED
        BY <2>14, <3>1 DEF Paths, InPath, Own
    <2>16. QED
      BY <2>1, <2>6, <2>14, <2>15
  <1>3. CASE tails' = tails \/ tails' = {}
    <2> SUFFICES ASSUME NEW a \in tails, NEW b \in OnTheWay', NEW k \in 1..Len(a.events),
                        a.events[k].ticks \in TicksOf(b.events)
                 PROVE  a.tid = b.tid /\ a.base = b.base /\ EndTicks(a) <= EndTicks(b)
      BY <1>3 DEF TailsBegin
    <2>1. CASE b \in OnTheWay
      BY <2>1 DEF TailsBegin
    <2>2. CASE b \notin OnTheWay
      <3>1. PICK t \in Threads : \E e \in Events :
                /\ Recorded(t, e)
                /\ \/ b = BatchOf(t, e)[1]
                   \/ batch[t] # <<>> /\ b = Longer(batch[t][1], e)
        BY <2>2, OnWayMoves
      <3>2. PICK e \in Events :
                /\ Recorded(t, e)
                /\ \/ b = BatchOf(t, e)[1]
                   \/ batch[t] # <<>> /\ b = Longer(batch[t][1], e)
        BY <3>1
      <3>3. b.tid = t /\ EndTicks(b) = clock + 1 /\ DOMAIN b.events = 1..Len(b.events)
        BY <3>2, NewEvents, LenProperties
      <3>4. a \in RisingTo(clock)
        BY OnWayRises
      <3>5. a.events[k].ticks <= clock /\ a.events[k].ticks \in Nat /\ a \in Batches
        BY <1>1, <3>4, TicksBelow, RisingBatch
      <3>6. EndTicks(a) \in Nat /\ EndTicks(a) <= clock
        BY <3>4, <3>5, BatchEnds DEF RisingTo
      <3>7. PICK l \in 1..Len(b.events) : a.events[k].ticks = b.events[l].ticks
        BY <3>3 DEF TicksOf
      <3>8. b.events[l] # e
        BY <1>1, <3>2, <3>5, <3>7 DEF Recorded
      <3>9. PICK old : old = batch[t][1]
        OBVIOUS
      <3>10. /\ old \in OnTheWay /\ old.tid = t /\ b.base = old.base
             /\ l \in 1..Len(old.events) /\ b.events[l] = old.events[l]
        BY <3>2, <3>8, <3>9, NewEvents
      <3>11. DOMAIN old.events = 1..Len(old.events)
        <4>1. old \in RisingTo(clock)
          BY <3>10, OnWayRises
        <4>2. QED
          BY <4>1, RisingBatch, LenProperties
      <3>12. a.events[k].ticks \in TicksOf(old.events)
        BY <3>7, <3>10, <3>11 DEF TicksOf
      <3>13. a.tid = old.tid /\ a.base = old.base
        BY <3>10, <3>12 DEF TailsBegin
      <3>14. QED
        BY <1>1, <3>3, <3>6, <3>10, <3>13
    <2>3. QED
      BY <2>1, <2>2
  <1>4. QED
    BY <1>2, <1>3, TailsChange

LEMMA HorizonEndsNext ==
  ASSUME Types, Rising, Paths, EvictedFirst, Logged, TailsBegin, HorizonEnds, [Next]_vars
  PROVE  HorizonEnds'
  <1>1. CASE ReadTails
    <2> SUFFICES ASSUME NEW b \in tails', NEW k \in 1..Len(b.events) PROVE b.events[k].ticks # horizon
      BY <1>1, ReadTailsStays DEF HorizonEnds
    <2>1. b \in OnTheWay
      BY <1>1, TailIsBatch
    <2>2. b \in RisingTo(clock) /\ b.events[k] \in LogOf(b.tid)
      BY <2>1, OnWayRises DEF Logged
    <2>3. b.events[k] \in Events /\ b.events[k].ticks \in Nat
      BY <2>2, RisingBatch
    <2>4. b.events[k].ticks \notin evicted
      BY <2>1, <2>2, <2>3 DEF EvictedFirst
    <2>5. b.events[k].ticks # 0
      BY <2>3 DEF Events
    <2>6. QED
      BY <2>4, <2>5 DEF EvictedFirst
  <1>2. CASE (tails' = tails \/ tails' = {}) /\ horizon' = horizon
    BY <1>2 DEF HorizonEnds
  <1>3. CASE (tails' = tails \/ tails' = {}) /\ HistoryMoves
    <2>1. PICK s \in Seq(Batches) : \E n \in 0..Len(s) : GivesUp(s, n)
      BY <1>3, HistoryGivesUp
    <2>2. PICK n \in 0..Len(s) : GivesUp(s, n)
      BY <2>1
    <2>3. CASE n = 0
      BY <1>3, <2>2, <2>3 DEF GivesUp, HorizonEnds
    <2>4. CASE n # 0
      <3>1. n \in 1..Len(s) /\ n \in DOMAIN s
        BY <2>4, LenProperties
      <3>2. PICK b : b = s[n]
        OBVIOUS
      <3>3. b \in Range(s)
        BY <3>1, <3>2 DEF Range
      <3>4. b \in OnTheWay /\ horizon' = EndTicks(b)
        BY <2>2, <2>4, <3>2, <3>3 DEF GivesUp
      <3>5. b \in RisingTo(clock)
        BY <3>4, OnWayRises
      <3>6. Len(b.events) \in DOMAIN b.events
        BY <3>5, RisingBatch, LenProperties
      <3>7. EndTicks(b) \in TicksOf(b.events)
        BY <3>6 DEF EndTicks, TicksOf
      <3>8. ASSUME NEW a \in tails, NEW k \in 1..Len(a.events), a.events[k].ticks = EndTicks(b)
            PROVE  k = Len(a.events)
        <4>1. EndTicks(a) <= EndTicks(b)
          BY <3>4, <3>7, <3>8 DEF TailsBegin
        <4>2. a \in RisingTo(clock)
          BY OnWayRises
        <4>3. /\ Len(a.events) \in Nat \ {0} /\ a.events[k].ticks \in Nat
              /\ \A i, j \in 1..Len(a.events) : i < j => a.events[i].ticks < a.events[j].ticks
          BY <4>2, RisingBatch
        <4>4. Len(a.events) \in 1..Len(a.events) /\ a.events[Len(a.events)].ticks \in Nat
          BY <4>2, <4>3, RisingBatch
        <4>5. ~(a.events[k].ticks < a.events[Len(a.events)].ticks)
          BY <3>8, <4>1, <4>3, <4>4 DEF EndTicks
        <4>6. ~(k < Len(a.events))
          BY <4>3, <4>4, <4>5
        <4>7. QED
          BY <4>3, <4>6
      <3>9. QED
        BY <1>3, <3>4, <3>8 DEF HorizonEnds
    <2>5. QED
      BY <2>3, <2>4
  <1>4. QED
    BY <1>1, <1>2, <1>3, StepMoves, TailsChange DEF ThreadsMove, Dies

LEMMA LastInBatchNext ==
  ASSUME Types, Rising, Paths, OneTick, LastInBatch, [Next]_vars
  PROVE  LastInBatch'
  <1>1. clock \in Nat
    BY ClockGoesOn
  <1>2. ASSUME NEW t \in Threads, batch'[t] = batch[t], LogOf(t)' = LogOf(t), batch'[t] # <<>>,
               NEW x \in LogOf(t)'
        PROVE  x.ticks <= EndTicks(batch'[t][1])
    BY <1>2 DEF LastInBatch
  <1>3. CASE HistoryMoves \/ Dies
    <2>1. \A t \in Threads : batch'[t] = batch[t] /\ LogOf(t)' = LogOf(t)
      BY <1>3 DEF HistoryMoves, Dies, LogOf
    <2>2. QED
      BY <1>2, <2>1 DEF LastInBatch
  <1>4. CASE ThreadsMove
    <2> SUFFICES ASSUME NEW t \in Threads, batch'[t] # <<>>, NEW x \in LogOf(t)'
                 PROVE  x.ticks <= EndTicks(batch'[t][1])
      BY DEF LastInBatch
    <2>1. CASE Stays(t)
      <3>1. batch'[t] = batch[t] /\ LogOf(t)' = LogOf(t)
        BY <2>1 DEF Stays, LogOf
      <3>2. QED
        BY <1>2, <3>1
    <2>2. CASE Shipped(t)
      BY <2>2 DEF Shipped
    <2>3. ASSUME NEW e \in Events, Recorded(t, e) PROVE x.ticks <= EndTicks(batch'[t][1])
      <3>1. PICK b : b = batch'[t][1]
        OBVIOUS
      <3>2. b = BatchOf(t, e)[1] \/ (batch[t] # <<>> /\ b = Longer(batch[t][1], e))
        BY <2>3, <3>1 DEF Recorded
      <3>3. EndTicks(b) = clock + 1
        BY <2>3, <3>2, NewEvents
      <3>4. LogOf(t)' = LogOf(t) \cup {e} /\ e.ticks = clock + 1
        BY <2>3, LogGrows DEF Recorded
      <3>5. x \in LogOf(t) => x.ticks \in Nat /\ x.ticks <= clock
        BY LogTypes DEF OneTick
      <3>6. x.ticks <= clock + 1
        BY <1>1, <3>4, <3>5
      <3>7. QED
        BY <3>1, <3>3, <3>6
    <2>4. QED
      BY <1>4, <2>1, <2>2, <2>3 DEF ThreadsMove
  <1>5. QED
    BY <1>3, <1>4, StepMoves

LEMMA NoneBehindNext ==
  ASSUME Types, Rising, Paths, OneTick, EndsPast, LastInBatch, NoneBehind, [Next]_vars
  PROVE  NoneBehind'
  <1>1. clock \in Nat
    BY ClockGoesOn
  <1> SUFFICES ASSUME pc' = "again", NEW b \in tails', NEW x \in LogOf(b.tid)', x.ticks <= job'[1].end
               PROVE  x.ticks <= EndTicks(b)
    BY DEF NoneBehind
  <1>2. CASE ReadTails
    <2>1. b.tid \in Threads /\ batch[b.tid] # <<>> /\ b = batch[b.tid][1]
      BY <1>2, TailIsBatch
    <2>2. LogOf(b.tid)' = LogOf(b.tid)
      BY <1>2, ReadTailsStays DEF LogOf
    <2>3. QED
      BY <2>1, <2>2 DEF LastInBatch
  <1>3. CASE pc = "again" /\ tails' = tails /\ job' = job
    <2>1. PICK t \in Threads : t = b.tid
      BY <1>3, OnWayRises
    <2>2. job[1].end <= clock /\ job[1].end \in Nat
      <3>1. job[1] \in Messages /\ job[1].type \in {"dump", "dumpall"}
        BY <1>3, JobIsMessage DEF Types, TypeOK
      <3>2. job[1] \in InHand
        <4>1. job \in Seq(Messages) /\ Len(job) = 1
          BY <1>3 DEF Types, TypeOK, RecorderTypes, JobInHand
        <4>2. QED
          BY <4>1, OneJob DEF InHand
      <3>3. QED
        BY <3>1, <3>2, InHandMessages DEF EndsPast, Types, TypeOK
    <2>3. x.ticks # clock + 1
      BY <1>1, <1>3, <2>2
    <2>4. x \in LogOf(t)
      BY <2>1, <2>3, LogsGrow
    <2>5. QED
      BY <1>3, <2>1, <2>4 DEF NoneBehind
  <1>4. QED
    BY <1>2, <1>3, AgainNext

\* Sorting puts everything once in its place.
AtHorizon(c) == [ticks |-> horizon, opens |-> TRUE, frame |-> c.frame]

\* What the replay of the first n events may show.
Sourced(stream, n, first, last, x) ==
    \E p \in 1..n :
        \/ x = stream[p] /\ (x.opens \/ (first <= x.ticks /\ x.ticks <= last))
        \/ ~stream[p].opens /\ stream[p].ticks <= last /\ x = AtHorizon(stream[p])

OpenIn(stream, n, x) == \E p \in 1..n : x = stream[p] /\ x.opens

\* Streams in which each event stands once, each frame closes once, and no open
\* stands that would be made up.
Plain(stream, last) ==
    /\ Apart(stream)
    /\ \A p, q \in 1..Len(stream) :
           ~stream[p].opens /\ ~stream[q].opens /\ stream[p].frame = stream[q].frame => p = q
    /\ \A p, q \in 1..Len(stream) :
           ~stream[p].opens /\ stream[p].ticks <= last => stream[q] # AtHorizon(stream[p])

ReplayedFrom(stream, n, first, last, acc) ==
    /\ acc \in Replayed
    /\ Apart(acc.open) /\ \A i \in 1..Len(acc.open) : OpenIn(stream, n, acc.open[i])
    /\ Apart(acc.out) /\ \A i \in 1..Len(acc.out) : Sourced(stream, n, first, last, acc.out[i])

LEMMA LastOff ==
  ASSUME NEW open \in Seq(Shown), open # <<>>
  PROVE  /\ Len(open) \in Nat \ {0}
         /\ Len(Front(open)) = Len(open) - 1
         /\ \A i \in 1..Len(Front(open)) : i \in 1..Len(open) /\ i < Len(open) /\ Front(open)[i] = open[i]
  <1>1. Len(open) \in Nat \ {0}
    BY EmptySeq, LenProperties
  <1>2. PICK new : new = Front(open)
    OBVIOUS
  <1>3. new = SubSeq(open, 1, Len(open) - 1)
    BY <1>2 DEF Front
  <1>4. \A i \in 1..(Len(open) - 1) : open[i] \in Shown
    BY <1>1, ElementOfSeq
  <1>5. Len(new) = IF 1 <= Len(open) - 1 THEN (Len(open) - 1) - 1 + 1 ELSE 0
    BY <1>1, <1>3, <1>4, SubSeqProperties
  <1>6. \A i \in 1..((Len(open) - 1) - 1 + 1) : new[i] = open[1 + i - 1]
    BY <1>1, <1>3, <1>4, SubSeqProperties
  <1>7. Len(new) = Len(open) - 1
    <2>1. \A l \in Nat \ {0} : (IF 1 <= l - 1 THEN (l - 1) - 1 + 1 ELSE 0) = l - 1
      OBVIOUS
    <2>2. QED
      BY <1>1, <1>5, <2>1
  <1>8. ASSUME NEW i \in 1..Len(new) PROVE i \in 1..Len(open) /\ i < Len(open) /\ new[i] = open[i]
    <2>1. i \in 1..((Len(open) - 1) - 1 + 1) /\ 1 + i - 1 = i /\ i \in 1..Len(open) /\ i < Len(open)
      BY <1>1, <1>7
    <2>2. QED
      BY <1>6, <2>1
  <1>9. QED
    BY <1>1, <1>2, <1>7, <1>8

LEMMA AfterFrom ==
  ASSUME NEW stream \in Seq(Events), Apart(stream), NEW n \in 1..Len(stream),
         NEW open \in Seq(Shown), Apart(open), \A i \in 1..Len(open) : OpenIn(stream, n - 1, open[i])
  PROVE  /\ Apart(After(open, stream[n]))
         /\ \A i \in 1..Len(After(open, stream[n])) : OpenIn(stream, n, After(open, stream[n])[i])
  <1>1. PICK e, new : e = stream[n] /\ new = After(open, e)
    OBVIOUS
  <1>2. Len(stream) \in Nat /\ Len(open) \in Nat /\ 1..(n - 1) \subseteq 1..n /\ n \in 1..n
    BY LenProperties
  <1>3. ASSUME NEW i \in 1..Len(open) PROVE OpenIn(stream, n, open[i]) /\ open[i] # e
    <2>1. PICK p \in 1..(n - 1) : open[i] = stream[p] /\ open[i].opens
      BY DEF OpenIn
    <2>2. p \in 1..n /\ p \in 1..Len(stream) /\ p # n
      BY <1>2
    <2>3. QED
      BY <1>1, <2>1, <2>2 DEF OpenIn, Apart
  <1>4. CASE e.opens
    <2>1. new = Append(open, e) /\ e \in Shown
      BY <1>1, <1>4, ElementOfSeq, EventsAreShown DEF After
    <2>2. /\ Len(new) = Len(open) + 1 /\ new[Len(open) + 1] = e
          /\ \A i \in 1..Len(open) : new[i] = open[i]
      BY <2>1, AppendProperties
    <2>3. \A i \in 1..Len(new) : (i \in 1..Len(open) /\ new[i] = open[i]) \/ (i = Len(open) + 1 /\ new[i] = e)
      BY <1>2, <2>2
    <2>4. Apart(new)
      BY <1>3, <2>3 DEF Apart
    <2>5. OpenIn(stream, n, e)
      BY <1>1, <1>2, <1>4 DEF OpenIn
    <2>6. QED
      BY <1>1, <1>3, <2>3, <2>4, <2>5
  <1>5. CASE ~e.opens /\ open = <<>>
    BY <1>1, <1>3, <1>5 DEF After
  <1>6. CASE ~e.opens /\ open # <<>>
    <2>1. \A i \in 1..Len(new) : i \in 1..Len(open) /\ new[i] = open[i]
      BY <1>1, <1>6, LastOff DEF After
    <2>2. Apart(new)
      BY <2>1 DEF Apart
    <2>3. QED
      BY <1>1, <1>3, <2>1, <2>2
  <1>7. QED
    BY <1>4, <1>5, <1>6

LEMMA ReplayOneFrom ==
  ASSUME NEW stream \in Seq(Events), NEW first \in Int, NEW last \in Int, horizon \in 0..MaxTicks,
         Plain(stream, last), NEW n \in 1..Len(stream), NEW acc, ReplayedFrom(stream, n - 1, first, last, acc)
  PROVE  ReplayedFrom(stream, n, first, last, ReplayOne(first, last, acc, stream[n]))
  <1>1. PICK e \in Events : e = stream[n]
    BY ElementOfSeq
  <1>2. PICK next : next = ReplayOne(first, last, acc, e)
    OBVIOUS
  <1>3. PICK shown, made : /\ shown = (IF acc.begun THEN acc.out ELSE acc.open)
                           /\ made = MadeUp(acc.open, e)
    OBVIOUS
  <1>4. PICK added : added = shown \o made \o <<e>>
    OBVIOUS
  <1>5. Len(stream) \in Nat /\ 1..(n - 1) \subseteq 1..n /\ n \in 1..n /\ e.ticks \in Int
    BY LenProperties, HistoryAssumption DEF Events
  <1>6. acc \in Replayed /\ next \in Replayed /\ acc.open \in Seq(Shown) /\ shown \in Seq(Shown)
    BY <1>2, <1>3, ReplayOneTypes DEF ReplayedFrom, Replayed
  <1>7. made \in Seq(Shown) /\ <<e>> \in Seq(Shown)
    BY <1>3, <1>6, AfterTypes
  <1>8. Apart(After(acc.open, e)) /\ \A i \in 1..Len(After(acc.open, e)) : OpenIn(stream, n, After(acc.open, e)[i])
    BY <1>1, <1>6, AfterFrom DEF ReplayedFrom, Plain
  <1>9. Apart(shown) /\ \A i \in 1..Len(shown) : Sourced(stream, n - 1, first, last, shown[i])
    <2>1. CASE acc.begun
      BY <1>3, <2>1 DEF ReplayedFrom
    <2>2. CASE ~acc.begun
      <3>1. shown = acc.open /\ Apart(shown) /\ \A i \in 1..Len(shown) : OpenIn(stream, n - 1, shown[i])
        BY <1>3, <2>2 DEF ReplayedFrom
      <3>2. \A x : OpenIn(stream, n - 1, x) => Sourced(stream, n - 1, first, last, x)
        BY DEF OpenIn, Sourced
      <3>3. QED
        BY <3>1, <3>2
    <2>3. QED
      BY <2>1, <2>2
  <1>10. ASSUME NEW x, Sourced(stream, n - 1, first, last, x) PROVE Sourced(stream, n, first, last, x)
    BY <1>5, <1>10 DEF Sourced
  <1>11. ASSUME NEW x, OpenIn(stream, n - 1, x) PROVE OpenIn(stream, n, x)
    BY <1>5, <1>11 DEF OpenIn
  <1>12. \A i \in 1..Len(acc.open) : OpenIn(stream, n, acc.open[i])
    BY <1>11 DEF ReplayedFrom
  <1>13. next = IF e.ticks < first THEN [acc EXCEPT !.open = After(acc.open, e)]
               ELSE IF acc.over \/ e.ticks > last
                    THEN [acc EXCEPT !.out = shown, !.begun = TRUE, !.over = TRUE]
                    ELSE [acc EXCEPT !.out = added, !.open = After(acc.open, e), !.begun = TRUE]
    BY <1>2, <1>3, <1>4 DEF ReplayOne
  <1>14. CASE e.ticks < first
    <2>1. next.open = After(acc.open, e) /\ next.out = acc.out
      BY <1>6, <1>13, <1>14 DEF Replayed
    <2>2. Apart(acc.out) /\ \A i \in 1..Len(acc.out) : Sourced(stream, n, first, last, acc.out[i])
      BY <1>10 DEF ReplayedFrom
    <2>3. QED
      BY <1>1, <1>2, <1>6, <1>8, <2>1, <2>2 DEF ReplayedFrom
  <1>15. CASE ~(e.ticks < first) /\ (acc.over \/ e.ticks > last)
    <2>1. next.open = acc.open /\ next.out = shown
      BY <1>6, <1>13, <1>15 DEF Replayed
    <2>2. Apart(acc.open)
      BY DEF ReplayedFrom
    <2>3. QED
      BY <1>1, <1>2, <1>6, <1>9, <1>10, <1>12, <2>1, <2>2 DEF ReplayedFrom
  <1>16. CASE ~(e.ticks < first) /\ ~(acc.over \/ e.ticks > last)
    <2>1. next.open = After(acc.open, e) /\ next.out = added
      BY <1>6, <1>13, <1>16 DEF Replayed
    <2>2. first <= e.ticks /\ e.ticks <= last
      BY <1>5, <1>16
    <2>3. Sourced(stream, n, first, last, e)
      BY <1>1, <1>5, <2>2 DEF Sourced
    \* What is made up is not there yet.
    <2>4. \A i \in 1..Len(made) : ~e.opens /\ made[i] = AtHorizon(e) /\ Len(made) = 1
      <3>1. PICK m : m = AtHorizon(e)
        OBVIOUS
      <3>2. made = IF e.opens \/ acc.open # <<>> THEN <<>> ELSE <<m>>
        BY <1>3, <3>1 DEF MadeUp, AtHorizon
      <3>3. CASE e.opens \/ acc.open # <<>>
        <4>1. Len(made) = 0
          BY <3>2, <3>3
        <4>2. QED
          BY <4>1
      <3>4. CASE ~(e.opens \/ acc.open # <<>>)
        <4>1. Len(made) = 1 /\ made[1] = m
          BY <3>2, <3>4
        <4>2. QED
          BY <3>1, <3>4, <4>1
      <3>5. QED
        BY <3>3, <3>4
    <2>5. Apart(made)
      BY <2>4 DEF Apart
    <2>6. ASSUME NEW x, Sourced(stream, n - 1, first, last, x)
          PROVE  x # e /\ (~e.opens => x # AtHorizon(e))
      <3>1. PICK p \in 1..(n - 1) :
                \/ x = stream[p] /\ (x.opens \/ (first <= x.ticks /\ x.ticks <= last))
                \/ ~stream[p].opens /\ stream[p].ticks <= last /\ x = AtHorizon(stream[p])
        BY <2>6 DEF Sourced
      <3>2. p \in 1..Len(stream) /\ p # n
        BY <1>5
      <3>3. CASE x = stream[p]
        <4>1. stream[p] # stream[n]
          BY <3>2 DEF Plain, Apart
        <4>2. ~e.opens => stream[p] # AtHorizon(e)
          BY <1>1, <2>2, <3>2 DEF Plain
        <4>3. QED
          BY <1>1, <3>3, <4>1, <4>2
      <3>4. CASE ~stream[p].opens /\ stream[p].ticks <= last /\ x = AtHorizon(stream[p])
        <4>1. e # AtHorizon(stream[p])
          BY <1>1, <3>2, <3>4 DEF Plain
        <4>2. ~e.opens => stream[p].frame # e.frame
          BY <1>1, <3>2, <3>4 DEF Plain
        <4>3. ~e.opens => AtHorizon(stream[p]) # AtHorizon(e)
          BY <4>2 DEF AtHorizon
        <4>4. QED
          BY <3>4, <4>1, <4>3
      <3>5. QED
        BY <3>1, <3>3, <3>4
    <2>7. PICK begin : begin = shown \o made
      OBVIOUS
    <2>8. begin \in Seq(Shown)
      BY <1>6, <1>7, <2>7, ConcatProperties
    <2>9. Apart(begin)
      <3>1. \A i \in 1..Len(shown), j \in 1..Len(made) : shown[i] # made[j]
        BY <1>9, <2>4, <2>6
      <3>2. QED
        BY <1>6, <1>7, <1>9, <2>5, <2>7, <3>1, JoinedApart
    <2>10. ASSUME NEW i \in 1..Len(begin) PROVE begin[i] # e /\ Sourced(stream, n, first, last, begin[i])
      <3>1. \/ i \in 1..Len(shown) /\ begin[i] = shown[i]
            \/ i - Len(shown) \in 1..Len(made) /\ begin[i] = made[i - Len(shown)]
        BY <1>6, <1>7, <2>7, JoinedParts
      <3>2. CASE i \in 1..Len(shown) /\ begin[i] = shown[i]
        BY <1>9, <1>10, <2>6, <3>2
      <3>3. CASE i - Len(shown) \in 1..Len(made) /\ begin[i] = made[i - Len(shown)]
        <4>1. ~e.opens /\ begin[i] = AtHorizon(e)
          BY <2>4, <3>3
        <4>2. begin[i] # e
          BY <4>1 DEF AtHorizon
        <4>3. Sourced(stream, n, first, last, begin[i])
          BY <1>1, <1>5, <2>2, <4>1 DEF Sourced
        <4>4. QED
          BY <4>2, <4>3
      <3>4. QED
        BY <3>1, <3>2, <3>3
    <2>11. Len(<<e>>) = 1 /\ <<e>>[1] = e /\ Apart(<<e>>)
      BY DEF Apart
    <2>12. Apart(added)
      <3>1. \A i \in 1..Len(begin), j \in 1..Len(<<e>>) : begin[i] # <<e>>[j]
        BY <2>10, <2>11
      <3>2. Apart(begin \o <<e>>)
        BY <1>7, <2>8, <2>9, <2>11, <3>1, JoinedApart
      <3>3. QED
        BY <1>4, <2>7, <3>2
    <2>13. ASSUME NEW i \in 1..Len(added) PROVE Sourced(stream, n, first, last, added[i])
      <3>1. added = begin \o <<e>>
        BY <1>4, <2>7
      <3>2. \/ i \in 1..Len(begin) /\ added[i] = begin[i]
            \/ i - Len(begin) \in 1..Len(<<e>>) /\ added[i] = <<e>>[i - Len(begin)]
        BY <1>7, <2>8, <3>1, JoinedParts
      <3>3. added[i] = e \/ (i \in 1..Len(begin) /\ added[i] = begin[i])
        BY <2>11, <3>2
      <3>4. QED
        BY <2>3, <2>10, <3>3
    <2>14. QED
      BY <1>1, <1>2, <1>6, <1>8, <2>1, <2>12, <2>13 DEF ReplayedFrom
  <1>17. QED
    BY <1>14, <1>15, <1>16

LEMMA ReplayFrom ==
  ASSUME NEW stream \in Seq(Events), NEW first \in Int, NEW last \in Int, horizon \in 0..MaxTicks,
         Plain(stream, last)
  PROVE  LET shown == Replay(stream, first, last)
         IN  /\ shown \in Seq(Shown) /\ Apart(shown)
             /\ \A i \in 1..Len(shown) : Sourced(stream, Len(stream), first, last, shown[i])
  <1>1. Len(stream) \in Nat /\ \A i \in 1..Len(stream) : stream[i] \in Events
    BY LenProperties, ElementOfSeq
  <1>2. PICK g : /\ Replays(stream, first, last, Len(stream), g)
                 /\ Replay(stream, first, last) =
                        IF g[Len(stream)].begun THEN g[Len(stream)].out ELSE g[Len(stream)].open
    BY <1>1, ReplayIsLast
  <1>3. g[0] = [open |-> <<>>, out |-> <<>>, begun |-> FALSE, over |-> FALSE]
    BY <1>1, <1>2, ReplaysUnfold
  <1>4. \A i \in 1..Len(stream) : g[i] = ReplayOne(first, last, g[i - 1], stream[i])
    BY <1>1, <1>2, ReplaysUnfold
  <1> DEFINE T == {n \in Nat : n <= Len(stream) => ReplayedFrom(stream, n, first, last, g[n])}
  <1>5. 0 \in T
    <2>1. g[0] \in Replayed /\ g[0].open = <<>> /\ g[0].out = <<>>
      BY <1>3, EmptySeq DEF Replayed
    <2>2. 1..Len(<<>>) = {}
      OBVIOUS
    <2>3. ReplayedFrom(stream, 0, first, last, g[0])
      BY <2>1, <2>2 DEF ReplayedFrom, Apart
    <2>4. QED
      BY <2>3
  <1>6. ASSUME NEW n \in 1..Len(stream), n - 1 \in T PROVE n \in T
    <2>1. ReplayedFrom(stream, n - 1, first, last, g[n - 1])
      BY <1>1, <1>6
    <2>2. ReplayedFrom(stream, n, first, last, g[n])
      BY <1>4, <2>1, ReplayOneFrom
    <2>3. QED
      BY <1>1, <2>2
  <1>7. Len(stream) \in T
    <2> HIDE DEF T
    <2>1. T \subseteq Nat
      BY DEF T
    <2>2. QED
      BY <1>1, <1>5, <1>6, <2>1, NatSteps
  <1>8. ReplayedFrom(stream, Len(stream), first, last, g[Len(stream)])
    BY <1>1, <1>7
  <1>9. CASE g[Len(stream)].begun
    BY <1>2, <1>8, <1>9 DEF ReplayedFrom, Replayed
  <1>10. CASE ~g[Len(stream)].begun
    <2>1. PICK open : open = g[Len(stream)].open
      OBVIOUS
    <2>2. open \in Seq(Shown) /\ Apart(open) /\ \A i \in 1..Len(open) : OpenIn(stream, Len(stream), open[i])
      BY <1>8, <2>1 DEF ReplayedFrom, Replayed
    <2>3. \A i \in 1..Len(open) : Sourced(stream, Len(stream), first, last, open[i])
      BY <2>2 DEF OpenIn, Sourced
    <2>4. Replay(stream, first, last) = open
      BY <1>2, <1>10, <2>1
    <2>5. QED
      BY <2>2, <2>3, <2>4
  <1>11. QED
    BY <1>9, <1>10

\* The batches that a stream is made of.
AtHand(t) == {b \in Range(history) \cup FreshTails(t) : b.tid = t}

LEMMA StreamFrom ==
  ASSUME Types, OneTail, NEW t \in Threads
  PROVE  /\ Stream(t) \in Seq(Events)
         /\ \A p \in 1..Len(Stream(t)) :
                \E b \in AtHand(t) : \E k \in 1..Len(b.events) : Stream(t)[p] = b.events[k]
  <1>1. history \in Seq(Batches) /\ tails \subseteq Batches
    BY DEF Types, TypeOK, RingTypes, RecorderTypes
  <1>2. \E batches, chain : ChainOf(t, batches, chain) /\ Stream(t) = FlattenSeq(chain)
    BY <1>1, StreamChain DEF OneTail
  <1>3. PICK batches, chain : ChainOf(t, batches, chain) /\ Stream(t) = FlattenSeq(chain)
    BY <1>2
  <1>4. PICK stream : stream = Stream(t)
    OBVIOUS
  <1>5. stream \in Seq(Events) /\ ShownInOrder(chain, stream)
    BY <1>3, <1>4, FlattenInOrder DEF ChainOf
  <1>6. DOMAIN history = 1..Len(history) /\ Len(history) \in Nat
    BY <1>1, LenProperties
  <1>7. ASSUME NEW p \in 1..Len(stream)
        PROVE  \E b \in AtHand(t) : \E k \in 1..Len(b.events) : stream[p] = b.events[k]
    <2>1. PICK j \in 1..Len(chain) : \E l \in 1..Len(chain[j]) : stream[p] = chain[j][l]
      BY <1>5 DEF ShownInOrder, FromOneOf
    <2>2. PICK l \in 1..Len(chain[j]) : stream[p] = chain[j][l]
      BY <2>1
    <2>3. chain[j] = batches[j].events /\ batches[j].tid = t
      BY <1>3 DEF ChainOf
    <2>4. batches[j] \in Range(history) \cup FreshTails(t)
      <3>1. CASE j \in 1..Len(history)
        BY <1>3, <1>6, <3>1 DEF ChainOf, Range
      <3>2. CASE ~(j <= Len(history))
        BY <1>3, <3>2 DEF ChainOf
      <3>3. QED
        BY <1>6, <3>1, <3>2
    <2>5. QED
      BY <2>2, <2>3, <2>4 DEF AtHand
  <1>8. QED
    BY <1>4, <1>5, <1>7

\* No tick stands twice.
LEMMA StreamApart ==
  ASSUME Types, Rising, Paths, OneTail, TailsBegin, NEW t \in Threads
  PROVE  \A p, q \in 1..Len(Stream(t)) : p < q => Stream(t)[p].ticks # Stream(t)[q].ticks
  <1>1. history \in Seq(Batches) /\ tails \subseteq Batches
    BY DEF Types, TypeOK, RingTypes, RecorderTypes
  <1>2. \E batches, chain : ChainOf(t, batches, chain) /\ Stream(t) = FlattenSeq(chain)
    BY <1>1, StreamChain DEF OneTail
  <1>3. PICK batches, chain : ChainOf(t, batches, chain) /\ Stream(t) = FlattenSeq(chain)
    BY <1>2
  <1> DEFINE R == {xy \in Events \X Events : xy[1].ticks # xy[2].ticks}
  <1>4. DOMAIN history = 1..Len(history) /\ Len(history) \in Nat
    BY <1>1, LenProperties
  <1>5. ASSUME NEW i \in 1..Len(batches)
        PROVE  batches[i] \in RisingTo(clock)
    <2>1. \A b \in Range(history) \cup FreshTails(t) : b \in RisingTo(clock)
      BY OnWayRises DEF OnTheWay, FreshTails
    <2>2. batches[i] \in Range(history) \cup FreshTails(t)
      <3>1. CASE i \in 1..Len(history)
        BY <1>3, <1>4, <3>1 DEF ChainOf, Range
      <3>2. CASE ~(i <= Len(history))
        BY <1>3, <3>2 DEF ChainOf
      <3>3. QED
        BY <1>4, <3>1, <3>2
    <2>3. QED
      BY <2>1, <2>2
  <1>6. ASSUME NEW i \in 1..Len(chain), NEW j \in 1..Len(chain),
               NEW k \in 1..Len(chain[i]), NEW l \in 1..Len(chain[j]),
               i < j \/ (i = j /\ k < l)
        PROVE  <<chain[i][k], chain[j][l]>> \in R
    <2>1. PICK a, b : a = batches[i] /\ b = batches[j]
      OBVIOUS
    <2>2. chain[i] = a.events /\ a.tid = t /\ chain[j] = b.events /\ b.tid = t
      BY <1>3, <2>1 DEF ChainOf
    <2>3. a \in RisingTo(clock) /\ b \in RisingTo(clock)
      BY <1>3, <1>5, <2>1 DEF ChainOf
    <2>4. /\ a.events[k] \in Events /\ b.events[l] \in Events
          /\ a.events[k].ticks \in Nat /\ b.events[l].ticks \in Nat
      BY <2>2, <2>3, RisingBatch
    <2> SUFFICES a.events[k].ticks # b.events[l].ticks
      BY <2>2, <2>4
    <2> HIDE DEF R
    <2>5. CASE i = j
      <3>1. a.events[k].ticks < b.events[l].ticks
        BY <1>6, <2>1, <2>2, <2>3, <2>5, RisingBatch
      <3>2. QED
        BY <2>4, <3>1
    <2>6. CASE i < j /\ j <= Len(history)
      <3>1. i \in 1..Len(history) /\ j \in 1..Len(history)
        BY <1>4, <2>6
      <3>2. a = history[i] /\ b = history[j]
        BY <1>3, <2>1, <3>1 DEF ChainOf
      <3>3. Later(a, b)
        BY <2>2, <2>6, <3>1, <3>2 DEF Paths, InPath, Successive
      <3>4. a.events[k].ticks < b.events[l].ticks
        BY <2>2, <3>3 DEF Later
      <3>5. QED
        BY <2>4, <3>4
    <2>7. CASE i < j /\ ~(j <= Len(history))
      <3>1. i \in 1..Len(history)
        BY <1>3, <1>4, <2>7 DEF ChainOf
      <3>2. a = history[i] /\ b \in FreshTails(t)
        BY <1>3, <2>1, <2>7, <3>1 DEF ChainOf
      <3>3. a \in OnTheWay /\ b \in tails /\ FreshTail(b)
        BY <1>4, <3>1, <3>2 DEF OnTheWay, Range, FreshTails
      <3>4. a.base # b.base
        BY <1>4, <2>2, <3>1, <3>2, <3>3 DEF FreshTail
      <3>5. b.events[l].ticks \notin TicksOf(a.events)
        BY <2>2, <3>3, <3>4 DEF TailsBegin
      <3>6. k \in DOMAIN a.events
        BY <2>2, <2>3, RisingBatch, LenProperties
      <3>7. QED
        BY <3>5, <3>6 DEF TicksOf
    <2>8. QED
      BY <1>6, <2>5, <2>6, <2>7
  <1>7. Ordered(FlattenSeq(chain), R)
    <2>1. AllBefore(chain, R)
      BY <1>6 DEF AllBefore
    <2> HIDE DEF R
    <2>2. QED
      BY <1>3, <2>1, FlattenOrdered DEF ChainOf
  <1>8. ASSUME NEW p \in 1..Len(Stream(t)), NEW q \in 1..Len(Stream(t)), p < q
        PROVE  Stream(t)[p].ticks # Stream(t)[q].ticks
    <2>1. <<Stream(t)[p], Stream(t)[q]>> \in R
      BY <1>3, <1>7, <1>8 DEF Ordered
    <2>2. QED
      BY <2>1
  <1>9. QED
    BY <1>8

Nesting == OneTick /\ CallsNest /\ Logged /\ EvictedFirst /\ TailsBegin /\ HorizonEnds /\ NoneBehind

\* No open stands in a stream that would be made up.
LEMMA NoneMadeUp ==
  ASSUME Types, Rising, Nesting, pc = "again", NEW t \in Threads,
         NEW a \in AtHand(t), NEW b \in AtHand(t),
         NEW k \in 1..Len(a.events), NEW l \in 1..Len(b.events),
         ~a.events[k].opens, a.events[k].ticks <= job[1].end
  PROVE  b.events[l] # AtHorizon(a.events[k])
  <1> SUFFICES ASSUME b.events[l] = AtHorizon(a.events[k]) PROVE FALSE
    OBVIOUS
  <1>1. PICK c, e : c = a.events[k] /\ e = b.events[l]
    OBVIOUS
  <1>2. /\ a.tid = t /\ b.tid = t
        /\ a \in OnTheWay \/ (a \in tails /\ a \in FreshTails(t))
        /\ b \in OnTheWay \/ (b \in tails /\ b \in FreshTails(t))
    BY DEF AtHand, OnTheWay, FreshTails
  <1>3. c \in LogOf(t) /\ e \in LogOf(t)
    BY <1>1, <1>2 DEF Nesting, Logged
  <1>4. e.opens /\ e.ticks = horizon /\ e.frame = c.frame /\ ~c.opens
    BY <1>1 DEF AtHorizon
  <1>5. e.ticks \in Nat \ {0} /\ c.ticks \in Nat
    BY <1>3, LogTypes
  <1>6. c.frame = horizon /\ horizon < c.ticks
    <2>1. e.frame = e.ticks /\ c.frame < c.ticks
      BY <1>3, <1>4 DEF Nesting, CallsNest, ClosesOnce
    <2>2. QED
      BY <1>4, <2>1
  <1>7. horizon \in evicted
    BY <1>4, <1>5 DEF Nesting, EvictedFirst
  <1>8. b \notin OnTheWay
    <2> SUFFICES ASSUME b \in OnTheWay PROVE FALSE
      OBVIOUS
    <2>1. e.ticks < b.events[l].ticks
      BY <1>2, <1>3, <1>4, <1>7 DEF Nesting, EvictedFirst
    <2>2. QED
      BY <1>1, <1>5, <2>1
  <1>9. b \in tails /\ l = Len(b.events) /\ EndTicks(b) = horizon
    <2>1. b \in tails
      BY <1>2, <1>8
    <2>2. l = Len(b.events)
      BY <1>1, <1>4, <2>1 DEF Nesting, HorizonEnds
    <2>3. QED
      BY <1>1, <1>4, <2>1, <2>2 DEF EndTicks
  <1>10. c.ticks <= EndTicks(b)
    BY <1>1, <1>2, <1>3, <1>9 DEF Nesting, NoneBehind
  <1>11. QED
    BY <1>4, <1>5, <1>6, <1>9, <1>10

LEMMA StreamPlain ==
  ASSUME Types, Rising, Paths, OneTail, Nesting, pc = "again", NEW t \in Threads
  PROVE  /\ Stream(t) \in Seq(Events) /\ Plain(Stream(t), job[1].end)
         /\ \A p \in 1..Len(Stream(t)) : Stream(t)[p] \in LogOf(t)
  <1>1. PICK stream : stream = Stream(t)
    OBVIOUS
  <1>2. /\ stream \in Seq(Events) /\ Len(stream) \in Nat
        /\ \A p \in 1..Len(stream) :
               \E b \in AtHand(t) : \E k \in 1..Len(b.events) : stream[p] = b.events[k]
    BY <1>1, StreamFrom, LenProperties
  <1>3. ASSUME NEW p \in 1..Len(stream) PROVE stream[p] \in LogOf(t)
    <2>1. PICK b \in AtHand(t) : \E k \in 1..Len(b.events) : stream[p] = b.events[k]
      BY <1>2
    <2>2. b \in OnTheWay \cup tails /\ b.tid = t
      BY DEF AtHand, OnTheWay, FreshTails
    <2>3. QED
      BY <2>1, <2>2 DEF Nesting, Logged
  <1>4. \A p, q \in 1..Len(stream) : p < q => stream[p].ticks # stream[q].ticks
    BY <1>1, StreamApart DEF Nesting
  <1>5. Apart(stream)
    <2> SUFFICES ASSUME NEW p \in 1..Len(stream), NEW q \in 1..Len(stream), stream[p] = stream[q]
                 PROVE  p = q
      BY DEF Apart
    <2>1. ~(p < q) /\ ~(q < p)
      BY <1>4
    <2>2. QED
      BY <1>2, <2>1
  <1>6. ASSUME NEW p \in 1..Len(stream), NEW q \in 1..Len(stream), ~stream[p].opens, ~stream[q].opens,
               stream[p].frame = stream[q].frame
        PROVE  p = q
    <2>1. stream[p] = stream[q]
      BY <1>3, <1>6 DEF Nesting, CallsNest, ClosesOnce
    <2>2. QED
      BY <1>5, <2>1 DEF Apart
  <1>7. ASSUME NEW p \in 1..Len(stream), NEW q \in 1..Len(stream),
               ~stream[p].opens, stream[p].ticks <= job[1].end
        PROVE  stream[q] # AtHorizon(stream[p])
    <2>1. PICK a \in AtHand(t) : \E k \in 1..Len(a.events) : stream[p] = a.events[k]
      BY <1>2
    <2>2. PICK b \in AtHand(t) : \E k \in 1..Len(b.events) : stream[q] = b.events[k]
      BY <1>2
    <2>3. PICK k \in 1..Len(a.events) : stream[p] = a.events[k]
      BY <2>1
    <2>4. PICK l \in 1..Len(b.events) : stream[q] = b.events[l]
      BY <2>2
    <2>5. QED
      BY <1>7, <2>3, <2>4, NoneMadeUp
  <1>8. Plain(stream, job[1].end)
    BY <1>5, <1>6, <1>7 DEF Plain
  <1>9. QED
    BY <1>1, <1>2, <1>3, <1>8

LEMMA AssembledFaithfully ==
  ASSUME Types, Rising, Paths, OneTail, Nesting
  PROVE  DumpInventsNothing
  <1> USE HistoryAssumption
  <1> SUFFICES ASSUME Assembling, NEW t \in Threads, NEW i \in DOMAIN Dumped(t)
               PROVE  /\ Dumped(t)[i] \in LogOf(t) \/ (Dumped(t)[i].opens /\ Dumped(t)[i].ticks = horizon)
                      /\ Dumped(t)[i] \in LogOf(t) => Within(Dumped(t)[i]) \/ Dumped(t)[i].opens
                      /\ \A j \in DOMAIN Dumped(t) : Dumped(t)[i] = Dumped(t)[j] => i = j
    BY DEF DumpInventsNothing, LogOf
  <1>1. pc = "again"
    BY DEF Assembling
  <1>2. PICK first, last : first = First(job[1]) /\ last = job[1].end
    OBVIOUS
  <1>3. first \in Int /\ last \in Int
    BY <1>1, <1>2, DumpSpan
  <1>4. PICK stream : stream = Stream(t)
    OBVIOUS
  <1>5. /\ stream \in Seq(Events) /\ Plain(stream, last)
        /\ \A p \in 1..Len(stream) : stream[p] \in LogOf(t)
    BY <1>1, <1>2, <1>4, StreamPlain
  <1>6. horizon \in 0..MaxTicks
    BY DEF Types, TypeOK, RingTypes
  <1>7. PICK shown : shown = Replay(stream, first, last)
    OBVIOUS
  <1>8. /\ shown \in Seq(Shown) /\ Apart(shown)
        /\ \A n \in 1..Len(shown) : Sourced(stream, Len(stream), first, last, shown[n])
    BY <1>3, <1>5, <1>6, <1>7, ReplayFrom
  <1>9. PICK sorted : sorted = Dumped(t)
    OBVIOUS
  <1>10. sorted = SortedByTicks(shown)
    BY <1>2, <1>4, <1>7, <1>9 DEF Dumped
  <1>11. PICK f \in Bijection(DOMAIN shown, DOMAIN shown) : sorted = [n \in DOMAIN shown |-> shown[f[n]]]
    BY <1>8, <1>10, SortPermutes
  <1>12. DOMAIN shown = 1..Len(shown) /\ DOMAIN sorted = DOMAIN shown
    BY <1>8, <1>11, LenProperties
  <1>13. \A n \in DOMAIN shown : f[n] \in DOMAIN shown /\ sorted[n] = shown[f[n]]
    BY <1>11 DEF Bijection, Injection
  <1>14. i \in DOMAIN shown
    BY <1>9, <1>12
  <1>15. Sourced(stream, Len(stream), first, last, sorted[i])
    BY <1>8, <1>12, <1>13, <1>14
  <1>16. PICK p \in 1..Len(stream) :
            \/ /\ sorted[i] = stream[p]
               /\ sorted[i].opens \/ (first <= sorted[i].ticks /\ sorted[i].ticks <= last)
            \/ sorted[i] = AtHorizon(stream[p])
    BY <1>15 DEF Sourced
  <1>17. sorted[i] \in LogOf(t) \/ (sorted[i].opens /\ sorted[i].ticks = horizon)
    BY <1>5, <1>16 DEF AtHorizon
  <1>18. Within(sorted[i]) \/ sorted[i].opens
    BY <1>2, <1>16 DEF Within, AtHorizon
  <1>19. ASSUME NEW j \in DOMAIN sorted, sorted[i] = sorted[j] PROVE i = j
    <2>1. shown[f[i]] = shown[f[j]] /\ f[i] \in DOMAIN shown /\ f[j] \in DOMAIN shown
      BY <1>12, <1>13, <1>14, <1>19
    <2>2. f[i] = f[j]
      BY <1>8, <1>12, <2>1 DEF Apart
    <2>3. QED
      BY <1>11, <1>12, <1>14, <2>2 DEF Bijection, Injection, IsInjective
  <1>20. QED
    BY <1>9, <1>17, <1>18, <1>19

LEMMA NestingInit == Init => Nesting /\ LastInBatch
  <1> USE HistoryAssumption
  <1> SUFFICES ASSUME Init PROVE Nesting /\ LastInBatch
    OBVIOUS
  <1>1. \A t \in Threads : LogOf(t) = {}
    <2>1. \A t \in Threads : Len(log[t]) = 0 /\ DOMAIN log[t] = {}
      BY DEF Init
    <2>2. QED
      BY <2>1 DEF LogOf
  <1>2. OnTheWay = {} /\ tails = {}
    <2>1. Range(<<>>) = {}
      BY DEF Range
    <2>2. Range(history) = {} /\ tails = {}
      BY <2>1 DEF Init
    <2>3. \A t \in Threads : Range(rings[t]) \cup Range(batch[t]) = {}
      BY <2>1 DEF Init
    <2>4. QED
      BY <2>2, <2>3 DEF OnTheWay
  <1>3. OneTick /\ Logged /\ TailsBegin /\ HorizonEnds /\ NoneBehind
    BY <1>1, <1>2 DEF OneTick, Logged, TailsBegin, HorizonEnds, NoneBehind
  <1>4. EvictedFirst
    BY <1>2 DEF EvictedFirst, Init
  <1>5. LastInBatch
    BY <1>1 DEF LastInBatch
  <1>6. ASSUME NEW t \in Threads PROVE ClosesOnce(t) /\ OpenFrames(t)
    <2>1. ClosesOnce(t)
      BY <1>1 DEF ClosesOnce
    <2>2. stack[t] = (IF t \in Began THEN [i \in 1..Before |-> -i] ELSE <<>>) /\ clock = 0
      BY DEF Init
    <2>3. CASE t \in Began
      <3>1. Len(stack[t]) = Before /\ \A i \in 1..Before : stack[t][i] = -i
        <4>1. PICK s : s = [i \in 1..Before |-> -i]
          OBVIOUS
        <4>2. s \in [1..Before -> Int]
          BY <4>1
        <4>3. s \in Seq(Int) /\ Len(s) = Before
          BY <4>2
        <4>4. QED
          BY <2>2, <2>3, <4>1, <4>3
      <3>2. QED
        BY <1>1, <2>1, <2>2, <3>1 DEF OpenFrames
    <2>4. CASE t \notin Began
      <3>1. stack[t] = <<>>
        BY <2>2, <2>4
      <3>2. Len(stack[t]) = 0
        BY <3>1
      <3>3. QED
        BY <2>1, <3>2 DEF OpenFrames
    <2>5. QED
      BY <2>1, <2>3, <2>4
  <1>7. QED
    BY <1>3, <1>4, <1>5, <1>6 DEF Nesting, CallsNest

LEMMA NestingHolds == Spec => []Nesting
  <1>1. Spec => [](Rising /\ Paths)
    BY DumpInvInit, RisingNext, PathsNext, TypesHold, PTL DEF Spec
  <1>2. Spec => [](OneTail /\ EndsPast)
    BY <1>1, DumpInvInit, OneTailNext, EndsPastNext, TypesHold, PTL DEF Spec
  <1>3. Spec => [](OneTick /\ CallsNest /\ Logged)
    BY <1>1, NestingInit, OneTickNext, CallsNestNext, LoggedNext, TypesHold, PTL DEF Spec, Nesting
  <1>4. Spec => [](EvictedFirst /\ TailsBegin)
    BY <1>1, <1>3, NestingInit, EvictedFirstNext, TailsBeginNext, TypesHold, PTL DEF Spec, Nesting
  <1>5. Spec => [](HorizonEnds /\ LastInBatch)
    BY <1>1, <1>3, <1>4, NestingInit, HorizonEndsNext, LastInBatchNext, TypesHold, PTL
       DEF Spec, Nesting
  <1>6. Spec => []NoneBehind
    BY <1>1, <1>2, <1>3, <1>5, NestingInit, NoneBehindNext, TypesHold, PTL DEF Spec, Nesting
  <1>7. QED
    BY <1>3, <1>4, <1>5, <1>6, PTL DEF Nesting

\* Whatever was lost, evicted or read as a tail too early, a dump shows nothing that
\* the thread has not recorded but opens at the horizon, nothing from outside its
\* window but opens, and nothing twice (assemble and replay in snapshot.rs).
THEOREM DumpsInventNothing == Spec => []DumpInventsNothing
  <1>1. Spec => [](Types /\ Rising /\ Paths /\ OneTail)
    BY DumpInvHolds, PTL DEF DumpInv
  <1>2. QED
    BY <1>1, NestingHolds, AssembledFaithfully, PTL

---------------------------------------------------------------------------
(* A dump is its slice.                                                     *)

\* A frame that is opened inside another is closed first.
FramesHeld(t) ==
    /\ \A o \in LogOf(t) : o.opens =>
           Shows(stack[t], o.frame) \/ \E d \in LogOf(t) : ~d.opens /\ d.frame = o.frame
    /\ \A f \in 1..MaxTicks : Shows(stack[t], f) => \E o \in LogOf(t) : o.opens /\ o.frame = f

ClosedInside(t) ==
    /\ \A o, c \in LogOf(t) :
           o.opens /\ ~c.opens /\ c.frame < o.ticks /\ o.ticks < c.ticks =>
               \E d \in LogOf(t) : ~d.opens /\ d.frame = o.frame /\ d.ticks < c.ticks
    /\ \A c \in LogOf(t) : ~c.opens /\ c.frame > 0 => \E o \in LogOf(t) : o.opens /\ o.frame = c.frame

InnerFirst == \A t \in Threads : FramesHeld(t) /\ ClosedInside(t)

\* A dump ends no earlier than it starts.
StartsPast ==
    /\ \A w \in Windows : start[w] <= clock
    /\ \A m \in InHand : m.type = "dump" => stage[m.window] # "ready" /\ start[m.window] <= m.end

LEMMA StackPushed ==
  ASSUME NEW old \in Seq(Int), NEW x \in Int, NEW v
  PROVE  Shows(<<x>> \o old, v) <=> v = x \/ Shows(old, v)
  <1>1. <<x>> \in Seq(Int) /\ Len(<<x>>) = 1 /\ <<x>>[1] = x
    OBVIOUS
  <1>2. PICK new : new = <<x>> \o old
    OBVIOUS
  <1>3. /\ Len(old) \in Nat
        /\ \A i \in 1..Len(new) :
               \/ i \in 1..1 /\ new[i] = <<x>>[i]
               \/ i - 1 \in 1..Len(old) /\ new[i] = old[i - 1]
        /\ \A i \in 1..1 : i \in 1..Len(new) /\ new[i] = <<x>>[i]
        /\ \A i \in 1..Len(old) : 1 + i \in 1..Len(new) /\ new[1 + i] = old[i]
    BY <1>1, <1>2, JoinedParts
  <1>4. ASSUME Shows(new, v) PROVE v = x \/ Shows(old, v)
    <2>1. PICK i \in 1..Len(new) : new[i] = v
      BY <1>4 DEF Shows
    <2>2. CASE i \in 1..1 /\ new[i] = <<x>>[i]
      <3>1. i = 1
        BY <2>2
      <3>2. QED
        BY <1>1, <2>1, <2>2, <3>1
    <2>3. CASE i - 1 \in 1..Len(old) /\ new[i] = old[i - 1]
      BY <2>1, <2>3 DEF Shows
    <2>4. QED
      BY <1>3, <2>2, <2>3
  <1>5. Shows(new, x) /\ (Shows(old, v) => Shows(new, v))
    BY <1>1, <1>3 DEF Shows
  <1>6. QED
    BY <1>2, <1>4, <1>5

LEMMA StackPopped ==
  ASSUME NEW old \in Seq(Int), old # <<>>, \A i, j \in 1..Len(old) : i < j => old[j] < old[i], NEW v
  PROVE  /\ Shows(old, v) <=> v = Head(old) \/ Shows(Tail(old), v)
         /\ Head(old) \in Int
         /\ Shows(old, v) => v \in Int /\ v <= Head(old)
  <1>1. PICK new : new = Tail(old)
    OBVIOUS
  <1>2. Len(old) \in Nat \ {0} /\ \A i \in 1..Len(old) : old[i] \in Int
    BY EmptySeq, LenProperties, ElementOfSeq
  <1>3. Head(old) = old[1] /\ Len(new) = Len(old) - 1 /\ \A i \in 1..Len(new) : new[i] = old[i + 1]
    BY <1>1, HeadTailProperties
  <1>4. ASSUME NEW i \in 1..Len(old) PROVE i = 1 \/ (i - 1 \in 1..Len(new) /\ old[i] = new[i - 1] /\ old[i] < old[1])
    <2>1. i # 1 => i - 1 \in 1..Len(new) /\ (i - 1) + 1 = i /\ 1 \in 1..Len(old) /\ 1 < i
      BY <1>2, <1>3
    <2>2. QED
      BY <1>3, <2>1
  <1>5. \A i \in 1..Len(new) : i + 1 \in 1..Len(old) /\ new[i] = old[i + 1]
    BY <1>2, <1>3
  <1>6. Shows(old, v) => v = old[1] \/ (Shows(new, v) /\ v < old[1])
    BY <1>4 DEF Shows
  <1>7. 1 \in 1..Len(old) /\ old[1] \in Int
    BY <1>2
  <1>8. (Shows(new, v) => Shows(old, v)) /\ Shows(old, old[1])
    BY <1>5, <1>7 DEF Shows
  <1>9. Shows(old, v) => v \in Int
    BY <1>2 DEF Shows
  <1>10. QED
    BY <1>1, <1>3, <1>6, <1>7, <1>8, <1>9

LEMMA InnerFirstNext ==
  ASSUME Types, OneTick, CallsNest, InnerFirst, [Next]_vars
  PROVE  InnerFirst'
  <1>1. clock \in Nat
    BY ClockGoesOn
  <1>2. ASSUME NEW t \in Threads PROVE stack[t] \in Seq(Int)
    BY HistoryAssumption DEF Types, TypeOK, ThreadTypes, Frames
  <1>3. ASSUME NEW t \in Threads, LogOf(t)' = LogOf(t), stack'[t] = stack[t]
        PROVE  FramesHeld(t)' /\ ClosedInside(t)'
    BY <1>3 DEF InnerFirst, FramesHeld, ClosedInside
  <1>4. CASE UNCHANGED <<log, stack>>
    <2>1. \A t \in Threads : LogOf(t)' = LogOf(t) /\ stack'[t] = stack[t]
      BY <1>4 DEF LogOf
    <2>2. QED
      BY <1>3, <2>1 DEF InnerFirst
  <1>5. ASSUME NEW t \in Threads, Enter(t) \/ Leave(t) PROVE InnerFirst'
    <2>1. PICK e \in Events :
             /\ e.ticks = clock + 1 /\ clock' = clock + 1
             /\ LogOf(t)' = LogOf(t) \cup {e}
             /\ \A u \in Threads \ {t} : LogOf(u)' = LogOf(u) /\ stack'[u] = stack[u]
             /\ \/ e.opens /\ e.frame = clock + 1 /\ stack'[t] = <<clock + 1>> \o stack[t]
                \/ ~e.opens /\ stack[t] # <<>> /\ e.frame = Head(stack[t]) /\ stack'[t] = Tail(stack[t])
      BY <1>5, CallbackStep
    <2>2. PICK old, new : old = stack[t] /\ new = stack'[t]
      OBVIOUS
    <2>3. old \in Seq(Int) /\ \A i, j \in 1..Len(old) : i < j => old[j] < old[i]
      BY <1>2, <2>2 DEF CallsNest, OpenFrames
    <2>4. ASSUME NEW x \in LogOf(t)
          PROVE  /\ x.ticks \in Nat /\ x.ticks <= clock /\ x.frame \in Int
                 /\ IF x.opens THEN x.frame = x.ticks ELSE x.frame < x.ticks
      BY LogTypes DEF OneTick, CallsNest, ClosesOnce
    <2>5. FramesHeld(t) /\ ClosedInside(t)
      BY DEF InnerFirst
    <2> SUFFICES FramesHeld(t)' /\ ClosedInside(t)'
      BY <1>3, <2>1 DEF InnerFirst
    <2>6. CASE e.opens /\ e.frame = clock + 1 /\ new = <<clock + 1>> \o old
      <3>1. \A v : Shows(new, v) <=> v = clock + 1 \/ Shows(old, v)
        BY <1>1, <2>3, <2>6, StackPushed
      <3>2. ASSUME NEW o \in LogOf(t)', o.opens
            PROVE  Shows(new, o.frame) \/ \E d \in LogOf(t)' : ~d.opens /\ d.frame = o.frame
        BY <2>1, <2>2, <2>5, <2>6, <3>1, <3>2 DEF FramesHeld
      <3>3. ASSUME NEW f \in 1..MaxTicks, Shows(new, f) PROVE \E o \in LogOf(t)' : o.opens /\ o.frame = f
        BY <2>1, <2>2, <2>5, <2>6, <3>1, <3>3 DEF FramesHeld
      <3>4. FramesHeld(t)'
        BY <2>2, <3>2, <3>3 DEF FramesHeld
      <3>5. ASSUME NEW o \in LogOf(t)', NEW c \in LogOf(t)', o.opens, ~c.opens,
                   c.frame < o.ticks, o.ticks < c.ticks
            PROVE  \E d \in LogOf(t)' : ~d.opens /\ d.frame = o.frame /\ d.ticks < c.ticks
        <4>1. c \in LogOf(t)
          BY <2>1, <2>6, <3>5
        <4>2. o \in LogOf(t)
          BY <1>1, <2>1, <2>4, <3>5, <4>1
        <4>3. QED
          BY <2>1, <2>5, <3>5, <4>1, <4>2 DEF ClosedInside
      <3>6. ASSUME NEW c \in LogOf(t)', ~c.opens, c.frame > 0
            PROVE  \E o \in LogOf(t)' : o.opens /\ o.frame = c.frame
        BY <2>1, <2>5, <2>6, <3>6 DEF ClosedInside
      <3>7. ClosedInside(t)'
        BY <3>5, <3>6 DEF ClosedInside
      <3>8. QED
        BY <3>4, <3>7
    <2>7. CASE ~e.opens /\ old # <<>> /\ e.frame = Head(old) /\ new = Tail(old)
      <3>1. /\ e.frame \in Int
            /\ \A v : /\ Shows(old, v) <=> v = e.frame \/ Shows(new, v)
                      /\ Shows(old, v) => v \in Int /\ v <= e.frame
        BY <2>3, <2>7, StackPopped
      <3>2. ASSUME NEW o \in LogOf(t)', o.opens
            PROVE  Shows(new, o.frame) \/ \E d \in LogOf(t)' : ~d.opens /\ d.frame = o.frame
        <4>1. o \in LogOf(t)
          BY <2>1, <2>7, <3>2
        <4>2. CASE Shows(old, o.frame)
          BY <2>1, <2>7, <3>1, <4>2
        <4>3. CASE \E d \in LogOf(t) : ~d.opens /\ d.frame = o.frame
          BY <2>1, <4>3
        <4>4. QED
          BY <2>2, <2>5, <3>2, <4>1, <4>2, <4>3 DEF FramesHeld
      <3>3. ASSUME NEW f \in 1..MaxTicks, Shows(new, f) PROVE \E o \in LogOf(t)' : o.opens /\ o.frame = f
        BY <2>1, <2>2, <2>5, <3>1, <3>3 DEF FramesHeld
      <3>4. FramesHeld(t)'
        BY <2>2, <3>2, <3>3 DEF FramesHeld
      <3>5. ASSUME NEW o \in LogOf(t)', NEW c \in LogOf(t)', o.opens, ~c.opens,
                   c.frame < o.ticks, o.ticks < c.ticks
            PROVE  \E d \in LogOf(t)' : ~d.opens /\ d.frame = o.frame /\ d.ticks < c.ticks
        <4>1. o \in LogOf(t)
          BY <2>1, <2>7, <3>5
        <4>2. CASE c \in LogOf(t)
          BY <2>1, <2>5, <3>5, <4>1, <4>2 DEF ClosedInside
        <4>3. CASE c = e
          <5>1. o.frame = o.ticks /\ o.ticks \in Nat
            BY <2>4, <3>5, <4>1
          <5>2. ~Shows(old, o.frame)
            BY <3>1, <3>5, <4>3, <5>1
          <5>3. PICK d \in LogOf(t) : ~d.opens /\ d.frame = o.frame
            BY <2>2, <2>5, <3>5, <4>1, <5>2 DEF FramesHeld
          <5>4. d.ticks < c.ticks
            BY <1>1, <2>1, <2>4, <4>3
          <5>5. QED
            BY <2>1, <5>3, <5>4
        <4>4. QED
          BY <2>1, <4>2, <4>3
      <3>6. ASSUME NEW c \in LogOf(t)', ~c.opens, c.frame > 0
            PROVE  \E o \in LogOf(t)' : o.opens /\ o.frame = c.frame
        <4>1. CASE c \in LogOf(t)
          BY <2>1, <2>5, <3>6, <4>1 DEF ClosedInside
        <4>2. CASE c = e
          <5>1. Shows(old, e.frame)
            BY <3>1
          <5>2. e.frame \in Frames
            BY DEF Events
          <5>3. e.frame \in 1..MaxTicks
            BY <3>6, <4>2, <5>2, HistoryAssumption DEF Frames
          <5>4. QED
            BY <2>1, <2>2, <2>5, <4>2, <5>1, <5>3 DEF FramesHeld
        <4>3. QED
          BY <2>1, <4>1, <4>2
      <3>7. ClosedInside(t)'
        BY <3>5, <3>6 DEF ClosedInside
      <3>8. QED
        BY <3>4, <3>7
    <2>8. QED
      BY <2>1, <2>2, <2>6, <2>7
  <1>6. QED
    BY <1>4, <1>5, LogStep

LEMMA StartsPastNext ==
  ASSUME Types, StartsPast, [Next]_vars
  PROVE  StartsPast'
  <1>1. /\ RecorderTypes /\ clock \in Nat /\ clock' \in {clock, clock + 1}
        /\ stage \in [Windows -> {"ready", "open", "waiting", "done", "failed", "refused"}]
        /\ start \in [Windows -> Nat]
    BY ClockGoesOn, HistoryAssumption DEF Types, TypeOK, ClientTypes
  <1>2. ASSUME NEW m \in InHand, m.type = "dump"
        PROVE  m.window \in Windows /\ m.end \in Nat
    <2>1. m \in Messages /\ m.end \in Nat
      BY <1>1, <1>2, InHandMessages
    <2>2. QED
      BY <1>2, <2>1 DEF Messages
  <1>3. ASSUME NEW w \in Windows PROVE start[w] <= clock'
    <2>1. start[w] <= clock /\ start[w] \in Nat
      BY <1>1 DEF StartsPast
    <2>2. QED
      BY <1>1, <2>1
  <1>4. ASSUME InHand' \subseteq InHand, start' = start, \A w \in Windows : stage'[w] = "ready" => stage[w] = "ready"
        PROVE  StartsPast'
    BY <1>2, <1>3, <1>4 DEF StartsPast
  <1>5. ASSUME NEW t \in Threads, Enter(t) \/ Leave(t) \/ Forget(t) \/ FlushAtExit(t)
        PROVE  UNCHANGED <<control, job, start, stage>>
    BY <1>5 DEF Enter, Leave, Record, Forget, FlushAtExit, recorderVars, clientVars
  <1>6. ASSUME NEW w \in Windows, EnterBlock(w) PROVE StartsPast'
    <2>1. stage[w] = "ready" /\ stage' = [stage EXCEPT ![w] = "open"] /\ start' = [start EXCEPT ![w] = clock']
      BY <1>6 DEF EnterBlock
    <2>2. PICK o \in Messages : o.type = "open" /\ Send(o)
      <3>1. [type |-> "open", window |-> w] \in Messages
        BY DEF Messages
      <3>2. QED
        BY <1>6, <3>1 DEF EnterBlock
    <2>3. Receiving /\ job' = job
      BY <1>6 DEF EnterBlock, recorderVars
    <2>4. InHand' = InHand \cup {o}
      BY <1>1, <2>2, <2>3, SentIsInHand
    <2>5. \A v \in Windows : start'[v] <= clock'
      BY <1>1, <1>3, <2>1
    <2>6. ASSUME NEW m \in InHand, m.type = "dump"
          PROVE  stage'[m.window] # "ready" /\ start'[m.window] <= m.end
      <3>1. m.window \in Windows /\ stage[m.window] # "ready" /\ start[m.window] <= m.end
        BY <1>2, <2>6 DEF StartsPast
      <3>2. QED
        BY <1>1, <2>1, <3>1
    <2>7. QED
      BY <2>2, <2>4, <2>5, <2>6 DEF StartsPast
  <1>7. ASSUME NEW w \in Windows, ExitBlock(w) PROVE StartsPast'
    <2>1. stage' = [stage EXCEPT ![w] = "waiting"] /\ start' = start
      BY <1>7 DEF ExitBlock
    <2>2. PICK d : d = [type |-> "dump", window |-> w, end |-> clock']
      OBVIOUS
    <2>3. d \in Messages /\ d.window = w /\ d.end = clock' /\ Send(d) /\ Receiving /\ job' = job
      <3>1. clock' \in 0..MaxTicks
        BY <1>7 DEF ExitBlock, ReadClock, Types, TypeOK, ThreadTypes
      <3>2. QED
        BY <1>7, <2>2, <3>1 DEF Messages, ExitBlock, recorderVars
    <2>4. InHand' = InHand \cup {d}
      BY <1>1, <2>3, SentIsInHand
    <2>5. ASSUME NEW m \in InHand, m.type = "dump"
          PROVE  stage'[m.window] # "ready" /\ start'[m.window] <= m.end
      <3>1. m.window \in Windows /\ stage[m.window] # "ready" /\ start[m.window] <= m.end
        BY <1>2, <2>5 DEF StartsPast
      <3>2. QED
        BY <1>1, <2>1, <3>1
    <2>6. stage'[d.window] # "ready" /\ start'[d.window] <= d.end
      BY <1>1, <1>3, <2>1, <2>3
    <2>7. QED
      BY <1>3, <2>1, <2>4, <2>5, <2>6 DEF StartsPast
  <1>8. ASSUME NEW w \in Windows, ExitRefused(w) \/ BlockFails(w) PROVE StartsPast'
    <2>1. UNCHANGED <<control, job, start>>
      BY <1>8 DEF ExitRefused, BlockFails, recorderVars
    <2>2. \A v \in Windows : stage'[v] = "ready" => stage[v] = "ready"
      BY <1>1, <1>8 DEF ExitRefused, BlockFails
    <2>3. QED
      BY <1>4, <2>1, <2>2 DEF InHand
  <1>9. CASE AskWhole
    <2>1. PICK d : d = [type |-> "dumpall", end |-> clock']
      OBVIOUS
    <2>2. d \in Messages /\ d.type # "dump" /\ Send(d) /\ UNCHANGED <<job, start, stage>>
      <3>1. clock' \in 0..MaxTicks
        BY <1>9 DEF AskWhole, ReadClock, Types, TypeOK, ThreadTypes
      <3>2. QED
        BY <1>9, <2>1, <3>1 DEF Messages, AskWhole, recorderVars
    <2>3. InHand' \subseteq InHand \cup {d}
      <3>1. CASE Receiving
        BY <1>1, <2>2, <3>1, SentIsInHand
      <3>2. CASE ~Receiving
        BY <2>2, <3>2 DEF Send, InHand
      <3>3. QED
        BY <3>1, <3>2
    <2>4. QED
      BY <1>2, <1>3, <2>2, <2>3 DEF StartsPast
  <1>10. CASE StopThreads \/ Close \/ Join \/ Ended \/ UNCHANGED vars
    <2>1. UNCHANGED <<control, job, start, stage>>
      BY <1>10 DEF StopThreads, Close, Join, Ended, recorderVars, clientVars, vars
    <2>2. QED
      BY <1>4, <2>1 DEF InHand
  <1>11. CASE HandleOpen \/ BeginDump
    <2>1. control \in Seq(Messages) /\ control # <<>> /\ UNCHANGED <<start, stage>>
      BY <1>1, <1>11 DEF HandleOpen, BeginDump, RecorderTypes, clientVars
    <2>2. Range(control) = {Head(control)} \cup Range(Tail(control))
      BY <2>1, HeadOrTail
    <2>3. control' = Tail(control) /\ job' \in {job, <<Head(control)>>}
      BY <1>11 DEF HandleOpen, BeginDump
    <2>4. InHand' \subseteq InHand
      BY <2>2, <2>3, JobRange DEF InHand
    <2>5. QED
      BY <1>4, <2>1, <2>4
  <1>12. CASE Reply
    <2>1. control' = control /\ job' = <<>> /\ start' = start
      BY <1>12 DEF Reply
    <2>2. \A v \in Windows : stage'[v] = "ready" => stage[v] = "ready"
      BY <1>1, <1>12 DEF Reply
    <2>3. QED
      BY <1>4, <2>1, <2>2, JobRange DEF InHand
  <1>13. CASE Die
    <2>1. control' = <<>> /\ job' = <<>> /\ UNCHANGED <<start, stage>>
      BY <1>13 DEF Die, clientVars
    <2>2. QED
      BY <1>4, <2>1, JobRange DEF InHand
  <1>14. CASE \/ NoMessage \/ NothingDrained \/ CheckClosed \/ ReadTails \/ Assemble \/ Written
              \/ LastAbsorbed
    <2>1. UNCHANGED <<control, job, start, stage>>
      BY <1>14 DEF NoMessage, NothingDrained, CheckClosed, ReadTails, Assemble, Written,
         LastAbsorbed, Goes, clientVars
    <2>2. QED
      BY <1>4, <2>1 DEF InHand
  <1>15. ASSUME NEW t \in Threads, Drain(t) \/ Absorb(t) PROVE UNCHANGED <<control, job, start, stage>>
    BY <1>15 DEF Drain, Absorb, recorderVars, clientVars
  <1>16. ASSUME UNCHANGED <<control, job, start, stage>> PROVE StartsPast'
    BY <1>4, <1>16 DEF InHand
  <1>17. QED
    BY <1>5, <1>6, <1>7, <1>8, <1>9, <1>10, <1>11, <1>12, <1>13, <1>14, <1>15, <1>16
       DEF Next, Recorder

\* Streams in which what ends by last stands in order, and calls close from the inside.
Nested(stream, last) ==
    /\ \A p, q \in 1..Len(stream) :
           p < q /\ stream[q].ticks <= last => stream[p].ticks < stream[q].ticks
    /\ \A p \in 1..Len(stream) :
           IF stream[p].opens THEN stream[p].frame = stream[p].ticks
           ELSE stream[p].frame < stream[p].ticks
    /\ \A p, q \in 1..Len(stream) :
           ~stream[p].opens /\ ~stream[q].opens /\ stream[p].frame = stream[q].frame => p = q
    /\ \A q \in 1..Len(stream) : \A p \in 1..(q - 1) :
           ~stream[q].opens /\ stream[q].ticks <= last /\ stream[p].opens =>
               /\ stream[q].frame < stream[p].ticks =>
                      \E r \in 1..(q - 1) : ~stream[r].opens /\ stream[r].frame = stream[p].frame
               /\ stream[p].ticks < stream[q].frame =>
                      \E r \in 1..(q - 1) : stream[r].opens /\ stream[r].frame = stream[q].frame

\* The opens that no close among the first n events is of.
UnclosedIn(stream, n, x) ==
    \E p \in 1..n :
        /\ x = stream[p] /\ x.opens
        /\ \A q \in 1..n : ~stream[q].opens => stream[q].frame # x.frame

Orphan(stream, c) ==
    ~c.opens /\ \A q \in 1..Len(stream) : stream[q].opens => stream[q].frame # c.frame

Ascends(s) == \A i, j \in 1..Len(s) : i < j => s[i].ticks < s[j].ticks

\* A close is of the innermost open frame, or of none when none is open.
LEMMA CloseFinds ==
  ASSUME NEW stream \in Seq(Events), NEW last \in Int, Nested(stream, last),
         NEW n \in 1..Len(stream), ~stream[n].opens, stream[n].ticks <= last,
         NEW open \in Seq(Shown), Ascends(open), \A x : Shows(open, x) <=> UnclosedIn(stream, n - 1, x)
  PROVE  IF open = <<>> THEN Orphan(stream, stream[n])
         ELSE Len(open) \in Nat \ {0} /\ open[Len(open)].frame = stream[n].frame
              /\ ~Orphan(stream, stream[n])
  <1>1. PICK c \in Events : c = stream[n]
    BY ElementOfSeq
  <1>2. /\ Len(stream) \in Nat /\ Len(open) \in Nat /\ c.ticks \in Int /\ c.frame \in Int
        /\ \A p \in 1..Len(stream) : stream[p].ticks \in Int /\ stream[p].frame \in Int
    <2>1. \A p \in 1..Len(stream) : stream[p] \in Events
      BY ElementOfSeq
    <2>2. \A e \in Events : e.ticks \in Int /\ e.frame \in Int
      BY HistoryAssumption DEF Events, Frames
    <2>3. QED
      BY <1>1, <2>1, <2>2, LenProperties
  \* The open of the close, when it is there, is not closed before.
  <1>3. ASSUME NEW r \in 1..Len(stream), stream[r].opens, stream[r].frame = c.frame
        PROVE  r \in 1..(n - 1) /\ Shows(open, stream[r])
    <2>1. stream[r].ticks = c.frame /\ c.frame < c.ticks
      BY <1>1, <1>3 DEF Nested
    <2>2. r < n
      <3>1. r # n
        BY <1>1, <1>3
      <3>2. ~(n < r)
        <4> SUFFICES ASSUME n < r PROVE FALSE
          OBVIOUS
        <4>1. stream[r].ticks <= last
          BY <1>1, <1>2, <2>1
        <4>2. stream[n].ticks < stream[r].ticks
          BY <4>1 DEF Nested
        <4>3. QED
          BY <1>1, <1>2, <2>1, <4>2
      <3>3. QED
        BY <1>2, <3>1, <3>2
    <2>3. \A q \in 1..(n - 1) : ~stream[q].opens => stream[q].frame # c.frame
      <3>1. \A q \in 1..(n - 1) : q \in 1..Len(stream) /\ q # n
        BY <1>2
      <3>2. QED
        BY <1>1, <3>1 DEF Nested
    <2>4. r \in 1..(n - 1)
      BY <1>2, <2>2
    <2>5. UnclosedIn(stream, n - 1, stream[r])
      BY <1>3, <2>3, <2>4 DEF UnclosedIn
    <2>6. QED
      BY <2>4, <2>5
  <1>4. CASE open = <<>>
    <2>1. Len(open) = 0
      BY <1>4
    <2>2. \A x : ~Shows(open, x)
      BY <2>1 DEF Shows
    <2>3. QED
      BY <1>1, <1>3, <1>4, <2>2 DEF Orphan
  <1>5. CASE open # <<>>
    <2>1. Len(open) \in Nat \ {0} /\ Len(open) \in 1..Len(open)
      BY <1>2, <1>5, EmptySeq
    <2>2. PICK o : o = open[Len(open)]
      OBVIOUS
    <2>3. Shows(open, o)
      BY <2>1, <2>2 DEF Shows
    <2>4. UnclosedIn(stream, n - 1, o)
      BY <2>3
    <2>5. PICK p \in 1..(n - 1) : o = stream[p] /\ o.opens
                                  /\ \A q \in 1..(n - 1) : ~stream[q].opens => stream[q].frame # o.frame
      BY <2>4 DEF UnclosedIn
    <2>6. p \in 1..Len(stream) /\ o.frame = o.ticks /\ o.ticks \in Int
      <3>1. p \in 1..Len(stream)
        BY <1>2
      <3>2. QED
        BY <1>2, <2>5, <3>1 DEF Nested
    <2>7. ~(c.frame < o.ticks)
      <3> SUFFICES ASSUME c.frame < o.ticks PROVE FALSE
        OBVIOUS
      <3>1. \E r \in 1..(n - 1) : ~stream[r].opens /\ stream[r].frame = stream[p].frame
        BY <1>1, <2>5 DEF Nested
      <3>2. QED
        BY <2>5, <3>1
    <2>8. ~(o.ticks < c.frame)
      <3> SUFFICES ASSUME o.ticks < c.frame PROVE FALSE
        OBVIOUS
      <3>1. \E r \in 1..(n - 1) : stream[r].opens /\ stream[r].frame = c.frame
        BY <1>1, <2>5 DEF Nested
      <3>2. PICK r \in 1..(n - 1) : stream[r].opens /\ stream[r].frame = c.frame
        BY <3>1
      <3>3. r \in 1..Len(stream)
        BY <1>2
      <3>4. stream[r].ticks = c.frame /\ Shows(open, stream[r])
        BY <1>3, <3>2, <3>3 DEF Nested
      <3>5. PICK i \in 1..Len(open) : open[i] = stream[r]
        BY <3>4 DEF Shows
      <3>6. i # Len(open)
        BY <2>2, <2>6, <3>4, <3>5
      <3>7. i < Len(open)
        BY <1>2, <3>6
      <3>8. open[i].ticks < o.ticks
        BY <2>1, <2>2, <3>7 DEF Ascends
      <3>9. QED
        BY <1>2, <2>6, <3>4, <3>5, <3>8
    <2>9. o.frame = c.frame
      BY <1>2, <2>6, <2>7, <2>8
    <2>10. ~Orphan(stream, c)
      BY <2>5, <2>6, <2>9 DEF Orphan
    <2>11. QED
      BY <1>1, <1>5, <2>1, <2>2, <2>9, <2>10
  <1>6. QED
    BY <1>4, <1>5
LEMMA AfterExact ==
  ASSUME NEW stream \in Seq(Events), NEW last \in Int, Nested(stream, last),
         NEW n \in 1..Len(stream), stream[n].ticks <= last,
         NEW open \in Seq(Shown), Ascends(open), \A x : Shows(open, x) <=> UnclosedIn(stream, n - 1, x)
  PROVE  /\ Ascends(After(open, stream[n]))
         /\ \A x : Shows(After(open, stream[n]), x) <=> UnclosedIn(stream, n, x)
  <1>1. PICK e \in Events : e = stream[n]
    BY ElementOfSeq
  <1>2. PICK new : new = After(open, e)
    OBVIOUS
  <1>3. /\ Len(stream) \in Nat /\ Len(open) \in Nat
        /\ \A p \in 1..Len(stream) : stream[p].ticks \in Int /\ stream[p].frame \in Int
        /\ \A p \in 1..(n - 1) : p \in 1..Len(stream) /\ p \in 1..n /\ p < n
        /\ \A p \in 1..n : p \in 1..(n - 1) \/ p = n
        /\ n \in 1..n
    <2>1. \A p \in 1..Len(stream) : stream[p] \in Events
      BY ElementOfSeq
    <2>2. \A x \in Events : x.ticks \in Int /\ x.frame \in Int
      BY HistoryAssumption DEF Events, Frames
    <2>3. Len(stream) \in Nat /\ Len(open) \in Nat
      BY LenProperties
    <2>4. QED
      BY <2>1, <2>2, <2>3
  <1>4. \A p \in 1..(n - 1) : stream[p].ticks < e.ticks
    BY <1>1, <1>3 DEF Nested
  <1>5. ASSUME NEW i \in 1..Len(open)
        PROVE  \E p \in 1..(n - 1) : open[i] = stream[p] /\ open[i].opens /\ open[i].frame = open[i].ticks
    <2>1. Shows(open, open[i])
      BY DEF Shows
    <2>2. UnclosedIn(stream, n - 1, open[i])
      BY <2>1
    <2>3. PICK p \in 1..(n - 1) : open[i] = stream[p] /\ open[i].opens
      BY <2>2 DEF UnclosedIn
    <2>4. QED
      BY <1>3, <2>3 DEF Nested
  <1>6. CASE e.opens
    <2>1. new = Append(open, e) /\ e \in Shown
      BY <1>2, <1>6, EventsAreShown DEF After
    <2>2. /\ Len(new) = Len(open) + 1 /\ new[Len(open) + 1] = e
          /\ \A i \in 1..Len(open) : new[i] = open[i]
      BY <2>1, AppendProperties
    <2>3. /\ \A i \in 1..Len(new) :
                 (i \in 1..Len(open) /\ new[i] = open[i]) \/ (i = Len(open) + 1 /\ new[i] = e)
          /\ \A i \in 1..Len(open) : i \in 1..Len(new) /\ i < Len(open) + 1
          /\ Len(open) + 1 \in 1..Len(new)
      BY <1>3, <2>2
    <2>4. \A i \in 1..Len(open) : open[i].ticks < e.ticks
      BY <1>4, <1>5
    <2>5. ASSUME NEW i \in 1..Len(new), NEW j \in 1..Len(new), i < j PROVE new[i].ticks < new[j].ticks
      <3>1. i \in 1..Len(open) /\ new[i] = open[i]
        BY <1>3, <2>3, <2>5
      <3>2. CASE j \in 1..Len(open) /\ new[j] = open[j]
        BY <2>5, <3>1, <3>2 DEF Ascends
      <3>3. CASE new[j] = e
        BY <2>4, <3>1, <3>3
      <3>4. QED
        BY <2>3, <3>2, <3>3
    <2>6. \A x : Shows(new, x) <=> Shows(open, x) \/ x = e
      BY <2>2, <2>3 DEF Shows
    <2>7. ASSUME NEW x, UnclosedIn(stream, n - 1, x) PROVE UnclosedIn(stream, n, x)
      <3>1. PICK p \in 1..(n - 1) : /\ x = stream[p] /\ x.opens
                                    /\ \A q \in 1..(n - 1) : ~stream[q].opens => stream[q].frame # x.frame
        BY <2>7 DEF UnclosedIn
      <3>2. \A q \in 1..n : ~stream[q].opens => stream[q].frame # x.frame
        BY <1>1, <1>3, <1>6, <3>1
      <3>3. QED
        BY <1>3, <3>1, <3>2 DEF UnclosedIn
    <2>8. UnclosedIn(stream, n, e)
      <3>1. ASSUME NEW q \in 1..n, ~stream[q].opens PROVE stream[q].frame # e.frame
        <4>1. q \in 1..(n - 1) /\ q \in 1..Len(stream)
          BY <1>1, <1>3, <1>6, <3>1
        <4>2. stream[q].frame < stream[q].ticks /\ e.frame = e.ticks
          BY <1>1, <1>6, <3>1, <4>1 DEF Nested
        <4>3. QED
          BY <1>1, <1>3, <1>4, <4>1, <4>2
      <3>2. QED
        BY <1>1, <1>3, <1>6, <3>1 DEF UnclosedIn
    <2>9. ASSUME NEW x, UnclosedIn(stream, n, x) PROVE UnclosedIn(stream, n - 1, x) \/ x = e
      <3>1. PICK p \in 1..n : /\ x = stream[p] /\ x.opens
                              /\ \A q \in 1..n : ~stream[q].opens => stream[q].frame # x.frame
        BY <2>9 DEF UnclosedIn
      <3>2. \A q \in 1..(n - 1) : ~stream[q].opens => stream[q].frame # x.frame
        BY <1>3, <3>1
      <3>3. QED
        BY <1>1, <1>3, <3>1, <3>2 DEF UnclosedIn
    <2>10. Ascends(new)
      BY <2>5 DEF Ascends
    <2>11. QED
      BY <1>1, <1>2, <2>6, <2>7, <2>8, <2>9, <2>10
  <1>7. ASSUME ~e.opens, NEW x
        PROVE  UnclosedIn(stream, n, x) <=> UnclosedIn(stream, n - 1, x) /\ x.frame # e.frame
    <2>1. ASSUME UnclosedIn(stream, n, x) PROVE UnclosedIn(stream, n - 1, x) /\ x.frame # e.frame
      <3>1. PICK p \in 1..n : /\ x = stream[p] /\ x.opens
                              /\ \A q \in 1..n : ~stream[q].opens => stream[q].frame # x.frame
        BY <2>1 DEF UnclosedIn
      <3>2. p \in 1..(n - 1)
        BY <1>1, <1>3, <1>7, <3>1
      <3>3. \A q \in 1..(n - 1) : ~stream[q].opens => stream[q].frame # x.frame
        BY <1>3, <3>1
      <3>4. e.frame # x.frame
        BY <1>1, <1>3, <1>7, <3>1
      <3>5. QED
        BY <3>1, <3>2, <3>3, <3>4 DEF UnclosedIn
    <2>2. ASSUME UnclosedIn(stream, n - 1, x), x.frame # e.frame PROVE UnclosedIn(stream, n, x)
      <3>1. PICK p \in 1..(n - 1) : /\ x = stream[p] /\ x.opens
                                    /\ \A q \in 1..(n - 1) : ~stream[q].opens => stream[q].frame # x.frame
        BY <2>2 DEF UnclosedIn
      <3>2. \A q \in 1..n : ~stream[q].opens => stream[q].frame # x.frame
        BY <1>1, <1>3, <2>2, <3>1
      <3>3. QED
        BY <1>3, <3>1, <3>2 DEF UnclosedIn
    <2>3. QED
      BY <2>1, <2>2
  <1>8. CASE ~e.opens /\ open = <<>>
    <2>1. Len(open) = 0 /\ new = open
      BY <1>2, <1>8 DEF After
    <2>2. \A x : ~Shows(open, x)
      BY <2>1 DEF Shows
    <2>3. \A x : ~UnclosedIn(stream, n, x)
      BY <1>7, <1>8, <2>2
    <2>4. QED
      BY <1>1, <1>2, <2>1, <2>2, <2>3
  <1>9. CASE ~e.opens /\ open # <<>>
    <2>1. new = Front(open)
      BY <1>2, <1>9 DEF After
    <2>2. /\ Len(open) \in Nat \ {0} /\ Len(new) = Len(open) - 1
          /\ \A i \in 1..Len(new) : i \in 1..Len(open) /\ i < Len(open) /\ new[i] = open[i]
      BY <1>9, <2>1, LastOff
    <2>3. PICK o : o = open[Len(open)]
      OBVIOUS
    <2>4. o.frame = e.frame
      BY <1>1, <1>9, <2>3, CloseFinds
    <2>5. Len(open) \in 1..Len(open) /\ \A i \in 1..Len(open) : i \in 1..Len(new) \/ i = Len(open)
      BY <2>2
    <2>6. Ascends(new)
      BY <2>2 DEF Ascends
    <2>7. ASSUME NEW i \in 1..Len(new) PROVE open[i].frame # e.frame
      <3>1. open[i].ticks < o.ticks /\ i \in 1..Len(open)
        BY <2>2, <2>3, <2>5 DEF Ascends
      <3>2. open[i].frame = open[i].ticks /\ o.frame = o.ticks /\ o.ticks \in Int
        BY <1>3, <1>5, <2>3, <2>5, <3>1
      <3>3. QED
        BY <2>4, <3>1, <3>2
    <2>8. \A x : Shows(new, x) <=> Shows(open, x) /\ x.frame # e.frame
      <3>1. \A x : Shows(new, x) => Shows(open, x) /\ x.frame # e.frame
        BY <2>2, <2>7 DEF Shows
      <3>2. ASSUME NEW x, Shows(open, x), x.frame # e.frame PROVE Shows(new, x)
        <4>1. PICK i \in 1..Len(open) : open[i] = x
          BY <3>2 DEF Shows
        <4>2. i \in 1..Len(new)
          BY <2>3, <2>4, <2>5, <3>2, <4>1
        <4>3. QED
          BY <2>2, <4>1, <4>2 DEF Shows
      <3>3. QED
        BY <3>1, <3>2
    <2>9. QED
      BY <1>1, <1>2, <1>7, <1>9, <2>6, <2>8
  <1>10. QED
    BY <1>6, <1>8, <1>9
\* What a slice begins with, and what stands in it of the first n events.
Begins(stream, first, x) ==
    \E p \in 1..Len(stream) :
        /\ x = stream[p] /\ x.opens /\ x.ticks < first
        /\ \A q \in 1..Len(stream) :
               ~stream[q].opens /\ stream[q].ticks < first => stream[q].frame # x.frame

Inside(stream, n, first, last, x) ==
    \E p \in 1..n :
        /\ first <= stream[p].ticks /\ stream[p].ticks <= last
        /\ x = stream[p] \/ (Orphan(stream, stream[p]) /\ x = AtHorizon(stream[p]))

\* What the replay of the first n events comes to.
ReplayedTo(stream, n, first, last, acc) ==
    /\ acc \in Replayed
    /\ ~acc.over => Ascends(acc.open) /\ \A x : Shows(acc.open, x) <=> UnclosedIn(stream, n, x)
    /\ ~acc.begun => ~acc.over /\ \A p \in 1..n : stream[p].ticks < first
    /\ acc.begun => /\ \E p \in 1..n : first <= stream[p].ticks
                    /\ \A x : Shows(acc.out, x) <=>
                                  Begins(stream, first, x) \/ Inside(stream, n, first, last, x)
    /\ acc.over => \E p \in 1..n : last < stream[p].ticks

LEMMA BeginsHere ==
  ASSUME NEW stream \in Seq(Events), NEW first \in Int, NEW last \in Int, first <= last,
         Nested(stream, last), NEW n \in 0..Len(stream), \A p \in 1..n : stream[p].ticks < first,
         n = Len(stream) \/ first <= stream[n + 1].ticks
  PROVE  \A x : /\ UnclosedIn(stream, n, x) <=> Begins(stream, first, x)
                /\ ~Inside(stream, n, first, last, x)
  <1>1. /\ Len(stream) \in Nat /\ n \in Nat /\ \A p \in 1..Len(stream) : stream[p].ticks \in Int
        /\ \A p \in 1..n : p \in 1..Len(stream)
    <2>1. \A p \in 1..Len(stream) : stream[p] \in Events
      BY ElementOfSeq
    <2>2. \A x \in Events : x.ticks \in Int
      BY HistoryAssumption DEF Events
    <2>3. Len(stream) \in Nat
      BY LenProperties
    <2>4. QED
      BY <2>1, <2>2, <2>3
  <1>2. ASSUME NEW p \in 1..Len(stream), stream[p].ticks < first PROVE p \in 1..n
    <2> SUFFICES ASSUME n < p PROVE FALSE
      BY <1>1
    <2>1. n + 1 \in 1..Len(stream) /\ (p = n + 1 \/ n + 1 < p)
      BY <1>1
    <2>2. first <= stream[n + 1].ticks
      BY <1>1, <2>1
    <2>3. stream[p].ticks <= last
      BY <1>1, <1>2
    <2>4. CASE p = n + 1
      BY <1>1, <1>2, <2>2, <2>4
    <2>5. CASE n + 1 < p
      <3>1. stream[n + 1].ticks < stream[p].ticks
        BY <2>1, <2>3, <2>5 DEF Nested
      <3>2. QED
        BY <1>1, <1>2, <2>1, <2>2, <3>1
    <2>6. QED
      BY <2>1, <2>4, <2>5
  <1>3. ASSUME NEW x, UnclosedIn(stream, n, x) PROVE Begins(stream, first, x)
    <2>1. PICK p \in 1..n : /\ x = stream[p] /\ x.opens
                            /\ \A q \in 1..n : ~stream[q].opens => stream[q].frame # x.frame
      BY <1>3 DEF UnclosedIn
    <2>2. p \in 1..Len(stream) /\ x.ticks < first
      BY <1>1, <2>1
    <2>3. QED
      BY <1>2, <2>1, <2>2 DEF Begins
  <1>4. ASSUME NEW x, Begins(stream, first, x) PROVE UnclosedIn(stream, n, x)
    <2>1. PICK p \in 1..Len(stream) :
              /\ x = stream[p] /\ x.opens /\ x.ticks < first
              /\ \A q \in 1..Len(stream) :
                     ~stream[q].opens /\ stream[q].ticks < first => stream[q].frame # x.frame
      BY <1>4 DEF Begins
    <2>2. p \in 1..n
      BY <1>2, <2>1
    <2>3. \A q \in 1..n : ~stream[q].opens => stream[q].frame # x.frame
      BY <1>1, <2>1
    <2>4. QED
      BY <2>1, <2>2, <2>3 DEF UnclosedIn
  <1>5. ASSUME NEW x, Inside(stream, n, first, last, x) PROVE FALSE
    <2>1. PICK p \in 1..n : first <= stream[p].ticks
      BY <1>5 DEF Inside
    <2>2. stream[p].ticks < first /\ stream[p].ticks \in Int
      BY <1>1
    <2>3. QED
      BY <2>1, <2>2
  <1>6. QED
    BY <1>3, <1>4, <1>5

LEMMA ReplayOneExact ==
  ASSUME NEW stream \in Seq(Events), NEW first \in Int, NEW last \in Int, first <= last,
         horizon \in 0..MaxTicks, Nested(stream, last), NEW n \in 1..Len(stream), NEW acc,
         ReplayedTo(stream, n - 1, first, last, acc)
  PROVE  ReplayedTo(stream, n, first, last, ReplayOne(first, last, acc, stream[n]))
  <1>1. PICK e \in Events : e = stream[n]
    BY ElementOfSeq
  <1>2. PICK next : next = ReplayOne(first, last, acc, e)
    OBVIOUS
  <1>3. PICK shown, made : /\ shown = (IF acc.begun THEN acc.out ELSE acc.open)
                           /\ made = MadeUp(acc.open, e)
    OBVIOUS
  <1>4. PICK added : added = shown \o made \o <<e>>
    OBVIOUS
  <1>5. /\ Len(stream) \in Nat /\ e.ticks \in Int
        /\ \A p \in 1..Len(stream) : stream[p].ticks \in Int
        /\ \A p \in 1..(n - 1) : p \in 1..Len(stream) /\ p \in 1..n /\ p < n
        /\ \A p \in 1..n : p \in 1..(n - 1) \/ p = n
        /\ n \in 1..n /\ n - 1 \in 0..Len(stream) /\ (n - 1) + 1 = n
    <2>1. \A p \in 1..Len(stream) : stream[p] \in Events
      BY ElementOfSeq
    <2>2. \A x \in Events : x.ticks \in Int
      BY HistoryAssumption DEF Events
    <2>3. Len(stream) \in Nat
      BY LenProperties
    <2>4. QED
      BY <1>1, <2>1, <2>2, <2>3
  <1>6. acc \in Replayed /\ next \in Replayed /\ acc.open \in Seq(Shown) /\ shown \in Seq(Shown)
        /\ acc.begun \in BOOLEAN /\ acc.over \in BOOLEAN
    BY <1>2, <1>3, ReplayOneTypes DEF ReplayedTo, Replayed
  <1>7. made \in Seq(Shown) /\ <<e>> \in Seq(Shown)
    BY <1>3, <1>6, AfterTypes
  <1>8. next = IF e.ticks < first THEN [acc EXCEPT !.open = After(acc.open, e)]
               ELSE IF acc.over \/ e.ticks > last
                    THEN [acc EXCEPT !.out = shown, !.begun = TRUE, !.over = TRUE]
                    ELSE [acc EXCEPT !.out = added, !.open = After(acc.open, e), !.begun = TRUE]
    BY <1>2, <1>3, <1>4 DEF ReplayOne
  <1>9. ASSUME e.ticks <= last, NEW p \in 1..(n - 1) PROVE stream[p].ticks < e.ticks /\ stream[p].ticks \in Int
    BY <1>1, <1>5, <1>9 DEF Nested
  <1>10. e.ticks <= last => ~acc.over
    <2> SUFFICES ASSUME e.ticks <= last, acc.over PROVE FALSE
      OBVIOUS
    <2>1. PICK p \in 1..(n - 1) : last < stream[p].ticks
      BY DEF ReplayedTo
    <2>2. stream[p].ticks < e.ticks /\ stream[p].ticks \in Int
      BY <1>9
    <2>3. QED
      BY <1>5, <2>1, <2>2
  <1>11. e.ticks <= last =>
             /\ Ascends(After(acc.open, e))
             /\ \A x : Shows(After(acc.open, e), x) <=> UnclosedIn(stream, n, x)
    BY <1>1, <1>6, <1>10, AfterExact DEF ReplayedTo
  \* What is shown before the event.
  <1>12. first <= e.ticks =>
             \A x : Shows(shown, x) <=> Begins(stream, first, x) \/ Inside(stream, n - 1, first, last, x)
    <2> SUFFICES ASSUME first <= e.ticks
                 PROVE  \A x : Shows(shown, x) <=>
                                   Begins(stream, first, x) \/ Inside(stream, n - 1, first, last, x)
      OBVIOUS
    <2>1. CASE acc.begun
      BY <1>3, <2>1 DEF ReplayedTo
    <2>2. CASE ~acc.begun
      <3>1. /\ shown = acc.open
            /\ \A x : Shows(acc.open, x) <=> UnclosedIn(stream, n - 1, x)
            /\ \A p \in 1..(n - 1) : stream[p].ticks < first
        BY <1>3, <2>2 DEF ReplayedTo
      <3>2. \A x : /\ UnclosedIn(stream, n - 1, x) <=> Begins(stream, first, x)
                   /\ ~Inside(stream, n - 1, first, last, x)
        BY <1>1, <1>5, <3>1, BeginsHere
      <3>3. QED
        BY <3>1, <3>2
    <2>3. QED
      BY <2>1, <2>2
  <1>13. CASE e.ticks < first
    <2>1. next.open = After(acc.open, e) /\ next.out = acc.out /\ next.begun = acc.begun /\ next.over = acc.over
      BY <1>6, <1>8, <1>13 DEF Replayed
    <2>2. e.ticks <= last
      BY <1>5, <1>13
    <2>3. ~acc.begun
      <3> SUFFICES ASSUME acc.begun PROVE FALSE
        OBVIOUS
      <3>1. PICK p \in 1..(n - 1) : first <= stream[p].ticks
        BY DEF ReplayedTo
      <3>2. stream[p].ticks < e.ticks /\ stream[p].ticks \in Int
        BY <1>9, <2>2
      <3>3. QED
        BY <1>5, <1>13, <3>1, <3>2
    <2>4. ~acc.over /\ \A p \in 1..(n - 1) : stream[p].ticks < first
      BY <2>3 DEF ReplayedTo
    <2>5. \A p \in 1..n : stream[p].ticks < first
      BY <1>1, <1>5, <1>13, <2>4
    <2>6. QED
      BY <1>1, <1>2, <1>6, <1>11, <2>1, <2>2, <2>3, <2>4, <2>5 DEF ReplayedTo
  <1>14. CASE ~(e.ticks < first) /\ (acc.over \/ e.ticks > last)
    <2>1. next.out = shown /\ next.begun = TRUE /\ next.over = TRUE
      BY <1>6, <1>8, <1>14 DEF Replayed
    <2>2. first <= e.ticks /\ ~(e.ticks <= last) /\ last < e.ticks
      BY <1>5, <1>10, <1>14
    <2>3. \A x : Inside(stream, n - 1, first, last, x) <=> Inside(stream, n, first, last, x)
      <3>1. \A x : Inside(stream, n - 1, first, last, x) => Inside(stream, n, first, last, x)
        BY <1>5 DEF Inside
      <3>2. \A x : Inside(stream, n, first, last, x) => Inside(stream, n - 1, first, last, x)
        BY <1>1, <1>5, <2>2 DEF Inside
      <3>3. QED
        BY <3>1, <3>2
    <2>4. \A x : Shows(next.out, x) <=> Begins(stream, first, x) \/ Inside(stream, n, first, last, x)
      BY <1>12, <2>1, <2>2, <2>3
    <2>5. (\E p \in 1..n : first <= stream[p].ticks) /\ \E p \in 1..n : last < stream[p].ticks
      BY <1>1, <1>5, <2>2
    <2>6. QED
      BY <1>1, <1>2, <1>6, <2>1, <2>4, <2>5 DEF ReplayedTo
  <1>15. CASE ~(e.ticks < first) /\ ~(acc.over \/ e.ticks > last)
    <2>1. next.open = After(acc.open, e) /\ next.out = added /\ next.begun = TRUE /\ next.over = acc.over
      BY <1>6, <1>8, <1>15 DEF Replayed
    <2>2. first <= e.ticks /\ e.ticks <= last /\ ~acc.over
      BY <1>5, <1>15
    <2>3. \A x : Shows(made, x) <=> Orphan(stream, e) /\ x = AtHorizon(e)
      <3>1. PICK m : m = AtHorizon(e)
        OBVIOUS
      <3>2. made = IF e.opens \/ acc.open # <<>> THEN <<>> ELSE <<m>>
        BY <1>3, <3>1 DEF MadeUp, AtHorizon
      <3>3. ~e.opens => (acc.open = <<>> <=> Orphan(stream, e))
        BY <1>1, <1>6, <2>2, CloseFinds DEF ReplayedTo
      <3>4. e.opens => ~Orphan(stream, e)
        BY DEF Orphan
      <3>5. CASE Orphan(stream, e)
        <4>1. Len(made) = 1 /\ made[1] = m
          BY <3>2, <3>3, <3>4, <3>5
        <4>2. QED
          BY <3>1, <3>5, <4>1 DEF Shows
      <3>6. CASE ~Orphan(stream, e)
        <4>1. Len(made) = 0
          BY <3>2, <3>3, <3>6
        <4>2. QED
          BY <3>6, <4>1 DEF Shows
      <3>7. QED
        BY <3>5, <3>6
    <2>4. \A x : Shows(<<e>>, x) <=> x = e
      <3>1. Len(<<e>>) = 1 /\ <<e>>[1] = e
        OBVIOUS
      <3>2. QED
        BY <3>1 DEF Shows
    <2>5. \A x : Shows(added, x) <=> Shows(shown, x) \/ Shows(made, x) \/ Shows(<<e>>, x)
      <3>1. PICK begin : begin = shown \o made
        OBVIOUS
      <3>2. begin \in Seq(Shown)
        BY <1>6, <1>7, <3>1, ConcatProperties
      <3>3. \A x : Shows(begin, x) <=> Shows(shown, x) \/ Shows(made, x)
        BY <1>6, <1>7, <3>1, ShowsJoined
      <3>4. \A x : Shows(begin \o <<e>>, x) <=> Shows(begin, x) \/ Shows(<<e>>, x)
        BY <1>7, <3>2, ShowsJoined
      <3>5. QED
        BY <1>4, <3>1, <3>3, <3>4
    <2>6. \A x : Inside(stream, n, first, last, x) <=>
                     \/ Inside(stream, n - 1, first, last, x)
                     \/ x = e \/ (Orphan(stream, e) /\ x = AtHorizon(e))
      <3>1. \A x : Inside(stream, n - 1, first, last, x) => Inside(stream, n, first, last, x)
        BY <1>5 DEF Inside
      <3>2. \A x : x = e \/ (Orphan(stream, e) /\ x = AtHorizon(e)) => Inside(stream, n, first, last, x)
        BY <1>1, <1>5, <2>2 DEF Inside
      <3>3. ASSUME NEW x, Inside(stream, n, first, last, x)
            PROVE  \/ Inside(stream, n - 1, first, last, x)
                   \/ x = e \/ (Orphan(stream, e) /\ x = AtHorizon(e))
        <4>1. PICK p \in 1..n :
                  /\ first <= stream[p].ticks /\ stream[p].ticks <= last
                  /\ x = stream[p] \/ (Orphan(stream, stream[p]) /\ x = AtHorizon(stream[p]))
          BY <3>3 DEF Inside
        <4>2. QED
          BY <1>1, <1>5, <4>1 DEF Inside
      <3>4. QED
        BY <3>1, <3>2, <3>3
    <2>7. \A x : Shows(next.out, x) <=> Begins(stream, first, x) \/ Inside(stream, n, first, last, x)
      BY <1>12, <2>1, <2>2, <2>3, <2>4, <2>5, <2>6
    <2>8. \E p \in 1..n : first <= stream[p].ticks
      BY <1>1, <1>5, <2>2
    <2>9. QED
      BY <1>1, <1>2, <1>6, <1>11, <2>1, <2>2, <2>7, <2>8 DEF ReplayedTo
  <1>16. QED
    BY <1>13, <1>14, <1>15

LEMMA ReplayExact ==
  ASSUME NEW stream \in Seq(Events), NEW first \in Int, NEW last \in Int, first <= last,
         horizon \in 0..MaxTicks, Nested(stream, last)
  PROVE  \A x : Shows(Replay(stream, first, last), x) <=>
                    Begins(stream, first, x) \/ Inside(stream, Len(stream), first, last, x)
  <1>1. Len(stream) \in Nat /\ \A i \in 1..Len(stream) : stream[i] \in Events
    BY LenProperties, ElementOfSeq
  <1>2. PICK g : /\ Replays(stream, first, last, Len(stream), g)
                 /\ Replay(stream, first, last) =
                        IF g[Len(stream)].begun THEN g[Len(stream)].out ELSE g[Len(stream)].open
    BY <1>1, ReplayIsLast
  <1>3. g[0] = [open |-> <<>>, out |-> <<>>, begun |-> FALSE, over |-> FALSE]
    BY <1>1, <1>2, ReplaysUnfold
  <1>4. \A i \in 1..Len(stream) : g[i] = ReplayOne(first, last, g[i - 1], stream[i])
    BY <1>1, <1>2, ReplaysUnfold
  <1> DEFINE T == {n \in Nat : n <= Len(stream) => ReplayedTo(stream, n, first, last, g[n])}
  <1>5. 0 \in T
    <2>1. g[0] \in Replayed /\ g[0].open = <<>> /\ ~g[0].begun /\ ~g[0].over
      BY <1>3, EmptySeq DEF Replayed
    <2>2. 1..Len(<<>>) = {} /\ 1..0 = {}
      OBVIOUS
    <2>3. ReplayedTo(stream, 0, first, last, g[0])
      BY <2>1, <2>2 DEF ReplayedTo, Ascends, Shows, UnclosedIn
    <2>4. QED
      BY <2>3
  <1>6. ASSUME NEW n \in 1..Len(stream), n - 1 \in T PROVE n \in T
    <2>1. ReplayedTo(stream, n - 1, first, last, g[n - 1])
      BY <1>1, <1>6
    <2>2. ReplayedTo(stream, n, first, last, g[n])
      BY <1>4, <2>1, ReplayOneExact
    <2>3. QED
      BY <1>1, <2>2
  <1>7. Len(stream) \in T
    <2> HIDE DEF T
    <2>1. T \subseteq Nat
      BY DEF T
    <2>2. QED
      BY <1>1, <1>5, <1>6, <2>1, NatSteps
  <1>8. PICK end : end = g[Len(stream)]
    OBVIOUS
  <1>9. ReplayedTo(stream, Len(stream), first, last, end)
    BY <1>1, <1>7, <1>8
  <1>10. CASE end.begun
    BY <1>2, <1>8, <1>9, <1>10 DEF ReplayedTo
  <1>11. CASE ~end.begun
    <2>1. /\ \A x : Shows(end.open, x) <=> UnclosedIn(stream, Len(stream), x)
          /\ \A p \in 1..Len(stream) : stream[p].ticks < first
          /\ Replay(stream, first, last) = end.open
      BY <1>2, <1>8, <1>9, <1>11 DEF ReplayedTo
    <2>2. \A x : /\ UnclosedIn(stream, Len(stream), x) <=> Begins(stream, first, x)
                 /\ ~Inside(stream, Len(stream), first, last, x)
      <3>1. PICK n \in 0..Len(stream) : n = Len(stream)
        BY <1>1
      <3>2. \A x : /\ UnclosedIn(stream, n, x) <=> Begins(stream, first, x)
                   /\ ~Inside(stream, n, first, last, x)
        BY <2>1, <3>1, BeginsHere
      <3>3. QED
        BY <3>1, <3>2
    <2>3. QED
      BY <2>1, <2>2
  <1>12. QED
    BY <1>10, <1>11
\* A thread that lost no batch, whose tail was not evicted since it was read and
\* that is not in the middle of its exit.
Intact(t) == t \in Threads \ InExit /\ Whose(t) \cap lost = {} /\ ~Outlived(t)

FaithInv == DumpInv /\ Nesting /\ InnerFirst /\ StartsPast

LEMMA KeptIsLogged ==
  ASSUME NEW t \in Threads
  PROVE  Kept(t) = {e \in LogOf(t) : e.ticks \notin evicted}
  BY DEF Kept, LogOf

LEMMA IntactAtHand ==
  ASSUME DumpInv, Assembling, NEW t, Intact(t), NEW e \in Kept(t)
  PROVE  HeldIn(history, t, e) \/ HeldIn(batch[t], t, e)
  <1>1. t \in Threads /\ e.ticks \notin lost
    BY DEF Intact, Whose, Kept
  <1>2. QED
    BY <1>1, KeptAtHand

LEMMA KeptOnTheWay ==
  ASSUME DumpInv, Assembling, NEW t, Intact(t), NEW e \in Kept(t)
  PROVE  \E b \in OnTheWay : \E k \in 1..Len(b.events) : b.tid = t /\ e = b.events[k]
  <1>1. t \in Threads
    BY DEF Intact
  <1>2. history \in Seq(Batches) /\ batch[t] \in Seq(Batches)
    BY <1>1 DEF DumpInv, Types, TypeOK, ThreadTypes, RingTypes
  <1>3. /\ \A i \in 1..Len(history) : history[i] \in OnTheWay
        /\ \A i \in 1..Len(batch[t]) : batch[t][i] \in OnTheWay
    <2>1. DOMAIN history = 1..Len(history) /\ DOMAIN batch[t] = 1..Len(batch[t])
      BY <1>2, LenProperties
    <2>2. \A i \in 1..Len(history) : history[i] \in OnTheWay
      BY <2>1 DEF OnTheWay, Range
    <2>3. \A i \in 1..Len(batch[t]) : batch[t][i] \in Range(batch[t])
      BY <2>1 DEF Range
    <2>4. Range(batch[t]) \subseteq OnTheWay
      BY <1>1 DEF OnTheWay
    <2>5. QED
      BY <2>2, <2>3, <2>4
  <1>4. CASE HeldIn(history, t, e)
    BY <1>3, <1>4 DEF HeldIn
  <1>5. CASE HeldIn(batch[t], t, e)
    BY <1>3, <1>5 DEF HeldIn
  <1>6. QED
    BY <1>4, <1>5, IntactAtHand

\* What is not kept was recorded before all that is.
LEMMA KeptAreLast ==
  ASSUME DumpInv, Nesting, Assembling, NEW t, Intact(t), NEW e \in Kept(t),
         NEW x \in LogOf(t), e.ticks <= x.ticks
  PROVE  x \in Kept(t)
  <1>1. t \in Threads /\ Types
    BY DEF Intact, DumpInv
  <1>2. e \in LogOf(t)
    BY <1>1, KeptIsLogged
  <1>3. e.ticks \in Nat /\ x.ticks \in Nat
    BY <1>1, <1>2, LogTypes
  <1>4. PICK b \in OnTheWay : \E k \in 1..Len(b.events) : b.tid = t /\ e = b.events[k]
    BY KeptOnTheWay
  <1>5. x.ticks \in evicted => x.ticks < e.ticks
    BY <1>4 DEF Nesting, EvictedFirst
  <1>6. QED
    BY <1>1, <1>3, <1>5, KeptIsLogged

LEMMA StreamIsKept ==
  ASSUME DumpInv, Nesting, Assembling, NEW t, Intact(t), NEW p \in 1..Len(Stream(t))
  PROVE  Stream(t)[p] \in Kept(t)
  <1>1. t \in Threads /\ Types /\ OneTail /\ Rising
    BY DEF Intact, DumpInv
  <1>2. PICK e : e = Stream(t)[p]
    OBVIOUS
  <1>3. PICK b \in AtHand(t) : \E k \in 1..Len(b.events) : e = b.events[k]
    BY <1>1, <1>2, StreamFrom
  <1>4. PICK k \in 1..Len(b.events) : e = b.events[k]
    BY <1>3
  <1>5. b.tid = t /\ (b \in OnTheWay \/ b \in tails)
    BY DEF AtHand, OnTheWay, FreshTails
  <1>6. e \in LogOf(t)
    BY <1>4, <1>5 DEF Nesting, Logged
  <1>7. e.ticks \in Nat
    BY <1>1, <1>6, LogTypes
  <1>8. e.ticks \notin evicted
    <2>1. CASE b \in OnTheWay
      <3>1. e.ticks \in evicted => e.ticks < e.ticks
        BY <1>4, <1>5, <1>6, <2>1 DEF Nesting, EvictedFirst
      <3>2. QED
        BY <1>7, <3>1
    <2>2. CASE b \in tails
      <3>1. TicksOf(b.events) \cap evicted = {}
        BY <1>5, <2>2 DEF Intact, Outlived
      <3>2. b \in RisingTo(clock)
        BY <1>1, <2>2 DEF Rising
      <3>3. k \in DOMAIN b.events
        BY <3>2, RisingBatch, LenProperties
      <3>4. QED
        BY <1>4, <3>1, <3>3 DEF TicksOf
    <2>3. QED
      BY <1>5, <2>1, <2>2
  <1>9. QED
    BY <1>1, <1>2, <1>6, <1>8, KeptIsLogged

LEMMA KeptInStream ==
  ASSUME DumpInv, Assembling, NEW t, Intact(t), NEW e \in Kept(t), e.ticks <= job[1].end
  PROVE  StreamHas(t, e)
  <1>1. pc = "again" /\ t \in Threads \ InExit
    BY DEF Assembling, Intact
  <1>2. HeldIn(history, t, e) \/ HeldIn(batch[t], t, e)
    BY IntactAtHand
  <1>3. QED
    BY <1>1, <1>2, FromHistory, FromBatch

LEMMA StreamNested ==
  ASSUME FaithInv, Assembling, NEW t, Intact(t)
  PROVE  Nested(Stream(t), job[1].end)
  <1>1. /\ t \in Threads /\ pc = "again"
        /\ DumpInv /\ Nesting /\ InnerFirst /\ Types /\ Rising /\ Paths /\ OneTail
    BY DEF Assembling, Intact, FaithInv, DumpInv
  <1>2. PICK stream, last : stream = Stream(t) /\ last = job[1].end
    OBVIOUS
  <1>3. /\ stream \in Seq(Events) /\ Plain(stream, last)
        /\ \A p \in 1..Len(stream) : stream[p] \in LogOf(t)
    BY <1>1, <1>2, StreamPlain
  <1>4. last \in Int /\ Len(stream) \in Nat
    BY <1>1, <1>2, <1>3, DumpSpan, LenProperties
  <1>5. ASSUME NEW p \in 1..Len(stream)
        PROVE  /\ stream[p] \in Kept(t) /\ stream[p].ticks \in Nat /\ stream[p].frame \in Int
               /\ IF stream[p].opens THEN stream[p].frame = stream[p].ticks
                  ELSE stream[p].frame < stream[p].ticks
    <2>1. stream[p] \in LogOf(t)
      BY <1>3
    <2>2. stream[p] \in Kept(t)
      BY <1>1, <1>2, StreamIsKept
    <2>3. stream[p].ticks \in Nat /\ stream[p].frame \in Int
      BY <1>1, <2>1, LogTypes
    <2>4. QED
      BY <1>1, <2>1, <2>2, <2>3 DEF Nesting, CallsNest, ClosesOnce
  <1>6. ASSUME NEW e \in Kept(t), e.ticks <= last
        PROVE  \E r \in 1..Len(stream) :
                   stream[r] = e /\ \A q \in 1..(r - 1) : stream[q].ticks < e.ticks
    BY <1>1, <1>2, <1>6, KeptInStream DEF StreamHas
  <1>7. ASSUME NEW p \in 1..Len(stream), NEW q \in 1..Len(stream), p < q, stream[q].ticks <= last
        PROVE  stream[p].ticks < stream[q].ticks
    <2>1. PICK r \in 1..Len(stream) :
              stream[r] = stream[q] /\ \A s \in 1..(r - 1) : stream[s].ticks < stream[q].ticks
      BY <1>5, <1>6, <1>7
    <2>2. r = q
      BY <1>3, <2>1 DEF Plain, Apart
    <2>3. p \in 1..(q - 1)
      BY <1>4, <1>7
    <2>4. QED
      BY <2>1, <2>2, <2>3
  \* What is kept and earlier than an event by last stands before it.
  <1>8. ASSUME NEW q \in 1..Len(stream), stream[q].ticks <= last, NEW e \in Kept(t), e.ticks < stream[q].ticks
        PROVE  \E r \in 1..(q - 1) : stream[r] = e
    <2>1. e.ticks \in Int /\ stream[q].ticks \in Int
      BY <1>1, <1>5, KeptIsLogged, LogTypes
    <2>2. e.ticks <= last
      BY <1>4, <1>8, <2>1
    <2>3. PICK r \in 1..Len(stream) : stream[r] = e
      BY <1>6, <2>2
    <2>4. ~(q < r) /\ q # r
      <3>1. q < r => stream[q].ticks < stream[r].ticks
        BY <1>7, <2>2, <2>3
      <3>2. QED
        BY <1>8, <2>1, <2>3, <3>1
    <2>5. r \in 1..(q - 1)
      BY <1>4, <2>4
    <2>6. QED
      BY <2>3, <2>5
  <1>9. ASSUME NEW q \in 1..Len(stream), NEW p \in 1..(q - 1),
               ~stream[q].opens, stream[q].ticks <= last, stream[p].opens
        PROVE  /\ stream[q].frame < stream[p].ticks =>
                      \E r \in 1..(q - 1) : ~stream[r].opens /\ stream[r].frame = stream[p].frame
               /\ stream[p].ticks < stream[q].frame =>
                      \E r \in 1..(q - 1) : stream[r].opens /\ stream[r].frame = stream[q].frame
    <2>1. p \in 1..Len(stream) /\ p < q
      BY <1>4
    <2>2. PICK o, c : o = stream[p] /\ c = stream[q]
      OBVIOUS
    <2>3. /\ o \in LogOf(t) /\ c \in LogOf(t) /\ o \in Kept(t) /\ c \in Kept(t)
          /\ o.ticks \in Nat /\ c.ticks \in Nat /\ c.frame \in Int
          /\ o.opens /\ ~c.opens /\ o.ticks < c.ticks /\ c.ticks <= last
          /\ o.frame = o.ticks /\ c.frame < c.ticks
      BY <1>3, <1>5, <1>7, <1>9, <2>1, <2>2
    <2>4. FramesHeld(t) /\ ClosedInside(t)
      BY <1>1 DEF InnerFirst
    <2>5. ASSUME c.frame < o.ticks
          PROVE  \E r \in 1..(q - 1) : ~stream[r].opens /\ stream[r].frame = o.frame
      <3>1. PICK d \in LogOf(t) : ~d.opens /\ d.frame = o.frame /\ d.ticks < c.ticks
        BY <2>3, <2>4, <2>5 DEF ClosedInside
      <3>2. d.frame < d.ticks /\ d.ticks \in Nat
        BY <1>1, <3>1, LogTypes DEF Nesting, CallsNest, ClosesOnce
      <3>3. o.ticks <= d.ticks
        BY <2>3, <3>1, <3>2
      <3>4. d \in Kept(t)
        BY <1>1, <2>3, <3>3, KeptAreLast
      <3>5. PICK r \in 1..(q - 1) : stream[r] = d
        BY <1>8, <2>2, <2>3, <3>1, <3>4
      <3>6. QED
        BY <3>1, <3>5
    <2>6. ASSUME o.ticks < c.frame
          PROVE  \E r \in 1..(q - 1) : stream[r].opens /\ stream[r].frame = c.frame
      <3>1. c.frame > 0
        BY <2>3, <2>6
      <3>2. PICK e \in LogOf(t) : e.opens /\ e.frame = c.frame
        BY <2>3, <2>4, <3>1 DEF ClosedInside
      <3>3. e.frame = e.ticks
        BY <1>1, <3>2 DEF Nesting, CallsNest, ClosesOnce
      <3>4. o.ticks <= e.ticks /\ e.ticks < c.ticks
        BY <2>3, <2>6, <3>2, <3>3
      <3>5. e \in Kept(t)
        BY <1>1, <2>3, <3>4, KeptAreLast
      <3>6. PICK r \in 1..(q - 1) : stream[r] = e
        BY <1>8, <2>2, <2>3, <3>4, <3>5
      <3>7. QED
        BY <3>2, <3>6
    <2>7. QED
      BY <2>2, <2>5, <2>6
  <1>10. \A p, q \in 1..Len(stream) :
             ~stream[p].opens /\ ~stream[q].opens /\ stream[p].frame = stream[q].frame => p = q
    BY <1>3 DEF Plain
  <1>11. Nested(stream, last)
    BY <1>5, <1>7, <1>9, <1>10 DEF Nested
  <1>12. QED
    BY <1>2, <1>11
LEMMA SpanRuns ==
  ASSUME Types, StartsPast, pc = "again"
  PROVE  First(job[1]) \in Int /\ job[1].end \in Int /\ First(job[1]) <= job[1].end
  <1>1. First(job[1]) \in Int /\ job[1].end \in Int
    BY DumpSpan
  <1>2. job[1] \in Messages /\ job[1].type \in {"dump", "dumpall"}
    BY JobIsMessage DEF Types, TypeOK
  <1>3. Len(job) = 1 /\ job \in Seq(Messages)
    BY DEF Types, TypeOK, RecorderTypes, JobInHand
  <1>4. job[1] \in InHand
    BY <1>3, OneJob DEF InHand
  <1>5. CASE job[1].type = "dump"
    BY <1>1, <1>4, <1>5 DEF StartsPast, First
  <1>6. CASE job[1].type = "dumpall"
    <2>1. job[1].end \in 0..MaxTicks
      BY <1>2, <1>6 DEF Messages
    <2>2. First(job[1]) = 0
      BY <1>6 DEF First
    <2>3. QED
      BY <2>1, <2>2, HistoryAssumption
  <1>7. QED
    BY <1>1, <1>2, <1>5, <1>6

\* The replay of a stream is the slice.
LEMMA ReplayedIsSlice ==
  ASSUME FaithInv, Assembling, NEW t, Intact(t)
  PROVE  \A x : Shows(Replay(Stream(t), First(job[1]), job[1].end), x) <=> x \in Slice(t)
  <1>1. /\ t \in Threads /\ pc = "again"
        /\ DumpInv /\ Nesting /\ StartsPast /\ Types /\ Rising /\ Paths /\ OneTail
    BY DEF Assembling, Intact, FaithInv, DumpInv
  <1>2. PICK stream, first, last : stream = Stream(t) /\ first = First(job[1]) /\ last = job[1].end
    OBVIOUS
  <1>3. stream \in Seq(Events) /\ Len(stream) \in Nat
    BY <1>1, <1>2, StreamPlain, LenProperties
  <1>4. first \in Int /\ last \in Int /\ first <= last
    BY <1>1, <1>2, SpanRuns
  <1>5. Nested(stream, last)
    BY <1>2, StreamNested
  <1>6. horizon \in 0..MaxTicks
    BY <1>1 DEF Types, TypeOK, RingTypes
  <1>7. \A x : Shows(Replay(stream, first, last), x) <=>
                   Begins(stream, first, x) \/ Inside(stream, Len(stream), first, last, x)
    BY <1>3, <1>4, <1>5, <1>6, ReplayExact
  <1>8. \A p \in 1..Len(stream) : stream[p] \in Kept(t)
    BY <1>1, <1>2, StreamIsKept
  <1>9. ASSUME NEW e \in Kept(t), e.ticks <= last PROVE \E p \in 1..Len(stream) : stream[p] = e
    BY <1>1, <1>2, <1>9, KeptInStream DEF StreamHas
  <1>10. ASSUME NEW e \in Kept(t)
         PROVE  /\ e.ticks \in Int /\ e.frame \in Int
                /\ IF e.opens THEN e.frame = e.ticks ELSE e.frame < e.ticks
    <2>1. e \in LogOf(t)
      BY <1>1, KeptIsLogged
    <2>2. QED
      BY <1>1, <2>1, LogTypes DEF Nesting, CallsNest, ClosesOnce
  <1>11. PICK before, within, orphans :
             /\ before = {e \in Kept(t) : e.ticks < first}
             /\ within = {e \in Kept(t) : first <= e.ticks /\ e.ticks <= last}
             /\ orphans = {c \in within : ~c.opens /\ ~ \E e \in Kept(t) : e.opens /\ e.frame = c.frame}
    OBVIOUS
  <1>12. Slice(t) = {e \in before : e.opens /\ ~Closed(e, before)} \cup within
                        \cup {AtHorizon(c) : c \in orphans}
    <2>1. within = {e \in Kept(t) : Within(e)}
      BY <1>2, <1>11 DEF Within
    <2>2. QED
      BY <1>2, <1>11, <2>1 DEF Slice, AtHorizon
  <1>13. ASSUME NEW x PROVE Begins(stream, first, x) <=> x \in before /\ x.opens /\ ~Closed(x, before)
    <2>1. ASSUME Begins(stream, first, x) PROVE x \in before /\ x.opens /\ ~Closed(x, before)
      <3>1. PICK p \in 1..Len(stream) :
                /\ x = stream[p] /\ x.opens /\ x.ticks < first
                /\ \A q \in 1..Len(stream) :
                       ~stream[q].opens /\ stream[q].ticks < first => stream[q].frame # x.frame
        BY <2>1 DEF Begins
      <3>2. x \in before
        BY <1>8, <1>11, <3>1
      <3>3. ASSUME NEW c \in before, ~c.opens PROVE c.frame # x.frame
        <4>1. c \in Kept(t) /\ c.ticks < first
          BY <1>11
        <4>2. c.ticks <= last
          BY <1>4, <1>10, <4>1
        <4>3. PICK q \in 1..Len(stream) : stream[q] = c
          BY <1>9, <4>1, <4>2
        <4>4. QED
          BY <3>1, <3>3, <4>1, <4>3
      <3>4. QED
        BY <3>1, <3>2, <3>3 DEF Closed
    <2>2. ASSUME x \in before, x.opens, ~Closed(x, before) PROVE Begins(stream, first, x)
      <3>1. x \in Kept(t) /\ x.ticks < first
        BY <1>11, <2>2
      <3>2. x.ticks <= last
        BY <1>4, <1>10, <3>1
      <3>3. PICK p \in 1..Len(stream) : stream[p] = x
        BY <1>9, <3>1, <3>2
      <3>4. \A q \in 1..Len(stream) : ~stream[q].opens /\ stream[q].ticks < first => stream[q].frame # x.frame
        BY <1>8, <1>11, <2>2 DEF Closed
      <3>5. QED
        BY <2>2, <3>1, <3>3, <3>4 DEF Begins
    <2>3. QED
      BY <2>1, <2>2
  <1>14. ASSUME NEW c \in within PROVE Orphan(stream, c) <=> c \in orphans
    <2>1. c \in Kept(t) /\ c.ticks <= last
      BY <1>11
    <2>2. ASSUME Orphan(stream, c), NEW e \in Kept(t), e.opens PROVE e.frame # c.frame
      <3> SUFFICES ASSUME e.frame = c.frame PROVE FALSE
        OBVIOUS
      <3>1. ~c.opens
        BY <2>2 DEF Orphan
      <3>2. e.frame = e.ticks /\ c.frame < c.ticks /\ e.ticks \in Int /\ c.ticks \in Int
        BY <1>10, <2>1, <2>2, <3>1
      <3>3. e.ticks <= last
        BY <1>4, <2>1, <3>2
      <3>4. PICK p \in 1..Len(stream) : stream[p] = e
        BY <1>9, <3>3
      <3>5. QED
        BY <2>2, <3>4 DEF Orphan
    <2>3. Orphan(stream, c) => c \in orphans
      BY <1>11, <2>2 DEF Orphan
    <2>4. c \in orphans => Orphan(stream, c)
      BY <1>8, <1>11 DEF Orphan
    <2>5. QED
      BY <2>3, <2>4
  <1>15. ASSUME NEW x
         PROVE  Inside(stream, Len(stream), first, last, x) <=>
                    x \in within \/ \E c \in orphans : x = AtHorizon(c)
    <2>1. ASSUME Inside(stream, Len(stream), first, last, x)
          PROVE  x \in within \/ \E c \in orphans : x = AtHorizon(c)
      <3>1. PICK p \in 1..Len(stream) :
                /\ first <= stream[p].ticks /\ stream[p].ticks <= last
                /\ x = stream[p] \/ (Orphan(stream, stream[p]) /\ x = AtHorizon(stream[p]))
        BY <2>1 DEF Inside
      <3>2. stream[p] \in within
        BY <1>8, <1>11, <3>1
      <3>3. QED
        BY <1>14, <3>1, <3>2
    <2>2. ASSUME NEW c \in within
          PROVE  \E p \in 1..Len(stream) :
                     stream[p] = c /\ first <= stream[p].ticks /\ stream[p].ticks <= last
      <3>1. c \in Kept(t) /\ first <= c.ticks /\ c.ticks <= last
        BY <1>11
      <3>2. PICK p \in 1..Len(stream) : stream[p] = c
        BY <1>9, <3>1
      <3>3. QED
        BY <3>1, <3>2
    <2>3. x \in within => Inside(stream, Len(stream), first, last, x)
      BY <2>2 DEF Inside
    <2>4. ASSUME NEW c \in orphans, x = AtHorizon(c) PROVE Inside(stream, Len(stream), first, last, x)
      <3>1. c \in within
        BY <1>11
      <3>2. Orphan(stream, c)
        BY <1>14, <3>1
      <3>3. PICK p \in 1..Len(stream) : stream[p] = c /\ first <= stream[p].ticks /\ stream[p].ticks <= last
        BY <2>2, <3>1
      <3>4. QED
        BY <2>4, <3>2, <3>3 DEF Inside
    <2>5. QED
      BY <2>1, <2>3, <2>4
  <1>16. ASSUME NEW x
         PROVE  x \in Slice(t) <=> \/ x \in before /\ x.opens /\ ~Closed(x, before)
                                   \/ x \in within \/ \E c \in orphans : x = AtHorizon(c)
    BY <1>12
  <1>17. \A x : Shows(Replay(stream, first, last), x) <=> x \in Slice(t)
    BY <1>7, <1>13, <1>15, <1>16
  <1>18. QED
    BY <1>2, <1>17

LEMMA AssembledExactly == FaithInv => DumpIsFaithful
  <1> SUFFICES ASSUME FaithInv, Assembling, NEW t \in Threads \ InExit,
                      Whose(t) \cap lost = {}, ~Outlived(t)
               PROVE  /\ {Dumped(t)[i] : i \in DOMAIN Dumped(t)} = Slice(t)
                      /\ Len(Dumped(t)) = Cardinality(Slice(t))
                      /\ \A i, j \in DOMAIN Dumped(t) : i < j => Dumped(t)[i].ticks <= Dumped(t)[j].ticks
    BY DEF DumpIsFaithful
  <1>1. /\ Intact(t) /\ pc = "again"
        /\ Types /\ Rising /\ Paths /\ OneTail /\ Nesting /\ StartsPast
    BY DEF Intact, Assembling, FaithInv, DumpInv
  <1>2. PICK stream, first, last : stream = Stream(t) /\ first = First(job[1]) /\ last = job[1].end
    OBVIOUS
  <1>3. first \in Int /\ last \in Int
    BY <1>1, <1>2, SpanRuns
  <1>4. stream \in Seq(Events) /\ Plain(stream, last) /\ horizon \in 0..MaxTicks
    BY <1>1, <1>2, StreamPlain DEF Types, TypeOK, RingTypes
  <1>5. PICK shown : shown = Replay(stream, first, last)
    OBVIOUS
  <1>6. shown \in Seq(Shown) /\ Apart(shown)
    BY <1>3, <1>4, <1>5, ReplayFrom
  <1>7. \A x : Shows(shown, x) <=> x \in Slice(t)
    BY <1>1, <1>2, <1>5, ReplayedIsSlice
  <1>8. PICK sorted : sorted = Dumped(t)
    OBVIOUS
  <1>9. sorted = SortedByTicks(shown)
    BY <1>2, <1>5, <1>8 DEF Dumped
  <1>10. PICK f \in Bijection(DOMAIN shown, DOMAIN shown) :
             /\ sorted = [n \in DOMAIN shown |-> shown[f[n]]]
             /\ \A n, m \in DOMAIN shown : n < m => shown[f[n]].ticks <= shown[f[m]].ticks
    BY <1>6, <1>9, SortPermutes
  <1>11. DOMAIN shown = 1..Len(shown) /\ Len(shown) \in Nat /\ DOMAIN sorted = DOMAIN shown
    BY <1>6, <1>10, LenProperties
  <1>12. /\ \A n \in DOMAIN shown : f[n] \in DOMAIN shown /\ sorted[n] = shown[f[n]]
         /\ \A k \in DOMAIN shown : \E n \in DOMAIN shown : f[n] = k
         /\ \A n, m \in DOMAIN shown : f[n] = f[m] => n = m
    BY <1>10 DEF Bijection, Injection, Surjection, IsInjective
  <1>13. {sorted[i] : i \in DOMAIN sorted} = Slice(t)
    <2>1. \A i \in DOMAIN sorted : sorted[i] \in Slice(t)
      BY <1>7, <1>11, <1>12 DEF Shows
    <2>2. ASSUME NEW x \in Slice(t) PROVE \E i \in DOMAIN sorted : sorted[i] = x
      <3>1. PICK k \in DOMAIN shown : shown[k] = x
        BY <1>7, <1>11 DEF Shows
      <3>2. PICK n \in DOMAIN shown : f[n] = k
        BY <1>12
      <3>3. QED
        BY <1>11, <1>12, <3>1, <3>2
    <2>3. QED
      BY <2>1, <2>2
  <1>14. Len(sorted) = Len(shown)
    BY <1>10, <1>11
  <1>15. Len(shown) = Cardinality(Slice(t))
    <2>1. IsFiniteSet(1..Len(shown)) /\ Cardinality(1..Len(shown)) = Len(shown)
      <3>1. IsFiniteSet(1..Len(shown))
            /\ Cardinality(1..Len(shown)) = IF 1 > Len(shown) THEN 0 ELSE Len(shown) - 1 + 1
        BY <1>11, FS_Interval
      <3>2. \A l \in Nat : (IF 1 > l THEN 0 ELSE l - 1 + 1) = l
        OBVIOUS
      <3>3. QED
        BY <1>11, <3>1, <3>2
    <2>2. sorted \in [1..Len(shown) -> Slice(t)]
      <3>1. sorted = [n \in 1..Len(shown) |-> sorted[n]]
        BY <1>10, <1>11
      <3>2. \A n \in 1..Len(shown) : sorted[n] \in Slice(t)
        BY <1>11, <1>13
      <3>3. QED
        BY <3>1, <3>2
    <2>3. ASSUME NEW n \in 1..Len(shown), NEW m \in 1..Len(shown), sorted[n] = sorted[m] PROVE n = m
      <3>1. shown[f[n]] = shown[f[m]] /\ f[n] \in 1..Len(shown) /\ f[m] \in 1..Len(shown)
        BY <1>11, <1>12, <2>3
      <3>2. f[n] = f[m]
        BY <1>6, <3>1 DEF Apart
      <3>3. QED
        BY <1>11, <1>12, <3>2
    <2>4. \A x \in Slice(t) : \E n \in 1..Len(shown) : sorted[n] = x
      BY <1>11, <1>13
    <2>5. sorted \in Bijection(1..Len(shown), Slice(t))
      BY <2>2, <2>3, <2>4 DEF Bijection, Injection, Surjection, IsInjective
    <2>6. ExistsBijection(1..Len(shown), Slice(t))
      BY <2>5 DEF ExistsBijection
    <2>7. QED
      BY <2>1, <2>6, FS_Bijection
  <1>16. \A i, j \in DOMAIN sorted : i < j => sorted[i].ticks <= sorted[j].ticks
    BY <1>10, <1>11, <1>12
  <1>17. QED
    BY <1>8, <1>13, <1>14, <1>15, <1>16
LEMMA FaithInit == Init => InnerFirst /\ StartsPast
  <1> USE HistoryAssumption
  <1> SUFFICES ASSUME Init PROVE InnerFirst /\ StartsPast
    OBVIOUS
  <1>1. ASSUME NEW t \in Threads PROVE LogOf(t) = {}
    <2>1. Len(log[t]) = 0 /\ DOMAIN log[t] = {}
      BY DEF Init
    <2>2. QED
      BY <2>1 DEF LogOf
  <1>2. ASSUME NEW t \in Threads, NEW f \in 1..MaxTicks PROVE ~Shows(stack[t], f)
    <2>1. stack[t] = (IF t \in Began THEN [i \in 1..Before |-> -i] ELSE <<>>)
      BY DEF Init
    <2>2. CASE t \in Began
      <3>1. PICK s : s = [i \in 1..Before |-> -i]
        OBVIOUS
      <3>2. s \in [1..Before -> Int]
        BY <3>1
      <3>3. s \in Seq(Int) /\ Len(s) = Before
        BY <3>2
      <3>4. stack[t] = s /\ \A i \in 1..Before : s[i] = -i
        BY <2>1, <2>2, <3>1
      <3>5. \A i \in 1..Before : -i # f
        OBVIOUS
      <3>6. QED
        BY <3>3, <3>4, <3>5 DEF Shows
    <2>3. CASE t \notin Began
      <3>1. stack[t] = <<>>
        BY <2>1, <2>3
      <3>2. Len(stack[t]) = 0
        BY <3>1
      <3>3. QED
        BY <3>2 DEF Shows
    <2>4. QED
      BY <2>2, <2>3
  <1>3. InnerFirst
    BY <1>1, <1>2 DEF InnerFirst, FramesHeld, ClosedInside
  <1>4. StartsPast
    <2>1. control = <<>> /\ job = <<>> /\ clock = 0 /\ \A w \in Windows : start[w] = 0
      BY DEF Init
    <2>2. InHand = {}
      BY <2>1, JobRange DEF InHand
    <2>3. QED
      BY <2>1, <2>2 DEF StartsPast
  <1>5. QED
    BY <1>3, <1>4

\* A dump of a thread that lost no batch is exactly the slice of what is kept of
\* it: the frames open at the window's start, the events inside, and an open at the
\* horizon for each close whose open is gone, each once and in order (assemble and
\* replay in snapshot.rs).  The replay's stack holds the frames still open because
\* calls close from the inside and what is evicted is older than what is kept.
THEOREM DumpsAreFaithful == Spec => []DumpIsFaithful
  <1>1. Spec => [](InnerFirst /\ StartsPast)
    BY NestingHolds, FaithInit, InnerFirstNext, StartsPastNext, TypesHold, PTL DEF Spec, Nesting
  <1>2. Spec => []FaithInv
    BY <1>1, DumpInvHolds, NestingHolds, PTL DEF FaithInv
  <1>3. QED
    BY <1>2, AssembledExactly, PTL

=============================================================================
