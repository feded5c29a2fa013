--------------------------- MODULE PipelineProofs ---------------------------
(***************************************************************************)
(* What is proved of Pipeline, for every number of threads and every size: *)
(* its types and bounds, the order of events, what becomes of each event,  *)
(* the count of losses, and that it implements LossyLog.                   *)
(***************************************************************************)
EXTENDS PipelineMC, SequenceLemmas, FiniteSetTheorems

IInv == TypeOK /\ DrainFits /\ CallbacksFit

---------------------------------------------------------------------------
(* The helpers that several actions share.                                  *)

LEMMA WriteSlotTypes ==
  ASSUME ThreadTypes, CallbacksFit, NEW t \in Threads, callback[t] # "idle",
         NEW before \in Seq(1..MaxEvents), Len(before) < BatchN, WriteSlot(t, before)
  PROVE  /\ batch' \in [Threads -> Seq(1..MaxEvents)]
         /\ \A s \in Threads : Len(batch'[s]) <= BatchN
         /\ recorded' \in [Threads -> 0..MaxEvents]
         /\ callback' \in [Threads -> {"idle", "entered", "registering"}]
  <1> USE EventsAssumption, SizesAssumption DEF ThreadTypes
  <1>1. recorded[t] + 1 \in 1..MaxEvents
    BY DEF CallbacksFit
  <1>2. /\ Append(before, recorded[t] + 1) \in Seq(1..MaxEvents)
        /\ Len(Append(before, recorded[t] + 1)) = Len(before) + 1
    BY <1>1, AppendProperties
  <1>3. Len(before) \in Nat
    BY LenProperties
  <1>4. batch' = [batch EXCEPT ![t] = Append(before, recorded[t] + 1)]
    BY DEF WriteSlot
  <1>5. batch' \in [Threads -> Seq(1..MaxEvents)]
    BY <1>2, <1>4
  <1>6. \A s \in Threads : Len(batch'[s]) <= BatchN
    BY <1>2, <1>3, <1>4
  <1>7. recorded' \in [Threads -> 0..MaxEvents]
    BY <1>1 DEF WriteSlot
  <1>8. callback' \in [Threads -> {"idle", "entered", "registering"}]
    BY DEF WriteSlot
  <1>9. QED
    BY <1>5, <1>6, <1>7, <1>8

LEMMA ShipTypes ==
  ASSUME ThreadTypes, QueueTypes, NEW t \in Threads, Ship(t)
  PROVE  /\ rings' \in [Threads -> Seq(Batches)]
         /\ \A s \in Threads : Len(rings'[s]) <= BatchesCapacity
         /\ lost' \in SUBSET Events
  <1> DEFINE full == [tid |-> t, events |-> batch[t]]
  <1> USE SizesAssumption DEF ThreadTypes, QueueTypes
  <1>1. full \in Batches
    BY DEF Batches
  <1>2. /\ Append(rings[t], full) \in Seq(Batches)
        /\ Len(Append(rings[t], full)) = Len(rings[t]) + 1
    BY <1>1, AppendProperties
  <1>3. EventsOf(full) \subseteq Events
    <2>1. \A i \in DOMAIN batch[t] : batch[t][i] \in 1..MaxEvents
      <3>1. batch[t] \in Seq(1..MaxEvents)
        OBVIOUS
      <3>2. batch[t] \in [1..Len(batch[t]) -> 1..MaxEvents]
        BY <3>1, LenProperties
      <3>3. QED
        BY <3>2
    <2>2. QED
      BY <2>1 DEF EventsOf, Events
  <1>4. CASE RingHasRoom(t)
    <2>1. rings' = [rings EXCEPT ![t] = Append(@, full)] /\ lost' = lost
      BY <1>4 DEF Ship
    <2>2. Len(rings[t]) \in Nat /\ Len(rings[t]) < BatchesCapacity
      BY <1>4, LenProperties DEF RingHasRoom
    <2>3. \A s \in Threads : Len(rings'[s]) <= BatchesCapacity
      BY <1>2, <2>1, <2>2
    <2>4. QED
      BY <1>2, <2>1, <2>3
  <1>5. CASE ~RingHasRoom(t)
    <2>1. rings' = rings /\ lost' = lost \cup EventsOf(full)
      BY <1>5 DEF Ship
    <2>2. QED
      BY <1>3, <2>1
  <1>6. QED
    BY <1>4, <1>5

LEMMA RejectedType ==
  ASSUME ThreadTypes, NEW t \in Threads
  PROVE  Rejected(t) \in Nat
  BY LenProperties DEF ThreadTypes, Rejected

LEMMA FlushPartialTypes ==
  ASSUME ThreadTypes, QueueTypes, NEW t \in Threads, FlushPartial(t)
  PROVE  /\ batch' \in [Threads -> Seq(1..MaxEvents)]
         /\ \A s \in Threads : Len(batch'[s]) <= BatchN
         /\ rings' \in [Threads -> Seq(Batches)]
         /\ \A s \in Threads : Len(rings'[s]) <= BatchesCapacity
         /\ lost' \in SUBSET Events
  <1>1. batch' = [batch EXCEPT ![t] = <<>>]
    BY DEF FlushPartial
  <1>2. /\ batch' \in [Threads -> Seq(1..MaxEvents)]
        /\ \A s \in Threads : Len(batch'[s]) <= BatchN
    BY <1>1, EmptySeq, SizesAssumption DEF ThreadTypes
  <1>3. CASE batch[t] = <<>>
    BY <1>2, <1>3 DEF FlushPartial, QueueTypes
  <1>4. CASE batch[t] # <<>>
    BY <1>2, <1>4, ShipTypes DEF FlushPartial
  <1>5. QED
    BY <1>3, <1>4

LEMMA DrainUpdate ==
  ASSUME NEW d \in DrainCalls
  PROVE  /\ d.start \in Nat /\ d.i \in Nat /\ d.limit \in 0..FaninBatches
         /\ [d EXCEPT !.on = FALSE] \in DrainCalls
         /\ [d EXCEPT !.i = @ + 1] \in DrainCalls
  <1>1. d.start \in Nat /\ d.i \in Nat /\ d.limit \in 0..FaninBatches
    BY DEF DrainCalls
  <1>2. [d EXCEPT !.on = FALSE] \in DrainCalls
    BY DEF DrainCalls
  <1>3. [d EXCEPT !.i = @ + 1] \in DrainCalls
    BY DEF DrainCalls
  <1>4. QED
    BY <1>1, <1>2, <1>3

LEMMA FlushUpdate ==
  ASSUME NEW f \in FlushCalls
  PROVE  /\ f.left \in SUBSET Threads /\ f.lost \in Nat
         /\ [f EXCEPT !.on = FALSE] \in FlushCalls
         /\ [f EXCEPT !.lost = 0] \in FlushCalls
  <1>1. f.left \in SUBSET Threads /\ f.lost \in Nat
    BY DEF FlushCalls
  <1>2. [f EXCEPT !.on = FALSE] \in FlushCalls
    BY DEF FlushCalls
  <1>3. [f EXCEPT !.lost = 0] \in FlushCalls
    BY DEF FlushCalls
  <1>4. QED
    BY <1>1, <1>2, <1>3

LEMMA FlushOneUpdate ==
  ASSUME NEW f \in FlushCalls, NEW n \in Nat, NEW t \in Threads
  PROVE  [f EXCEPT !.left = @ \ {t}, !.lost = @ + n] \in FlushCalls
  <1>1. f.left \in SUBSET Threads /\ f.lost \in Nat
    BY FlushUpdate
  <1>2. f.left \ {t} \in SUBSET Threads /\ f.lost + n \in Nat
    BY <1>1
  <1>3. QED
    BY <1>2 DEF FlushCalls

LEMMA VisitedIsThread == IInv /\ drain.on => Visited \in Threads
  <1> SUFFICES ASSUME IInv, drain.on PROVE Visited \in Threads
    OBVIOUS
  <1>1. consumers \in Seq(Threads) /\ consumers # <<>>
    BY DEF IInv, TypeOK, QueueTypes, DrainFits
  <1>2. Len(consumers) \in Nat \ {0}
    BY <1>1, EmptySeq
  <1>3. drain.start + drain.i \in Nat
    <2>1. drain \in DrainCalls
      BY DEF IInv, TypeOK, QueueTypes
    <2>2. drain.start \in Nat /\ drain.i \in Nat
      BY <2>1, DrainUpdate
    <2>3. QED
      BY <2>2
  <1>4. ((drain.start + drain.i) % Len(consumers)) + 1 \in 1..Len(consumers)
    BY <1>2, <1>3
  <1>5. QED
    BY <1>1, <1>4, ElementOfSeq DEF Visited

---------------------------------------------------------------------------
(* The initial state.                                                       *)

LEMMA InitIInv == Init => IInv
  <1> SUFFICES ASSUME Init PROVE IInv
    OBVIOUS
  <1> USE SizesAssumption, EventsAssumption, FaninAssumption
  <1>1. ThreadTypes
    BY DEF Init, QueueInit, ThreadTypes
  <1>2. QueueTypes
    <2>1. rings \in [Threads -> Seq(Batches)] /\ \A t \in Threads : Len(rings[t]) <= BatchesCapacity
      BY EmptySeq DEF Init, QueueInit
    <2>2. drain \in DrainCalls
      BY DEF Init, QueueInit, DrainCalls
    <2>3. flush \in FlushCalls
      BY DEF Init, QueueInit, FlushCalls
    <2>4. nextConsumer \in 0..(Turns - 1)
      BY TurnsAssumption DEF Init, QueueInit
    <2>5. consumers \in Seq(Threads) /\ hand \in Seq(Batches)
      BY EmptySeq DEF Init, QueueInit
    <2>6. QED
      BY <2>1, <2>2, <2>3, <2>4, <2>5 DEF Init, QueueInit, QueueTypes
  <1>3. ExporterTypes
    BY EmptySeq DEF Init, ExporterTypes
  <1>4. DrainFits /\ CallbacksFit
    BY DEF Init, QueueInit, DrainFits, CallbacksFit
  <1>5. QED
    BY <1>1, <1>2, <1>3, <1>4 DEF IInv, TypeOK

---------------------------------------------------------------------------
(* A step keeps the types.                                                  *)

LEMMA ThreadTypeOK ==
  ASSUME IInv, NEW t \in Threads, Thread(t)
  PROVE  TypeOK'
  <1> USE DEF IInv, TypeOK, ThreadTypes
  <1>0. ExporterTypes'
    BY DEF Thread, ExporterTypes
  <1>1. CASE EnterCallback(t)
    <2>1. ThreadTypes'
      BY <1>1 DEF EnterCallback
    <2>2. QueueTypes'
      BY <1>1 DEF EnterCallback, QueueTypes
    <2>3. QED
      BY <1>0, <2>1, <2>2
  <1>2. CASE PushFast(t)
    <2>1. ThreadTypes'
      BY <1>2, WriteSlotTypes DEF PushFast
    <2>2. QueueTypes'
      BY <1>2 DEF PushFast, QueueTypes
    <2>3. QED
      BY <1>0, <2>1, <2>2
  <1>3. CASE InitProducer(t)
    <2>1. ThreadTypes'
      BY <1>3 DEF InitProducer
    <2>2. Append(consumers, t) \in Seq(Threads)
      BY AppendProperties DEF QueueTypes
    <2>3. QueueTypes'
      BY <1>3, <2>2 DEF InitProducer, QueueTypes
    <2>4. QED
      BY <1>0, <2>1, <2>3
  <1>4. CASE RegisterCurrent(t)
    <2>1. <<>> \in Seq(1..MaxEvents) /\ Len(<<>>) < BatchN
      BY EmptySeq, SizesAssumption
    <2>2. ThreadTypes'
      BY <1>4, <2>1, WriteSlotTypes DEF RegisterCurrent
    <2>3. QueueTypes'
      BY <1>4 DEF RegisterCurrent, QueueTypes
    <2>4. QED
      BY <1>0, <2>2, <2>3
  <1>5. CASE ShipAndRenew(t)
    <2>1. <<>> \in Seq(1..MaxEvents) /\ Len(<<>>) < BatchN
      BY EmptySeq, SizesAssumption
    <2>2. ThreadTypes'
      BY <1>5, <2>1, WriteSlotTypes DEF ShipAndRenew
    <2>3. dropped' \in Nat
      BY <1>5, RejectedType DEF ShipAndRenew, QueueTypes
    <2>4. QueueTypes'
      BY <1>5, <2>3, ShipTypes DEF ShipAndRenew, QueueTypes
    <2>5. QED
      BY <1>0, <2>2, <2>4
  <1>6. CASE Forget(t)
    <2>1. ThreadTypes'
      BY <1>6 DEF Forget
    <2>2. QueueTypes'
      BY <1>6 DEF Forget, QueueTypes
    <2>3. QED
      BY <1>0, <2>1, <2>2
  <1>7. CASE FlushAtExit(t)
    <2>1. ThreadTypes'
      BY <1>7, FlushPartialTypes DEF FlushAtExit
    <2>2. QueueTypes'
      BY <1>7, FlushPartialTypes DEF FlushAtExit, QueueTypes
    <2>3. QED
      BY <1>0, <2>1, <2>2
  <1>8. QED
    BY <1>1, <1>2, <1>3, <1>4, <1>5, <1>6, <1>7 DEF Thread, ThreadStep

LEMMA SerializerTypeOK ==
  ASSUME IInv, Serializer
  PROVE  TypeOK'
  <1> USE DEF IInv, TypeOK
  <1>1. CASE Leave \/ NothingToDrain \/ Drained \/ CheckClosed
    <2>1. UNCHANGED queueVars
      BY <1>1 DEF Leave, NothingToDrain, Drained, CheckClosed
    <2>2. ThreadTypes' /\ QueueTypes'
      BY <2>1 DEF queueVars, producerVars, ThreadTypes, QueueTypes
    <2>3. ExporterTypes'
      BY <1>1 DEF Leave, NothingToDrain, Drained, CheckClosed, ExporterTypes
    <2>4. QED
      BY <2>2, <2>3
  <1>2. CASE StartDrain
    <2>1. Slots \in 0..FaninBatches
      BY <1>2, LenProperties, FaninAssumption DEF StartDrain, Slots, ExporterTypes
    <2>2. Len(consumers) \in Nat \ {0}
      BY <1>2, EmptySeq DEF StartDrain, QueueTypes
    <2>3. nextConsumer % Len(consumers) \in Nat
      BY <2>2, TurnsAssumption DEF QueueTypes
    <2>4. drain' \in DrainCalls
      BY <1>2, <2>1, <2>3 DEF StartDrain, BeginDrain, DrainCalls
    <2>5. nextConsumer' \in 0..(Turns - 1)
      BY <1>2, TurnsAssumption DEF StartDrain, BeginDrain, QueueTypes
    <2>6. QueueTypes'
      BY <1>2, <2>4, <2>5 DEF StartDrain, BeginDrain, QueueTypes
    <2>7. ThreadTypes' /\ ExporterTypes'
      BY <1>2 DEF StartDrain, BeginDrain, ThreadTypes, ExporterTypes
    <2>8. QED
      BY <2>6, <2>7
  <1>3. CASE DrainStep
    <2>1. Visited \in Threads
      BY <1>3, VisitedIsThread DEF DrainStep, DrainPop, DrainNext
    <2>2. drain' \in DrainCalls
      <3>1. drain \in DrainCalls
        BY DEF QueueTypes
      <3>2. QED
        BY <1>3, <3>1, DrainUpdate DEF DrainStep, DrainPop, DrainNext
    <2>3. ThreadTypes' /\ ExporterTypes'
      BY <1>3 DEF DrainStep, DrainPop, DrainNext, ThreadTypes, ExporterTypes
    <2>4. CASE DrainPop
      <3>1. rings[Visited] \in Seq(Batches) /\ rings[Visited] # <<>>
        BY <2>1, <2>4 DEF DrainPop, QueueTypes
      <3>2. /\ Head(rings[Visited]) \in Batches
            /\ Tail(rings[Visited]) \in Seq(Batches)
            /\ Len(Tail(rings[Visited])) = Len(rings[Visited]) - 1
        BY <3>1, HeadTailProperties
      <3>3. hand' \in Seq(Batches)
        BY <2>4, <3>2, AppendProperties DEF DrainPop, QueueTypes
      <3>4. rings' \in [Threads -> Seq(Batches)]
        BY <2>4, <3>2 DEF DrainPop, QueueTypes
      <3>5. Len(rings[Visited]) \in Nat
        BY <3>1, LenProperties
      <3>6. \A t \in Threads : Len(rings'[t]) <= BatchesCapacity
        BY <2>4, <2>1, <3>2, <3>5, SizesAssumption DEF DrainPop, QueueTypes
      <3>7. QueueTypes'
        BY <2>2, <2>4, <3>3, <3>4, <3>6 DEF DrainPop, QueueTypes
      <3>8. QED
        BY <2>3, <3>7
    <2>5. CASE DrainNext
      <3>1. QueueTypes'
        BY <2>2, <2>5 DEF DrainNext, QueueTypes
      <3>2. QED
        BY <2>3, <3>1
    <2>6. QED
      BY <1>3, <2>4, <2>5 DEF DrainStep
  <1>4. CASE PushFanin
    <2>1. hand \in Seq(Batches) /\ hand # <<>>
      BY <1>4 DEF PushFanin, QueueTypes, DrainFits
    <2>2. Head(hand) \in Batches /\ Tail(hand) \in Seq(Batches)
      BY <2>1, HeadTailProperties
    <2>3. fanin' \in Seq(Batches)
      BY <1>4, <2>2, AppendProperties DEF PushFanin, ExporterTypes
    <2>4. ThreadTypes'
      BY <1>4 DEF PushFanin, ThreadTypes
    <2>5. QueueTypes'
      BY <1>4, <2>2 DEF PushFanin, QueueTypes
    <2>6. ExporterTypes'
      BY <1>4, <2>3 DEF PushFanin, ExporterTypes
    <2>7. QED
      BY <2>4, <2>5, <2>6
  <1>5. QED
    BY <1>1, <1>2, <1>3, <1>4 DEF Serializer

LEMMA WriterTypeOK ==
  ASSUME IInv, Writer
  PROVE  TypeOK'
  <1> USE DEF IInv, TypeOK
  <1>1. ThreadTypes' /\ QueueTypes'
    <2>1. UNCHANGED queueVars
      BY DEF Writer, PopFanin, WriteBatch, WriteFails, RingWritten, FaninEmpty,
             IsFinished, LastPopFails, Finish
    <2>2. QED
      BY <2>1 DEF queueVars, producerVars, ThreadTypes, QueueTypes
  <1>2. CASE PopFanin
    <2>1. Head(fanin) \in Batches /\ Tail(fanin) \in Seq(Batches)
      BY <1>2, HeadTailProperties DEF PopFanin, ExporterTypes
    <2>2. ring' \in Seq(Batches)
      BY <1>2, <2>1, AppendProperties DEF PopFanin, ExporterTypes
    <2>3. ExporterTypes'
      BY <1>2, <2>1, <2>2 DEF PopFanin, ExporterTypes
    <2>4. QED
      BY <1>1, <2>3
  <1>3. CASE WriteBatch
    <2>1. Head(ring) \in Batches /\ Tail(ring) \in Seq(Batches)
      BY <1>3, HeadTailProperties DEF WriteBatch, ExporterTypes
    <2>2. exported' \in Seq(Batches)
      BY <1>3, <2>1, AppendProperties DEF WriteBatch, ExporterTypes
    <2>3. ExporterTypes'
      BY <1>3, <2>1, <2>2 DEF WriteBatch, ExporterTypes
    <2>4. QED
      BY <1>1, <2>3
  <1>4. CASE WriteFails \/ RingWritten \/ FaninEmpty \/ IsFinished \/ LastPopFails \/ Finish
    <2>1. ExporterTypes'
      BY <1>4 DEF WriteFails, RingWritten, FaninEmpty, IsFinished, LastPopFails, Finish,
                  ExporterTypes, QueueTypes
    <2>2. QED
      BY <1>1, <2>1
  <1>5. QED
    BY <1>2, <1>3, <1>4 DEF Writer

LEMMA EnderTypeOK ==
  ASSUME IInv, Ender
  PROVE  TypeOK'
  <1> USE DEF IInv, TypeOK
  <1>1. CASE Disable
    BY <1>1 DEF Disable, ThreadTypes, QueueTypes, ExporterTypes
  <1>2. CASE StartFlush
    <2>1. flush' \in FlushCalls
      BY <1>2 DEF StartFlush, BeginFlush, ThreadTypes, FlushCalls
    <2>2. ThreadTypes' /\ ExporterTypes'
      BY <1>2 DEF StartFlush, BeginFlush, ThreadTypes, ExporterTypes
    <2>3. QueueTypes'
      BY <1>2, <2>1 DEF StartFlush, BeginFlush, QueueTypes
    <2>4. QED
      BY <2>2, <2>3
  <1>3. ASSUME NEW t \in Threads, FlushOne(t)
        PROVE TypeOK'
    <2>1. flush' \in FlushCalls
      BY <1>3, RejectedType, FlushOneUpdate DEF FlushOne, FlushThread, QueueTypes
    <2>2. ThreadTypes'
      BY <1>3, FlushPartialTypes DEF FlushOne, FlushThread, ThreadTypes
    <2>3. QueueTypes'
      BY <1>3, <2>1, FlushPartialTypes DEF FlushOne, FlushThread, QueueTypes
    <2>4. ExporterTypes'
      BY <1>3 DEF FlushOne, ExporterTypes
    <2>5. QED
      BY <2>2, <2>3, <2>4
  <1>4. CASE FlushReturns
    <2>1. flush' \in FlushCalls
      BY <1>4, FlushUpdate DEF FlushReturns, EndFlush, QueueTypes
    <2>2. QED
      BY <1>4, <2>1 DEF FlushReturns, EndFlush, ThreadTypes, QueueTypes, ExporterTypes
  <1>5. CASE ChargeFlush
    <2>1. flush' \in FlushCalls /\ dropped' \in Nat
      <3>1. flush \in FlushCalls /\ dropped \in Nat
        BY DEF QueueTypes
      <3>2. flush.lost \in Nat /\ [flush EXCEPT !.lost = 0] \in FlushCalls
        BY <3>1, FlushUpdate
      <3>3. QED
        BY <1>5, <3>1, <3>2 DEF ChargeFlush, RecordDropped
    <2>2. QED
      BY <1>5, <2>1 DEF ChargeFlush, RecordDropped, ThreadTypes, QueueTypes, ExporterTypes
  <1>6. CASE CloseQueue
    BY <1>6 DEF CloseQueue, Close, ThreadTypes, QueueTypes, ExporterTypes
  <1>7. CASE Join
    BY <1>7 DEF Join, queueVars, producerVars, ThreadTypes, QueueTypes, ExporterTypes
  <1>8. QED
    BY <1>1, <1>2, <1>3, <1>4, <1>5, <1>6, <1>7 DEF Ender

---------------------------------------------------------------------------
(* A step keeps the room the serializer has counted on.                     *)

LEMMA NextCallbacksFit ==
  ASSUME IInv, [Next]_vars
  PROVE  CallbacksFit'
  <1> USE DEF IInv, TypeOK, ThreadTypes, CallbacksFit
  <1>1. ASSUME NEW t \in Threads, Thread(t)
        PROVE CallbacksFit'
    <2>1. CASE EnterCallback(t)
      BY <2>1 DEF EnterCallback
    <2>2. CASE InitProducer(t)
      BY <2>2 DEF InitProducer
    <2>3. CASE PushFast(t) \/ RegisterCurrent(t) \/ ShipAndRenew(t)
      <3>1. /\ callback' = [callback EXCEPT ![t] = "idle"]
            /\ recorded' = [recorded EXCEPT ![t] = @ + 1]
        BY <2>3 DEF PushFast, RegisterCurrent, ShipAndRenew, WriteSlot
      <3>2. QED
        BY <3>1
    <2>4. CASE Forget(t) \/ FlushAtExit(t)
      BY <2>4 DEF Forget, FlushAtExit
    <2>5. QED
      BY <1>1, <2>1, <2>2, <2>3, <2>4 DEF Thread, ThreadStep
  <1>2. CASE Serializer \/ Writer \/ Ender \/ Terminated \/ UNCHANGED vars
    <2>1. UNCHANGED <<callback, recorded>>
      BY <1>2 DEF Serializer, Leave, StartDrain, BeginDrain, NothingToDrain, DrainStep,
         DrainPop, DrainNext, Drained, CheckClosed, PushFanin, Writer, PopFanin, WriteBatch,
         WriteFails, RingWritten, FaninEmpty, IsFinished, LastPopFails, Finish, Ender,
         Disable, StartFlush, BeginFlush, FlushOne, FlushThread, FlushReturns, EndFlush,
         ChargeFlush, RecordDropped, CloseQueue, Close, Join, Terminated, vars, queueVars,
         producerVars
    <2>2. QED
      BY <2>1
  <1>3. QED
    BY <1>1, <1>2 DEF Next

LEMMA NextDrainFits ==
  ASSUME IInv, [Next]_vars
  PROVE  DrainFits'
  <1> USE FaninAssumption DEF IInv, TypeOK
  <1>0. /\ hand \in Seq(Batches) /\ Len(hand) \in Nat
        /\ fanin \in Seq(Batches) /\ Len(fanin) \in Nat
        /\ drain \in DrainCalls
    BY LenProperties DEF QueueTypes, ExporterTypes
  <1>1. ASSUME NEW t \in Threads, Thread(t)
        PROVE DrainFits'
    <2>1. UNCHANGED <<serializer, fanin, drain, hand>>
      BY <1>1 DEF Thread, ThreadStep, EnterCallback, PushFast, InitProducer, RegisterCurrent,
         ShipAndRenew, Forget, FlushAtExit
    <2>2. consumers # <<>> => consumers' # <<>>
      <3>1. Append(consumers, t) # <<>>
        BY AppendProperties DEF QueueTypes
      <3>2. QED
        BY <1>1, <3>1 DEF Thread, ThreadStep, EnterCallback, PushFast, InitProducer,
           RegisterCurrent, ShipAndRenew, Forget, FlushAtExit
    <2>3. QED
      BY <2>1, <2>2 DEF DrainFits, Slots
  <1>2. CASE Leave \/ NothingToDrain \/ Drained \/ CheckClosed
    BY <1>2 DEF Leave, NothingToDrain, Drained, CheckClosed, DrainFits, Slots, queueVars
  <1>3. CASE StartDrain
    <2>1. hand = <<>> /\ Len(hand) = 0
      BY <1>3 DEF StartDrain, DrainFits
    <2>2. drain'.limit = Slots
      BY <1>3 DEF StartDrain, BeginDrain
    <2>3. QED
      BY <1>0, <1>3, <2>1, <2>2 DEF StartDrain, BeginDrain, DrainFits, Slots
  <1>4. CASE DrainStep
    <2>1. UNCHANGED <<serializer, fanin, consumers>> /\ serializer = "drain" /\ drain.on
      BY <1>4 DEF DrainStep, DrainPop, DrainNext
    <2>2. Len(hand) < drain.limit /\ drain.limit <= Slots /\ drain.limit \in 0..FaninBatches
      BY <1>0, <2>1, DrainUpdate DEF DrainFits
    <2>3. CASE DrainPop
      <3>1. Visited \in Threads
        BY <2>1, VisitedIsThread
      <3>2. Head(rings[Visited]) \in Batches
        BY <2>3, <3>1, HeadTailProperties DEF DrainPop, QueueTypes
      <3>3. Len(hand') = Len(hand) + 1
        BY <1>0, <2>3, <3>2, AppendProperties DEF DrainPop
      <3>4. IF Len(hand') < drain.limit THEN drain' = drain ELSE ~drain'.on
        BY <1>0, <2>3, <3>3 DEF DrainPop, DrainCalls
      <3>5. QED
        BY <1>0, <2>1, <2>2, <3>3, <3>4 DEF DrainFits, Slots
    <2>4. CASE DrainNext
      <3>1. hand' = hand /\ drain'.limit = drain.limit
        BY <1>0, <2>4 DEF DrainNext, DrainCalls
      <3>2. QED
        BY <1>0, <2>1, <2>2, <3>1 DEF DrainFits, Slots
    <2>5. QED
      BY <1>4, <2>3, <2>4 DEF DrainStep
  <1>5. CASE PushFanin
    <2>1. hand # <<>> /\ Len(hand) <= Slots /\ ~drain.on
      BY <1>5 DEF PushFanin, DrainFits
    <2>2. /\ Len(hand') = Len(hand) - 1 /\ hand' \in Seq(Batches)
          /\ Len(fanin') = Len(fanin) + 1
      BY <1>0, <1>5, <2>1, HeadTailProperties, AppendProperties DEF PushFanin
    <2>3. QED
      BY <1>0, <1>5, <2>1, <2>2 DEF PushFanin, DrainFits, Slots
  <1>6. CASE Writer
    <2>1. UNCHANGED <<serializer, drain, hand, consumers>>
      BY <1>6 DEF Writer, PopFanin, WriteBatch, WriteFails, RingWritten, FaninEmpty,
         IsFinished, LastPopFails, Finish, queueVars
    <2>2. Len(fanin') <= Len(fanin) /\ Len(fanin') \in Nat
      <3>1. CASE PopFanin
        BY <1>0, <3>1, HeadTailProperties, LenProperties DEF PopFanin
      <3>2. CASE ~PopFanin
        BY <1>0, <1>6, <3>2 DEF Writer, WriteBatch, WriteFails, RingWritten, FaninEmpty,
           IsFinished, LastPopFails, Finish
      <3>3. QED
        BY <3>1, <3>2
    <2>3. drain.limit \in 0..FaninBatches
      BY <1>0, DrainUpdate
    <2>4. QED
      BY <1>0, <2>1, <2>2, <2>3 DEF DrainFits, Slots
  <1>7. CASE Ender \/ Terminated \/ UNCHANGED vars
    <2>1. UNCHANGED <<serializer, fanin, drain, hand, consumers>>
      BY <1>7 DEF Ender, Disable, StartFlush, BeginFlush, FlushOne, FlushThread, FlushReturns,
         EndFlush, ChargeFlush, RecordDropped, CloseQueue, Close, Join, Terminated, vars,
         queueVars
    <2>2. QED
      BY <2>1 DEF DrainFits, Slots
  <1>8. QED
    BY <1>1, <1>2, <1>3, <1>4, <1>5, <1>6, <1>7 DEF Next, Serializer

---------------------------------------------------------------------------
(* The theorems.                                                            *)

LEMMA InductiveIInv == IInv /\ [Next]_vars => IInv'
  <1> SUFFICES ASSUME IInv, [Next]_vars PROVE IInv'
    OBVIOUS
  <1>1. TypeOK'
    <2>1. CASE Terminated \/ UNCHANGED vars
      <3>1. ThreadTypes'
        BY <2>1 DEF Terminated, vars, queueVars, producerVars, IInv, TypeOK, ThreadTypes
      <3>2. QueueTypes'
        BY <2>1 DEF Terminated, vars, queueVars, IInv, TypeOK, QueueTypes
      <3>3. ExporterTypes'
        BY <2>1 DEF Terminated, vars, IInv, TypeOK, ExporterTypes
      <3>4. QED
        BY <3>1, <3>2, <3>3 DEF TypeOK
    <2>2. QED
      BY <2>1, ThreadTypeOK, SerializerTypeOK, WriterTypeOK, EnderTypeOK DEF Next
  <1>2. QED
    BY <1>1, NextCallbacksFit, NextDrainFits DEF IInv

LEMMA AlwaysIInv == Spec => []IInv
  BY InitIInv, InductiveIInv, PTL DEF Spec

\* The types hold in every run; in particular the thread that writes a slot
\* (push_with_ctx and slow_path write without a check) is inside its batch.
THEOREM TypeCorrect == Spec => []TypeOK
  BY AlwaysIInv, PTL DEF IInv

\* serializer: full_tx.push(batch).expect("sized to the open slots") never fires,
\* however many batches the rings hold and whatever the writer does meanwhile.
THEOREM FaninNeverOverflows == Spec => []FaninHasRoom
  <1>1. IInv => FaninHasRoom
    <2> SUFFICES ASSUME IInv, serializer = "push"
                 PROVE Len(fanin) + Len(hand) <= FaninBatches
      BY DEF FaninHasRoom
    <2>1. Len(hand) \in Nat /\ Len(fanin) \in Nat
      BY LenProperties DEF IInv, TypeOK, QueueTypes, ExporterTypes
    <2>2. QED
      BY <2>1, FaninAssumption DEF IInv, DrainFits, Slots
  <1>2. QED
    BY <1>1, AlwaysIInv, PTL

---------------------------------------------------------------------------
(* Order.  Four things happen to the path of a thread: an event is written  *)
(* at its end, its batch is shipped, its batch is given up, and the oldest  *)
(* batch of a ring moves to the shipped ones.                               *)

LEMMA WriteKeepsOrder ==
  ASSUME NEW t, NEW S \in Seq(Batches), NEW r \in Seq(Batches), NEW b \in Seq(1..MaxEvents),
         NEW n \in Nat, Chronological(t, S, r, b, n)
  PROVE  Chronological(t, S, r, Append(b, n + 1), n + 1)
  <1> DEFINE b2 == Append(b, n + 1)
  <1> USE EventsAssumption
  <1>1. /\ Len(b) \in Nat /\ DOMAIN b = 1..Len(b)
        /\ \A i \in 1..Len(b) : b[i] \in Nat
    BY LenProperties
  <1>2. /\ DOMAIN b2 = 1..(Len(b) + 1)
        /\ \A i \in 1..Len(b) : b2[i] = b[i]
        /\ b2[Len(b) + 1] = n + 1
    BY <1>1
  <1> HIDE DEF b2
  <1>3. /\ \A i \in 1..Len(b) : b[i] <= n
        /\ \A i, j \in 1..Len(b) : i < j => b[i] < b[j]
    BY <1>1 DEF Chronological, UpTo, Sorted
  <1>4. Sorted(b2) /\ UpTo(b2, n + 1)
    <2>1. ASSUME NEW i \in 1..(Len(b) + 1), NEW j \in 1..(Len(b) + 1), i < j
          PROVE  b2[i] < b2[j]
      <3>1. i \in 1..Len(b) /\ b2[i] = b[i]
        BY <1>1, <1>2, <2>1
      <3>2. CASE j \in 1..Len(b)
        BY <1>2, <1>3, <2>1, <3>1, <3>2
      <3>3. CASE j = Len(b) + 1
        BY <1>1, <1>2, <1>3, <3>1, <3>3
      <3>4. QED
        BY <1>1, <3>2, <3>3
    <2>2. ASSUME NEW i \in 1..(Len(b) + 1)
          PROVE  b2[i] <= n + 1
      <3>1. CASE i \in 1..Len(b)
        <4>1. b2[i] = b[i] /\ b[i] \in Nat /\ b[i] <= n
          BY <1>1, <1>2, <1>3, <3>1
        <4>2. QED
          BY <4>1
      <3>2. CASE i = Len(b) + 1
        BY <1>1, <1>2, <3>2
      <3>3. QED
        BY <1>1, <3>1, <3>2
    <2>3. QED
      BY <1>2, <2>1, <2>2 DEF Sorted, UpTo
  <1>5. ASSUME NEW e \in Seq(1..MaxEvents), UpTo(e, n), Below(e, b)
        PROVE  UpTo(e, n + 1) /\ Below(e, b2)
    <2>1. \A i \in DOMAIN e : e[i] \in Nat
      <3>1. e \in [1..Len(e) -> 1..MaxEvents]
        BY LenProperties
      <3>2. QED
        BY <3>1
    <2>2. UpTo(e, n + 1)
      BY <1>5, <2>1 DEF UpTo
    <2>3. \A i \in DOMAIN e : e[i] < n + 1
      BY <1>5, <2>1 DEF UpTo
    <2>4. \A j \in DOMAIN b2 : (j \in DOMAIN b /\ b2[j] = b[j]) \/ b2[j] = n + 1
      BY <1>1, <1>2
    <2>5. QED
      BY <1>5, <2>2, <2>3, <2>4 DEF Below
  <1>6. /\ \A i \in DOMAIN S : S[i].events \in Seq(1..MaxEvents)
        /\ \A i \in DOMAIN r : r[i].events \in Seq(1..MaxEvents)
    <2>1. S \in [1..Len(S) -> Batches] /\ r \in [1..Len(r) -> Batches]
      BY LenProperties
    <2>2. (\A i \in DOMAIN S : S[i] \in Batches) /\ (\A i \in DOMAIN r : r[i] \in Batches)
      BY <2>1, LenProperties
    <2>3. \A c \in Batches : c.events \in Seq(1..MaxEvents)
      BY DEF Batches
    <2>4. QED
      BY <2>2, <2>3
  <1>7. Chronological(t, S, r, b2, n + 1)
    BY <1>4, <1>5, <1>6 DEF Chronological
  <1>8. QED
    BY <1>7 DEF b2

LEMMA GiveUpKeepsOrder ==
  ASSUME NEW t, NEW S, NEW r, NEW b, NEW n \in Nat, Chronological(t, S, r, b, n)
  PROVE  Chronological(t, S, r, <<>>, n)
  <1>1. Sorted(<<>>) /\ UpTo(<<>>, n) /\ \A e : Below(e, <<>>)
    BY DEF Sorted, UpTo, Below
  <1>2. QED
    BY <1>1 DEF Chronological

LEMMA RenewKeepsOrder ==
  ASSUME NEW t, NEW S \in Seq(Batches), NEW r \in Seq(Batches), NEW n \in Nat,
         Chronological(t, S, r, <<>>, n)
  PROVE  Chronological(t, S, r, Append(<<>>, n + 1), n + 1)
  <1>1. PICK e \in Seq(1..MaxEvents) : e = <<>>
    BY EmptySeq
  <1>2. Chronological(t, S, r, e, n)
    BY <1>1
  <1>3. Chronological(t, S, r, Append(e, n + 1), n + 1)
    BY <1>2, WriteKeepsOrder
  <1>4. QED
    BY <1>1, <1>3

LEMMA ShipKeepsOrder ==
  ASSUME NEW t, NEW S, NEW r \in Seq(Batches), NEW b, NEW n \in Nat,
         Chronological(t, S, r, b, n)
  PROVE  Chronological(t, S, Append(r, [tid |-> t, events |-> b]), <<>>, n)
  <1> DEFINE full == [tid |-> t, events |-> b]
             r2 == Append(r, full)
  <1>1. Len(r) \in Nat /\ DOMAIN r = 1..Len(r)
    BY LenProperties
  <1>2. /\ DOMAIN r2 = 1..(Len(r) + 1)
        /\ \A i \in 1..Len(r) : r2[i] = r[i]
        /\ r2[Len(r) + 1] = full
    BY <1>1
  <1>3. full.tid = t /\ full.events = b
    OBVIOUS
  <1>4. Sorted(<<>>) /\ UpTo(<<>>, n) /\ \A e : Below(e, <<>>)
    BY DEF Sorted, UpTo, Below
  <1> HIDE DEF full, r2
  <1>5. \A i \in DOMAIN S : S[i].tid = t => \A j \in DOMAIN r2 : Below(S[i].events, r2[j].events)
    BY <1>1, <1>2, <1>3 DEF Chronological
  <1>6. \A i \in DOMAIN r2 : /\ r2[i].tid = t
                             /\ Sorted(r2[i].events) /\ UpTo(r2[i].events, n)
    BY <1>1, <1>2, <1>3 DEF Chronological
  <1>7. \A i, j \in DOMAIN r2 : i < j => Below(r2[i].events, r2[j].events)
    BY <1>1, <1>2, <1>3 DEF Chronological
  <1>8. Chronological(t, S, r2, <<>>, n)
    BY <1>4, <1>5, <1>6, <1>7 DEF Chronological
  <1>9. QED
    BY <1>8 DEF r2, full

LEMMA DrainKeepsOrder ==
  ASSUME NEW t, NEW S \in Seq(Batches), NEW r \in Seq(Batches), r # <<>>, NEW b,
         NEW n \in Nat, Chronological(t, S, r, b, n)
  PROVE  Chronological(t, Append(S, Head(r)), Tail(r), b, n)
  <1> DEFINE S2 == Append(S, Head(r))
             r2 == Tail(r)
  <1>1. /\ Len(S) \in Nat /\ DOMAIN S = 1..Len(S)
        /\ Len(r) \in Nat \ {0} /\ DOMAIN r = 1..Len(r)
    BY LenProperties, EmptySeq
  <1>2. /\ DOMAIN S2 = 1..(Len(S) + 1)
        /\ \A i \in 1..Len(S) : S2[i] = S[i]
        /\ S2[Len(S) + 1] = r[1]
    BY <1>1
  <1>3. DOMAIN r2 = 1..(Len(r) - 1) /\ \A i \in 1..(Len(r) - 1) : r2[i] = r[i + 1]
    BY <1>1, HeadTailProperties, LenProperties
  <1>4. /\ 1 \in DOMAIN r
        /\ \A i \in DOMAIN r2 : i + 1 \in DOMAIN r /\ 1 < i + 1 /\ r2[i] = r[i + 1]
        /\ \A i, j \in DOMAIN r2 : i < j => i + 1 < j + 1
    BY <1>1, <1>3
  <1>5. \A i \in DOMAIN S2 : (i \in DOMAIN S /\ S2[i] = S[i]) \/ (i = Len(S) + 1 /\ S2[i] = r[1])
    BY <1>1, <1>2
  <1>6. \A i, j \in DOMAIN S2 : i < j => i \in DOMAIN S /\ S2[i] = S[i]
    BY <1>1, <1>2
  <1> HIDE DEF S2, r2
  <1>7. \A i \in DOMAIN S2 : S2[i].tid = t =>
           /\ Sorted(S2[i].events) /\ UpTo(S2[i].events, n)
           /\ \A j \in DOMAIN S2 : i < j /\ S2[j].tid = t => Below(S2[i].events, S2[j].events)
           /\ \A j \in DOMAIN r2 : Below(S2[i].events, r2[j].events)
           /\ Below(S2[i].events, b)
    <2> SUFFICES ASSUME NEW i \in DOMAIN S2, S2[i].tid = t
                 PROVE  /\ Sorted(S2[i].events) /\ UpTo(S2[i].events, n)
                        /\ \A j \in DOMAIN S2 : i < j /\ S2[j].tid = t
                              => Below(S2[i].events, S2[j].events)
                        /\ \A j \in DOMAIN r2 : Below(S2[i].events, r2[j].events)
                        /\ Below(S2[i].events, b)
      OBVIOUS
    <2>1. Sorted(S2[i].events) /\ UpTo(S2[i].events, n) /\ Below(S2[i].events, b)
      BY <1>4, <1>5 DEF Chronological
    <2>2. \A j \in DOMAIN r2 : Below(S2[i].events, r2[j].events)
      BY <1>4, <1>5 DEF Chronological
    <2>3. \A j \in DOMAIN S2 : i < j /\ S2[j].tid = t => Below(S2[i].events, S2[j].events)
      BY <1>4, <1>5, <1>6 DEF Chronological
    <2>4. QED
      BY <2>1, <2>2, <2>3
  <1>8. \A i \in DOMAIN r2 :
           /\ r2[i].tid = t /\ Sorted(r2[i].events) /\ UpTo(r2[i].events, n)
           /\ Below(r2[i].events, b)
           /\ \A j \in DOMAIN r2 : i < j => Below(r2[i].events, r2[j].events)
    BY <1>4 DEF Chronological
  <1>9. Chronological(t, S2, r2, b, n)
    BY <1>7, <1>8 DEF Chronological
  <1>10. QED
    BY <1>9 DEF S2, r2

LEMMA OthersKeepOrder ==
  ASSUME NEW t, NEW S \in Seq(Batches), NEW r, NEW b, NEW n, NEW c \in Batches, c.tid # t,
         Chronological(t, S, r, b, n)
  PROVE  Chronological(t, Append(S, c), r, b, n)
  <1> DEFINE S2 == Append(S, c)
  <1>1. Len(S) \in Nat /\ DOMAIN S = 1..Len(S)
    BY LenProperties
  <1>2. /\ DOMAIN S2 = 1..(Len(S) + 1)
        /\ \A i \in 1..Len(S) : S2[i] = S[i]
        /\ S2[Len(S) + 1] = c
    BY <1>1
  <1> HIDE DEF S2
  <1>3. \A i \in DOMAIN S2 : S2[i].tid = t => i \in DOMAIN S /\ S2[i] = S[i]
    BY <1>1, <1>2
  <1>4. \A i \in DOMAIN S2 : S2[i].tid = t =>
           /\ Sorted(S2[i].events) /\ UpTo(S2[i].events, n)
           /\ \A j \in DOMAIN r : Below(S2[i].events, r[j].events)
           /\ Below(S2[i].events, b)
    BY <1>3 DEF Chronological
  <1>5. \A i, j \in DOMAIN S2 : S2[i].tid = t /\ i < j /\ S2[j].tid = t
           => Below(S2[i].events, S2[j].events)
    BY <1>3 DEF Chronological
  <1>6. Chronological(t, S2, r, b, n)
    BY <1>4, <1>5 DEF Chronological
  <1>7. QED
    BY <1>6 DEF S2

---------------------------------------------------------------------------
(* What moves between the exporter's threads leaves Shipped as it was.      *)

LEMMA HeadMoves ==
  ASSUME NEW a \in Seq(Batches), NEW b \in Seq(Batches), b # <<>>
  PROVE  Append(a, Head(b)) \o Tail(b) = a \o b
  <1>1. /\ Len(a) \in Nat /\ Len(b) \in Nat \ {0}
        /\ Head(b) \in Batches /\ Tail(b) \in Seq(Batches) /\ Len(Tail(b)) = Len(b) - 1
        /\ Head(b) = b[1]
        /\ \A i \in 1..(Len(b) - 1) : Tail(b)[i] = b[i + 1]
    BY LenProperties, EmptySeq, HeadTailProperties
  <1>2. /\ Append(a, Head(b)) \in Seq(Batches)
        /\ Len(Append(a, Head(b))) = Len(a) + 1
        /\ \A i \in 1..Len(a) : Append(a, Head(b))[i] = a[i]
        /\ Append(a, Head(b))[Len(a) + 1] = b[1]
    BY <1>1, AppendProperties
  <1> DEFINE l == Append(a, Head(b)) \o Tail(b)
             r == a \o b
  <1>3. /\ l \in Seq(Batches) /\ r \in Seq(Batches)
        /\ Len(l) = Len(a) + Len(b) /\ Len(r) = Len(a) + Len(b)
    BY <1>1, <1>2, ConcatProperties
  <1>4. ASSUME NEW i \in 1..(Len(a) + Len(b))
        PROVE  l[i] = r[i]
    <2>1. r[i] = IF i <= Len(a) THEN a[i] ELSE b[i - Len(a)]
      BY ConcatProperties
    <2>2. l[i] = IF i <= Len(a) + 1 THEN Append(a, Head(b))[i] ELSE Tail(b)[i - (Len(a) + 1)]
      BY <1>1, <1>2, ConcatProperties
    <2>3. CASE i <= Len(a)
      BY <1>1, <1>2, <2>1, <2>2, <2>3
    <2>4. CASE i = Len(a) + 1
      BY <1>1, <1>2, <2>1, <2>2, <2>4
    <2>5. CASE i > Len(a) + 1
      BY <1>1, <1>2, <2>1, <2>2, <2>5
    <2>6. QED
      BY <1>1, <2>3, <2>4, <2>5
  <1>5. QED
    BY <1>3, <1>4, SeqEqual

LEMMA AppendMoves ==
  ASSUME NEW a \in Seq(Batches), NEW b \in Seq(Batches), NEW c \in Batches
  PROVE  a \o Append(b, c) = Append(a \o b, c)
  <1>1. Len(a) \in Nat /\ Len(b) \in Nat
    BY LenProperties
  <1>2. /\ Append(b, c) \in Seq(Batches) /\ Len(Append(b, c)) = Len(b) + 1
        /\ \A i \in 1..Len(b) : Append(b, c)[i] = b[i]
        /\ Append(b, c)[Len(b) + 1] = c
    BY <1>1, AppendProperties
  <1>3. /\ a \o b \in Seq(Batches) /\ Len(a \o b) = Len(a) + Len(b)
        /\ \A i \in 1..(Len(a) + Len(b)) : (a \o b)[i] = IF i <= Len(a) THEN a[i] ELSE b[i - Len(a)]
    BY ConcatProperties
  <1> DEFINE l == a \o Append(b, c)
             r == Append(a \o b, c)
  <1>4. /\ l \in Seq(Batches) /\ Len(l) = Len(a) + Len(b) + 1
        /\ \A i \in 1..(Len(a) + Len(b) + 1) :
              l[i] = IF i <= Len(a) THEN a[i] ELSE Append(b, c)[i - Len(a)]
    BY <1>1, <1>2, ConcatProperties
  <1>5. /\ r \in Seq(Batches) /\ Len(r) = Len(a) + Len(b) + 1
        /\ \A i \in 1..(Len(a) + Len(b)) : r[i] = (a \o b)[i]
        /\ r[Len(a) + Len(b) + 1] = c
    BY <1>1, <1>3, AppendProperties
  <1> HIDE DEF l, r
  <1>6. ASSUME NEW i \in 1..(Len(a) + Len(b) + 1)
        PROVE  l[i] = r[i]
    <2>1. CASE i = Len(a) + Len(b) + 1
      BY <1>1, <1>2, <1>4, <1>5, <2>1
    <2>2. CASE i \in 1..(Len(a) + Len(b))
      <3>1. r[i] = IF i <= Len(a) THEN a[i] ELSE b[i - Len(a)]
        BY <1>3, <1>5, <2>2
      <3>2. l[i] = IF i <= Len(a) THEN a[i] ELSE Append(b, c)[i - Len(a)]
        BY <1>1, <1>4, <2>2
      <3>3. ~(i <= Len(a)) => i - Len(a) \in 1..Len(b)
        BY <1>1, <2>2
      <3>4. QED
        BY <1>2, <3>1, <3>2, <3>3
    <2>3. QED
      BY <1>1, <2>1, <2>2
  <1>7. l = r
    BY <1>1, <1>4, <1>5, <1>6, SeqEqual
  <1>8. QED
    BY <1>7 DEF l, r

LEMMA ShippedType ==
  ASSUME IInv
  PROVE  /\ exported \in Seq(Batches) /\ ring \in Seq(Batches)
         /\ fanin \in Seq(Batches) /\ hand \in Seq(Batches)
         /\ exported \o ring \in Seq(Batches)
         /\ (exported \o ring) \o fanin \in Seq(Batches)
         /\ Shipped \in Seq(Batches)
  <1>1. /\ exported \in Seq(Batches) /\ ring \in Seq(Batches)
        /\ fanin \in Seq(Batches) /\ hand \in Seq(Batches)
    BY DEF IInv, TypeOK, QueueTypes, ExporterTypes
  <1>2. exported \o ring \in Seq(Batches)
    BY <1>1, ConcatProperties
  <1>3. (exported \o ring) \o fanin \in Seq(Batches)
    BY <1>1, <1>2, ConcatProperties
  <1>4. Shipped \in Seq(Batches)
    BY <1>1, <1>3, ConcatProperties DEF Shipped
  <1>5. QED
    BY <1>1, <1>2, <1>3, <1>4

LEMMA ExporterKeepsShipped ==
  ASSUME IInv, PushFanin \/ Writer
  PROVE  Shipped' = Shipped
  <1>0. /\ exported \in Seq(Batches) /\ ring \in Seq(Batches)
        /\ fanin \in Seq(Batches) /\ hand \in Seq(Batches)
        /\ exported \o ring \in Seq(Batches)
        /\ (exported \o ring) \o fanin \in Seq(Batches)
    BY ShippedType
  <1>1. CASE PushFanin
    <2>1. hand # <<>>
      BY <1>1 DEF PushFanin, IInv, DrainFits
    <2>2. Head(hand) \in Batches /\ Tail(hand) \in Seq(Batches)
      BY <1>0, <2>1, HeadTailProperties
    <2>3. (exported \o ring) \o Append(fanin, Head(hand))
            = Append((exported \o ring) \o fanin, Head(hand))
      BY <1>0, <2>2, AppendMoves
    <2>4. Append((exported \o ring) \o fanin, Head(hand)) \o Tail(hand)
            = ((exported \o ring) \o fanin) \o hand
      BY <1>0, <2>1, HeadMoves
    <2>5. Shipped' = ((exported \o ring) \o Append(fanin, Head(hand))) \o Tail(hand)
      BY <1>1 DEF PushFanin, Shipped
    <2>6. QED
      BY <2>3, <2>4, <2>5 DEF Shipped
  <1>2. CASE PopFanin
    <2>1. fanin # <<>> /\ Head(fanin) \in Batches /\ Tail(fanin) \in Seq(Batches)
      BY <1>0, <1>2, HeadTailProperties DEF PopFanin
    <2>2. exported \o Append(ring, Head(fanin)) = Append(exported \o ring, Head(fanin))
      BY <1>0, <2>1, AppendMoves
    <2>3. Append(exported \o ring, Head(fanin)) \o Tail(fanin) = (exported \o ring) \o fanin
      BY <1>0, <2>1, HeadMoves
    <2>4. Shipped' = ((exported \o Append(ring, Head(fanin))) \o Tail(fanin)) \o hand
      BY <1>2 DEF PopFanin, queueVars, Shipped
    <2>5. QED
      BY <2>2, <2>3, <2>4 DEF Shipped
  <1>3. CASE WriteBatch
    <2>1. Append(exported, Head(ring)) \o Tail(ring) = exported \o ring
      BY <1>0, <1>3, HeadMoves DEF WriteBatch
    <2>2. Shipped' = ((Append(exported, Head(ring)) \o Tail(ring)) \o fanin) \o hand
      BY <1>3 DEF WriteBatch, queueVars, Shipped
    <2>3. QED
      BY <2>1, <2>2 DEF Shipped
  <1>4. CASE WriteFails \/ RingWritten \/ FaninEmpty \/ IsFinished \/ LastPopFails \/ Finish
    <2>1. UNCHANGED <<exported, ring, fanin, hand>>
      BY <1>4 DEF WriteFails, RingWritten, FaninEmpty, IsFinished, LastPopFails, Finish, queueVars
    <2>2. QED
      BY <2>1 DEF Shipped
  <1>5. QED
    BY <1>1, <1>2, <1>3, <1>4 DEF Writer

---------------------------------------------------------------------------
(* Every step keeps the order.                                              *)

\* What the order of one thread depends on.
Order(t) == Chronological(t, Shipped, rings[t], batch[t], recorded[t])

LEMMA PathTypes ==
  ASSUME IInv, NEW t \in Threads
  PROVE  /\ Shipped \in Seq(Batches) /\ rings[t] \in Seq(Batches)
         /\ batch[t] \in Seq(1..MaxEvents) /\ recorded[t] \in Nat
  BY ShippedType, EventsAssumption DEF IInv, TypeOK, ThreadTypes, QueueTypes

LEMMA NextInOrder ==
  ASSUME IInv, InOrder, [Next]_vars
  PROVE  InOrder'
  <1> SUFFICES ASSUME NEW t \in Threads PROVE Order(t)'
    BY DEF InOrder, Order
  <1> USE DEF IInv, TypeOK, ThreadTypes, QueueTypes
  <1>0. Order(t)
    BY DEF InOrder, Order
  <1>1. ASSUME UNCHANGED <<Shipped, rings[t], batch[t], recorded[t]>>
        PROVE Order(t)'
    BY <1>0, <1>1 DEF Order
  <1>2. ASSUME NEW u \in Threads, Thread(u)
        PROVE Order(t)'
    <2>1. Shipped' = Shipped
      BY <1>2 DEF Thread, ThreadStep, EnterCallback, PushFast, InitProducer, RegisterCurrent,
         ShipAndRenew, Forget, FlushAtExit, Shipped
    <2>2. CASE EnterCallback(u) \/ InitProducer(u) \/ Forget(u)
      BY <1>1, <2>1, <2>2 DEF EnterCallback, InitProducer, Forget
    <2>3. CASE u # t
      <3>1. UNCHANGED <<rings[t], batch[t], recorded[t]>>
        BY <1>2, <2>3 DEF Thread, ThreadStep, EnterCallback, PushFast, InitProducer,
           RegisterCurrent, ShipAndRenew, Forget, FlushAtExit, WriteSlot, Ship, FlushPartial
      <3>2. QED
        BY <1>1, <2>1, <3>1
    <2>4. CASE u = t /\ PushFast(t)
      <3>1. /\ rings'[t] = rings[t] /\ recorded'[t] = recorded[t] + 1
            /\ batch'[t] = Append(batch[t], recorded[t] + 1)
        BY <2>4 DEF PushFast, WriteSlot
      <3>2. QED
        BY <1>0, <2>1, <3>1, PathTypes, WriteKeepsOrder DEF Order
    <2>5. CASE u = t /\ RegisterCurrent(t)
      <3>1. /\ rings'[t] = rings[t] /\ recorded'[t] = recorded[t] + 1
            /\ batch'[t] = Append(<<>>, recorded[t] + 1)
        BY <2>5 DEF RegisterCurrent, WriteSlot
      <3>2. Chronological(t, Shipped, rings[t], <<>>, recorded[t])
        BY <1>0, PathTypes, GiveUpKeepsOrder DEF Order
      <3>3. QED
        BY <2>1, <3>1, <3>2, PathTypes, RenewKeepsOrder DEF Order
    <2>6. CASE u = t /\ ShipAndRenew(t)
      <3>1. /\ recorded'[t] = recorded[t] + 1
            /\ batch'[t] = Append(<<>>, recorded[t] + 1)
            /\ rings'[t] \in {rings[t], Append(rings[t], [tid |-> t, events |-> batch[t]])}
        BY <2>6 DEF ShipAndRenew, WriteSlot, Ship
      <3>2. Chronological(t, Shipped, rings'[t], <<>>, recorded[t])
        BY <1>0, <3>1, PathTypes, GiveUpKeepsOrder, ShipKeepsOrder DEF Order
      <3>3. rings'[t] \in Seq(Batches)
        BY <2>6, ShipTypes DEF ShipAndRenew
      <3>4. QED
        BY <2>1, <3>1, <3>2, <3>3, PathTypes, RenewKeepsOrder DEF Order
    <2>7. CASE u = t /\ FlushAtExit(t)
      <3>1. /\ recorded'[t] = recorded[t] /\ batch'[t] = <<>>
            /\ rings'[t] \in {rings[t], Append(rings[t], [tid |-> t, events |-> batch[t]])}
        BY <2>7 DEF FlushAtExit, FlushPartial, Ship
      <3>2. QED
        BY <1>0, <2>1, <3>1, PathTypes, GiveUpKeepsOrder, ShipKeepsOrder DEF Order
    <2>8. QED
      BY <1>2, <2>2, <2>3, <2>4, <2>5, <2>6, <2>7 DEF Thread, ThreadStep
  <1>3. CASE DrainStep /\ DrainPop
    <2>1. Visited \in Threads
      BY <1>3, VisitedIsThread DEF DrainPop
    <2> DEFINE b == Head(rings[Visited])
    <2>2. rings[Visited] \in Seq(Batches) /\ rings[Visited] # <<>> /\ b \in Batches
      BY <1>3, <2>1, HeadTailProperties DEF DrainPop
    <2>3. Shipped' = Append(Shipped, b)
      <3>1. Shipped' = ((exported \o ring) \o fanin) \o Append(hand, b)
        BY <1>3 DEF DrainStep, DrainPop, Shipped
      <3>2. QED
        BY <2>2, <3>1, ShippedType, AppendMoves DEF Shipped
    <2>4. b.tid = Visited
      <3>1. 1 \in DOMAIN rings[Visited] /\ b = rings[Visited][1]
        BY <2>2, EmptySeq, LenProperties
      <3>2. QED
        BY <2>1, <3>1 DEF InOrder, Chronological
    <2>5. recorded'[t] = recorded[t] /\ batch'[t] = batch[t]
      BY <1>3 DEF DrainPop
    <2>6. CASE t = Visited
      <3>1. rings'[t] = Tail(rings[t])
        BY <1>3, <2>6 DEF DrainPop
      <3>2. QED
        BY <1>0, <2>2, <2>3, <2>5, <2>6, <3>1, PathTypes, DrainKeepsOrder DEF Order
    <2>7. CASE t # Visited
      <3>1. rings'[t] = rings[t]
        BY <1>3, <2>7 DEF DrainPop
      <3>2. QED
        BY <1>0, <2>2, <2>3, <2>4, <2>5, <2>7, <3>1, PathTypes, OthersKeepOrder DEF Order
    <2>8. QED
      BY <2>6, <2>7
  <1>4. CASE Serializer /\ ~(DrainStep /\ DrainPop)
    <2>1. UNCHANGED <<rings, batch, recorded>>
      BY <1>4 DEF Serializer, Leave, StartDrain, BeginDrain, NothingToDrain, DrainStep,
         DrainNext, Drained, CheckClosed, PushFanin, queueVars, producerVars
    <2>2. CASE PushFanin
      BY <1>1, <2>1, <2>2, ExporterKeepsShipped
    <2>3. CASE ~PushFanin
      <3>1. UNCHANGED <<exported, ring, fanin, hand>>
        BY <1>4, <2>3 DEF Serializer, Leave, StartDrain, BeginDrain, NothingToDrain,
           DrainStep, DrainNext, Drained, CheckClosed, queueVars
      <3>2. QED
        BY <1>1, <2>1, <3>1 DEF Shipped
    <2>4. QED
      BY <2>2, <2>3
  <1>5. CASE Writer
    <2>1. UNCHANGED <<rings, batch, recorded>>
      BY <1>5 DEF Writer, PopFanin, WriteBatch, WriteFails, RingWritten, FaninEmpty,
         IsFinished, LastPopFails, Finish, queueVars, producerVars
    <2>2. QED
      BY <1>1, <1>5, <2>1, ExporterKeepsShipped
  <1>6. CASE Ender \/ Terminated \/ UNCHANGED vars
    <2>1. Shipped' = Shipped
      BY <1>6 DEF Ender, Disable, StartFlush, BeginFlush, FlushOne, FlushThread, FlushReturns,
         EndFlush, ChargeFlush, RecordDropped, CloseQueue, Close, Join, Terminated, vars,
         queueVars, Shipped
    <2>2. CASE FlushOne(t)
      <3>1. /\ recorded'[t] = recorded[t] /\ batch'[t] = <<>>
            /\ rings'[t] \in {rings[t], Append(rings[t], [tid |-> t, events |-> batch[t]])}
        BY <2>2 DEF FlushOne, FlushThread, FlushPartial, Ship
      <3>2. QED
        BY <1>0, <2>1, <3>1, PathTypes, GiveUpKeepsOrder, ShipKeepsOrder DEF Order
    <2>3. CASE ~FlushOne(t)
      <3>1. UNCHANGED <<rings[t], batch[t], recorded[t]>>
        BY <1>6, <2>3 DEF Ender, Disable, StartFlush, BeginFlush, FlushOne, FlushThread,
           FlushPartial, Ship, FlushReturns, EndFlush, ChargeFlush, RecordDropped, CloseQueue,
           Close, Join, Terminated, vars, queueVars, producerVars
      <3>2. QED
        BY <1>1, <2>1, <3>1
    <2>4. QED
      BY <2>2, <2>3
  <1>7. QED
    BY <1>2, <1>3, <1>4, <1>5, <1>6 DEF Next, Serializer

LEMMA InitInOrder == Init => InOrder
  <1> SUFFICES ASSUME Init, NEW t \in Threads PROVE Order(t)
    BY DEF InOrder, Order
  <1>1. Shipped = <<>>
    BY ConcatEmptySeq, EmptySeq DEF Init, QueueInit, Shipped
  <1>2. QED
    BY <1>1 DEF Init, QueueInit, Order, Chronological, Sorted, UpTo, Below

\* No step of anyone disturbs the order in which a thread recorded: ships,
\* flushes, drains cut short, the fan-in and the last lap keep it, for every
\* number of threads and every size of batch, ring and fan-in.
THEOREM OrderKept == Spec => []InOrder
  BY InitInOrder, NextInOrder, AlwaysIInv, PTL DEF Spec

---------------------------------------------------------------------------
(* The last lap of the writer.                                              *)

\* From its last pop on, the writer has nobody in front of it.
LastLap ==
    /\ writer \in {"lastpop", "lastwrite", "finish", "finished"} => serializer = "done"
    /\ writer \in {"lastwrite", "finish", "finished"} => fanin = <<>>
    /\ writer \in {"finish", "finished"} => ring = <<>>

LEMMA NextLastLap ==
  ASSUME IInv, LastLap, [Next]_vars
  PROVE  LastLap'
  <1>1. CASE Serializer
    <2>1. serializer # "done" /\ UNCHANGED <<writer, ring>>
      BY <1>1 DEF Serializer, Leave, StartDrain, NothingToDrain, DrainStep, Drained, CheckClosed,
         PushFanin, IInv, DrainFits, DrainPop, DrainNext
    <2>2. QED
      BY <2>1 DEF LastLap
  <1>2. CASE Writer
    <2>1. UNCHANGED serializer
      BY <1>2 DEF Writer, PopFanin, WriteBatch, WriteFails, RingWritten, FaninEmpty, IsFinished,
         LastPopFails, Finish
    <2>2. CASE PopFanin
      BY <2>1, <2>2 DEF LastLap, PopFanin
    <2>3. CASE WriteBatch \/ WriteFails \/ RingWritten \/ FaninEmpty
      BY <2>1, <2>3 DEF LastLap, WriteBatch, WriteFails, RingWritten, FaninEmpty
    <2>4. CASE IsFinished \/ LastPopFails \/ Finish
      BY <2>1, <2>4 DEF LastLap, IsFinished, LastPopFails, Finish
    <2>5. QED
      BY <1>2, <2>2, <2>3, <2>4 DEF Writer
  <1>3. CASE UNCHANGED <<serializer, fanin, writer, ring>>
    BY <1>3 DEF LastLap
  <1>4. (\E t \in Threads : Thread(t)) \/ Ender \/ Terminated \/ UNCHANGED vars
          => UNCHANGED <<serializer, fanin, writer, ring>>
    BY DEF Thread, Ender, Disable, StartFlush, FlushOne, FlushReturns, ChargeFlush, CloseQueue, Join,
       Terminated, vars
  <1>5. QED
    BY <1>1, <1>2, <1>3, <1>4 DEF Next

\* The writer's last lap over the fan-in takes everything along: it asks whether
\* the serializer is finished before it empties the fan-in for the last time.
THEOREM NothingLeftBehind == Spec => []TakenIsWritten
  <1>1. Init => LastLap
    BY DEF Init, LastLap
  <1>2. IInv /\ LastLap => TakenIsWritten
    <2> SUFFICES ASSUME IInv, LastLap, writer \in {"finish", "finished"}
                 PROVE  hand \o fanin \o ring = <<>>
      BY DEF TakenIsWritten
    <2>1. hand = <<>> /\ fanin = <<>> /\ ring = <<>>
      BY DEF IInv, DrainFits, LastLap
    <2>2. QED
      BY <2>1, ConcatEmptySeq, EmptySeq
  <1>3. QED
    BY <1>1, <1>2, NextLastLap, AlwaysIInv, PTL DEF Spec

---------------------------------------------------------------------------
(* Where the events of a thread are.                                        *)

LEMMA EventsAppend ==
  ASSUME NEW S \in Seq(Batches), NEW c
  PROVE  EventsIn(Append(S, c)) = EventsIn(S) \cup EventsOf(c)
  <1>1. /\ Len(S) \in Nat /\ DOMAIN S = 1..Len(S) /\ DOMAIN Append(S, c) = 1..(Len(S) + 1)
        /\ \A i \in 1..Len(S) : Append(S, c)[i] = S[i]
        /\ Append(S, c)[Len(S) + 1] = c
    BY LenProperties
  <1>2. 1..(Len(S) + 1) = (1..Len(S)) \cup {Len(S) + 1}
    BY <1>1
  <1>3. QED
    BY <1>1, <1>2 DEF EventsIn

LEMMA EventsHead ==
  ASSUME NEW r \in Seq(Batches), r # <<>>
  PROVE  EventsIn(r) \subseteq EventsOf(Head(r)) \cup EventsIn(Tail(r))
  <1>1. /\ Len(r) \in Nat \ {0} /\ DOMAIN r = 1..Len(r) /\ Head(r) = r[1]
        /\ DOMAIN Tail(r) = 1..(Len(r) - 1) /\ \A i \in 1..(Len(r) - 1) : Tail(r)[i] = r[i + 1]
    BY LenProperties, EmptySeq, HeadTailProperties
  <1>2. \A i \in 1..Len(r) : i = 1 \/ (i - 1 \in 1..(Len(r) - 1) /\ Tail(r)[i - 1] = r[i])
    BY <1>1
  <1>3. ASSUME NEW i \in DOMAIN r
        PROVE  EventsOf(r[i]) \subseteq EventsOf(Head(r)) \cup EventsIn(Tail(r))
    <2>1. CASE i = 1
      BY <1>1, <2>1
    <2>2. CASE i - 1 \in DOMAIN Tail(r) /\ Tail(r)[i - 1] = r[i]
      BY <2>2 DEF EventsIn
    <2>3. QED
      BY <1>1, <1>2, <2>1, <2>2
  <1>4. QED
    BY <1>3 DEF EventsIn

\* The batch of a thread that has not registered is empty.
Unarmed ==
    \A t \in Threads :
        /\ ~attached[t] => batch[t] = <<>>
        /\ callback[t] = "registering" => attached[t] /\ batch[t] = <<>>

LEMMA NextUnarmed ==
  ASSUME IInv, Unarmed, [Next]_vars
  PROVE  Unarmed'
  <1> SUFFICES ASSUME NEW t \in Threads
               PROVE  /\ ~attached'[t] => batch'[t] = <<>>
                      /\ callback'[t] = "registering" => attached'[t] /\ batch'[t] = <<>>
    BY DEF Unarmed
  <1> USE DEF IInv, TypeOK, ThreadTypes
  <1>1. (attached[t] \/ batch[t] = <<>>) /\ (callback[t] = "registering" => attached[t] /\ batch[t] = <<>>)
    BY DEF Unarmed
  <1>2. CASE UNCHANGED <<attached[t], callback[t]>> /\ batch'[t] \in {batch[t], <<>>}
    BY <1>1, <1>2
  <1>3. ASSUME NEW u \in Threads, Thread(u)
        PROVE  /\ ~attached'[t] => batch'[t] = <<>>
               /\ callback'[t] = "registering" => attached'[t] /\ batch'[t] = <<>>
    <2>1. CASE u # t
      <3>1. UNCHANGED <<attached[t], callback[t], batch[t]>>
        BY <1>3, <2>1 DEF Thread, ThreadStep, EnterCallback, PushFast, InitProducer, RegisterCurrent,
           ShipAndRenew, Forget, FlushAtExit, WriteSlot, FlushPartial
      <3>2. QED
        BY <1>2, <3>1
    <2>2. CASE u = t /\ (EnterCallback(t) \/ Forget(t))
      BY <1>1, <2>2 DEF EnterCallback, Forget
    <2>3. CASE u = t /\ (PushFast(t) \/ ShipAndRenew(t) \/ RegisterCurrent(t))
      BY <1>1, <2>3 DEF PushFast, ShipAndRenew, RegisterCurrent, WriteSlot
    <2>4. CASE u = t /\ InitProducer(t)
      BY <1>1, <2>4 DEF InitProducer
    <2>5. CASE u = t /\ FlushAtExit(t)
      BY <1>2, <2>5 DEF FlushAtExit, FlushPartial
    <2>6. QED
      BY <1>3, <2>1, <2>2, <2>3, <2>4, <2>5 DEF Thread, ThreadStep
  <1>4. CASE Serializer
    <2>1. UNCHANGED <<attached, callback, batch>>
      BY <1>4 DEF Serializer, Leave, StartDrain, BeginDrain, NothingToDrain, DrainStep, DrainPop,
         DrainNext, Drained, CheckClosed, PushFanin, queueVars, producerVars
    <2>2. QED
      BY <1>2, <2>1
  <1>5. CASE Writer \/ Terminated \/ UNCHANGED vars
    <2>1. UNCHANGED <<attached, callback, batch>>
      BY <1>5 DEF Writer, PopFanin, WriteBatch, WriteFails, RingWritten, FaninEmpty,
         IsFinished, LastPopFails, Finish, Terminated, vars, queueVars, producerVars
    <2>2. QED
      BY <1>2, <2>1
  <1>6. CASE Ender
    <2>1. UNCHANGED <<attached, callback>> /\ batch'[t] \in {batch[t], <<>>}
      BY <1>6 DEF Ender, Disable, StartFlush, BeginFlush, FlushOne, FlushThread, FlushPartial,
         FlushReturns, EndFlush, ChargeFlush, RecordDropped, CloseQueue, Close, Join, queueVars, producerVars
    <2>2. QED
      BY <1>2, <2>1
  <1>7. QED
    BY <1>3, <1>4, <1>5, <1>6 DEF Next

\* The n events of thread t: shipped in S, in its ring r, lost, or in its batch b.
Placed(t, S, r, b, n, gone) ==
    \A e \in 1..n :
        \/ <<t, e>> \in EventsIn(S) \cup EventsIn(r) \cup gone
        \/ \E i \in DOMAIN b : b[i] = e

Kept(t) == Placed(t, Shipped, rings[t], batch[t], recorded[t], lost)

\* One more event, behind the events of the batch or of a new one.
LEMMA WritePlaces ==
  ASSUME NEW t, NEW S, NEW r, NEW b \in Seq(1..MaxEvents), NEW n \in Nat, NEW gone, Placed(t, S, r, b, n, gone)
  PROVE  Placed(t, S, r, Append(b, n + 1), n + 1, gone)
  <1>1. Len(b) \in Nat /\ DOMAIN b = 1..Len(b) /\ DOMAIN Append(b, n + 1) = 1..(Len(b) + 1)
    BY LenProperties
  <1>2. /\ \A i \in DOMAIN b : i \in DOMAIN Append(b, n + 1) /\ Append(b, n + 1)[i] = b[i]
        /\ Len(b) + 1 \in DOMAIN Append(b, n + 1) /\ Append(b, n + 1)[Len(b) + 1] = n + 1
    BY <1>1
  <1>3. \A e \in 1..(n + 1) : e \in 1..n \/ e = n + 1
    OBVIOUS
  <1>4. QED
    BY <1>2, <1>3 DEF Placed

\* The batch goes into the ring, or to the losses.
LEMMA ShipPlaces ==
  ASSUME IInv, NEW t \in Threads, NEW S, NEW n, Placed(t, S, rings[t], batch[t], n, lost), Ship(t)
  PROVE  Placed(t, S, rings'[t], <<>>, n, lost')
  <1> DEFINE full == [tid |-> t, events |-> batch[t]]
  <1>1. \A i \in DOMAIN batch[t] : <<t, batch[t][i]>> \in EventsOf(full)
    BY DEF EventsOf
  <1> HIDE DEF full
  <1>2. CASE RingHasRoom(t)
    <2>1. rings'[t] = Append(rings[t], full) /\ lost' = lost
      BY <1>2 DEF Ship, full, IInv, TypeOK, QueueTypes
    <2>2. EventsIn(rings'[t]) = EventsIn(rings[t]) \cup EventsOf(full)
      BY <2>1, PathTypes, EventsAppend
    <2>3. QED
      BY <1>1, <2>1, <2>2 DEF Placed
  <1>3. CASE ~RingHasRoom(t)
    <2>1. rings'[t] = rings[t] /\ lost' = lost \cup EventsOf(full)
      BY <1>3 DEF Ship, full
    <2>2. QED
      BY <1>1, <2>1 DEF Placed
  <1>4. QED
    BY <1>2, <1>3

LEMMA FlushPlaces ==
  ASSUME IInv, NEW t \in Threads, NEW S, NEW n, Placed(t, S, rings[t], batch[t], n, lost), FlushPartial(t)
  PROVE  Placed(t, S, rings'[t], batch'[t], n, lost')
  <1>1. batch'[t] = <<>>
    BY DEF FlushPartial, IInv, TypeOK, ThreadTypes
  <1>2. CASE batch[t] = <<>>
    BY <1>1, <1>2 DEF FlushPartial
  <1>3. CASE batch[t] # <<>>
    BY <1>1, <1>3, ShipPlaces DEF FlushPartial
  <1>4. QED
    BY <1>2, <1>3

LEMMA LostGrows ==
  ASSUME [Next]_vars
  PROVE  lost \subseteq lost'
  BY DEF Next, Thread, ThreadStep, EnterCallback, PushFast, InitProducer, RegisterCurrent,
     ShipAndRenew, Forget, FlushAtExit, Ship, FlushPartial, Serializer, Leave, StartDrain, BeginDrain,
     NothingToDrain, DrainStep, DrainPop, DrainNext, Drained, CheckClosed, PushFanin, Writer, PopFanin,
     WriteBatch, WriteFails, RingWritten, FaninEmpty, IsFinished, LastPopFails, Finish, Ender, Disable,
     StartFlush, BeginFlush, FlushOne, FlushThread, FlushReturns, EndFlush, ChargeFlush, RecordDropped,
     CloseQueue, Close, Join, Terminated, vars, queueVars

LEMMA NextKept ==
  ASSUME IInv, Unarmed, NothingVanishes, [Next]_vars
  PROVE  NothingVanishes'
  <1> SUFFICES ASSUME NEW t \in Threads PROVE Kept(t)'
    BY DEF NothingVanishes, Kept, Placed
  <1> USE DEF IInv, TypeOK, ThreadTypes, QueueTypes
  <1>0. Kept(t)
    BY DEF NothingVanishes, Kept, Placed
  <1>1. ASSUME UNCHANGED <<Shipped, rings[t], batch[t], recorded[t]>>
        PROVE  Kept(t)'
    BY <1>0, <1>1, LostGrows DEF Kept, Placed
  <1>2. ASSUME NEW u \in Threads, Thread(u)
        PROVE  Kept(t)'
    <2>1. Shipped' = Shipped
      BY <1>2 DEF Thread, ThreadStep, EnterCallback, PushFast, InitProducer, RegisterCurrent,
         ShipAndRenew, Forget, FlushAtExit, Shipped
    <2>2. CASE EnterCallback(u) \/ InitProducer(u) \/ Forget(u)
      BY <1>1, <2>1, <2>2 DEF EnterCallback, InitProducer, Forget
    <2>3. CASE u # t
      <3>1. UNCHANGED <<rings[t], batch[t], recorded[t]>>
        BY <1>2, <2>3 DEF Thread, ThreadStep, EnterCallback, PushFast, InitProducer,
           RegisterCurrent, ShipAndRenew, Forget, FlushAtExit, WriteSlot, Ship, FlushPartial
      <3>2. QED
        BY <1>1, <2>1, <3>1
    <2>4. CASE u = t /\ PushFast(t)
      <3>1. /\ rings'[t] = rings[t] /\ recorded'[t] = recorded[t] + 1 /\ lost' = lost
            /\ batch'[t] = Append(batch[t], recorded[t] + 1)
        BY <2>4 DEF PushFast, WriteSlot
      <3>2. QED
        BY <1>0, <2>1, <3>1, PathTypes, WritePlaces DEF Kept
    <2>5. CASE u = t /\ RegisterCurrent(t)
      <3>1. /\ rings'[t] = rings[t] /\ recorded'[t] = recorded[t] + 1 /\ lost' = lost
            /\ batch'[t] = Append(<<>>, recorded[t] + 1)
        BY <2>5 DEF RegisterCurrent, WriteSlot
      <3>2. batch[t] = <<>>
        BY <2>5 DEF RegisterCurrent, Unarmed
      <3>3. QED
        BY <1>0, <2>1, <3>1, <3>2, PathTypes, WritePlaces DEF Kept
    <2>6. CASE u = t /\ ShipAndRenew(t)
      <3>1. recorded'[t] = recorded[t] + 1 /\ batch'[t] = Append(<<>>, recorded[t] + 1) /\ Ship(t)
        BY <2>6 DEF ShipAndRenew, WriteSlot
      <3>2. Placed(t, Shipped, rings'[t], <<>>, recorded[t], lost')
        BY <1>0, <3>1, ShipPlaces DEF Kept
      <3>3. <<>> \in Seq(1..MaxEvents) /\ recorded[t] \in Nat
        BY EmptySeq, PathTypes
      <3>4. Placed(t, Shipped, rings'[t], Append(<<>>, recorded[t] + 1), recorded[t] + 1, lost')
        BY <3>2, <3>3, WritePlaces
      <3>5. QED
        BY <2>1, <3>1, <3>4 DEF Kept
    <2>7. CASE u = t /\ FlushAtExit(t)
      <3>1. recorded'[t] = recorded[t] /\ FlushPartial(t)
        BY <2>7 DEF FlushAtExit
      <3>2. QED
        BY <1>0, <2>1, <3>1, FlushPlaces DEF Kept
    <2>8. QED
      BY <1>2, <2>2, <2>3, <2>4, <2>5, <2>6, <2>7 DEF Thread, ThreadStep
  <1>3. CASE DrainStep /\ DrainPop
    <2>1. Visited \in Threads
      BY <1>3, VisitedIsThread DEF DrainPop
    <2> DEFINE b == Head(rings[Visited])
    <2>2. rings[Visited] \in Seq(Batches) /\ rings[Visited] # <<>> /\ b \in Batches
      BY <1>3, <2>1, HeadTailProperties DEF DrainPop
    <2>3. Shipped' = Append(Shipped, b)
      <3>1. Shipped' = ((exported \o ring) \o fanin) \o Append(hand, b)
        BY <1>3 DEF DrainStep, DrainPop, Shipped
      <3>2. QED
        BY <2>2, <3>1, ShippedType, AppendMoves DEF Shipped
    <2>4. EventsIn(Shipped') = EventsIn(Shipped) \cup EventsOf(b)
      BY <2>3, ShippedType, EventsAppend
    <2>5. recorded'[t] = recorded[t] /\ batch'[t] = batch[t] /\ lost' = lost
      BY <1>3 DEF DrainPop
    <2>6. EventsIn(rings[t]) \subseteq EventsIn(rings'[t]) \cup EventsOf(b)
      <3>1. CASE t = Visited
        <4>1. rings'[t] = Tail(rings[t])
          BY <1>3, <3>1 DEF DrainPop
        <4>2. QED
          BY <2>2, <3>1, <4>1, EventsHead
      <3>2. CASE t # Visited
        BY <1>3, <3>2 DEF DrainPop
      <3>3. QED
        BY <3>1, <3>2
    <2>7. QED
      BY <1>0, <2>4, <2>5, <2>6 DEF Kept, Placed
  <1>4. CASE Serializer /\ ~(DrainStep /\ DrainPop)
    <2>1. UNCHANGED <<rings, batch, recorded>>
      BY <1>4 DEF Serializer, Leave, StartDrain, BeginDrain, NothingToDrain, DrainStep,
         DrainNext, Drained, CheckClosed, PushFanin, queueVars, producerVars
    <2>2. CASE PushFanin
      BY <1>1, <2>1, <2>2, ExporterKeepsShipped
    <2>3. CASE ~PushFanin
      <3>1. UNCHANGED <<exported, ring, fanin, hand>>
        BY <1>4, <2>3 DEF Serializer, Leave, StartDrain, BeginDrain, NothingToDrain,
           DrainStep, DrainNext, Drained, CheckClosed, queueVars
      <3>2. QED
        BY <1>1, <2>1, <3>1 DEF Shipped
    <2>4. QED
      BY <2>2, <2>3
  <1>5. CASE Writer
    <2>1. UNCHANGED <<rings, batch, recorded>>
      BY <1>5 DEF Writer, PopFanin, WriteBatch, WriteFails, RingWritten, FaninEmpty,
         IsFinished, LastPopFails, Finish, queueVars, producerVars
    <2>2. QED
      BY <1>1, <1>5, <2>1, ExporterKeepsShipped
  <1>6. CASE Ender \/ Terminated \/ UNCHANGED vars
    <2>1. Shipped' = Shipped
      BY <1>6 DEF Ender, Disable, StartFlush, BeginFlush, FlushOne, FlushThread, FlushReturns,
         EndFlush, ChargeFlush, RecordDropped, CloseQueue, Close, Join, Terminated, vars,
         queueVars, Shipped
    <2>2. CASE FlushOne(t)
      <3>1. recorded'[t] = recorded[t] /\ FlushPartial(t)
        BY <2>2 DEF FlushOne, FlushThread
      <3>2. QED
        BY <1>0, <2>1, <3>1, FlushPlaces DEF Kept
    <2>3. CASE ~FlushOne(t)
      <3>1. UNCHANGED <<rings[t], batch[t], recorded[t]>>
        <4>1. CASE \E u \in Threads : FlushOne(u)
          BY <2>3, <4>1 DEF FlushOne, FlushThread, FlushPartial, Ship
        <4>2. CASE ~\E u \in Threads : FlushOne(u)
          BY <1>6, <4>2 DEF Ender, Disable, StartFlush, BeginFlush, FlushReturns, EndFlush,
             ChargeFlush, RecordDropped, CloseQueue, Close, Join, Terminated, vars, queueVars,
             producerVars
        <4>3. QED
          BY <4>1, <4>2
      <3>2. QED
        BY <1>1, <2>1, <3>1
    <2>4. QED
      BY <2>2, <2>3
  <1>7. QED
    BY <1>2, <1>3, <1>4, <1>5, <1>6 DEF Next, Serializer

LEMMA AlwaysUnarmed == Spec => []Unarmed
  <1>1. Init => Unarmed
    BY DEF Init, QueueInit, Unarmed
  <1>2. QED
    BY <1>1, NextUnarmed, AlwaysIInv, PTL DEF Spec

\* Whatever ships, flushes, exits, fails to push or is cut short, every event a
\* thread has pushed is exported, on its way, in the thread's batch, or among
\* the losses: none disappears without a trace.
THEOREM NothingDisappears == Spec => []NothingVanishes
  <1>1. Init => NothingVanishes
    BY DEF Init, QueueInit, NothingVanishes
  <1>2. QED
    BY <1>1, NextKept, AlwaysUnarmed, AlwaysIInv, PTL DEF Spec

---------------------------------------------------------------------------
(* What is lost is counted once.                                            *)

LEMMA BatchCounts ==
  ASSUME NEW t \in Threads, NEW b \in Seq(1..MaxEvents), Sorted(b)
  PROVE  LET gone == EventsOf([tid |-> t, events |-> b])
         IN  IsFiniteSet(gone) /\ Cardinality(gone) = Len(b)
  <1> DEFINE gone == {t} \X {b[i] : i \in 1..Len(b)}
             f == [i \in 1..Len(b) |-> <<t, b[i]>>]
  <1>1. Len(b) \in Nat /\ DOMAIN b = 1..Len(b) /\ \A i \in 1..Len(b) : b[i] \in Nat
    <2>1. b \in [1..Len(b) -> 1..MaxEvents]
      BY LenProperties
    <2>2. QED
      BY <2>1, LenProperties, EventsAssumption
  <1>2. EventsOf([tid |-> t, events |-> b]) = gone
    BY <1>1 DEF EventsOf
  <1>3. \A i, j \in 1..Len(b) : f[i] = f[j] => i = j
    <2> SUFFICES ASSUME NEW i \in 1..Len(b), NEW j \in 1..Len(b), b[i] = b[j] PROVE i = j
      OBVIOUS
    <2>1. (i < j => b[i] < b[j]) /\ (j < i => b[j] < b[i])
      BY <1>1 DEF Sorted
    <2>2. QED
      BY <1>1, <2>1
  <1>4. f \in [1..Len(b) -> gone] /\ \A x \in gone : \E i \in 1..Len(b) : f[i] = x
    OBVIOUS
  <1>5. f \in Bijection(1..Len(b), gone)
    BY <1>3, <1>4 DEF Bijection, Injection, Surjection, IsInjective
  <1>6. IsFiniteSet(1..Len(b)) /\ Cardinality(1..Len(b)) = Len(b)
    BY <1>1, FS_Interval
  <1>7. IsFiniteSet(gone) /\ Cardinality(gone) = Cardinality(1..Len(b))
    <2>1. ExistsBijection(1..Len(b), gone)
      BY <1>5 DEF ExistsBijection
    <2> HIDE DEF gone
    <2>2. QED
      BY <1>6, <2>1, FS_Bijection
  <1>8. QED
    BY <1>2, <1>6, <1>7

\* Lost events come before those of the batch, so no event is lost twice.
LostEarlier ==
    \A t \in Threads : \A e \in 1..MaxEvents : <<t, e>> \in lost =>
        e <= recorded[t] /\ \A i \in DOMAIN batch[t] : e < batch[t][i]

\* A flush's losses are its caller's until it charges them.
Charged ==
    /\ uncharged \subseteq lost
    /\ ending \in {"running", "disabled"} => flush.lost = 0

\* Charging what a thread ships.
LEMMA ShipCounts ==
  ASSUME IInv, InOrder, LostEarlier, Charged, DroppedIsExact, NEW t \in Threads, Ship(t)
  PROVE  /\ Cardinality(lost' \ uncharged) = Cardinality(lost \ uncharged) + Rejected(t)
         /\ (lost' \ lost) \cap lost = {} /\ lost \subseteq lost'
         /\ Rejected(t) \in Nat
         /\ \A u \in Threads, e \in 1..MaxEvents : <<u, e>> \in lost' =>
               <<u, e>> \in lost \/ (u = t /\ \E i \in DOMAIN batch[t] : batch[t][i] = e)
  <1> DEFINE full == [tid |-> t, events |-> batch[t]]
             gone == EventsOf(full)
  <1>1. batch[t] \in Seq(1..MaxEvents) /\ lost \subseteq Events /\ Sorted(batch[t])
    BY DEF IInv, TypeOK, ThreadTypes, QueueTypes, InOrder, Chronological
  <1>2. IsFiniteSet(lost \ uncharged)
    <2>1. IsFiniteSet(Events)
      <3>1. IsFiniteSet(1..MaxEvents)
        BY FS_Interval, EventsAssumption
      <3>2. QED
        BY <3>1, FS_Product, ThreadsAssumption DEF Events
    <2>2. lost \ uncharged \in SUBSET Events
      BY <1>1
    <2>3. QED
      BY <2>1, <2>2, FS_Subset
  <1>3. Cardinality(lost \ uncharged) \in Nat
    BY <1>2, FS_CardinalityType
  <1>4. IsFiniteSet(gone) /\ Cardinality(gone) = Len(batch[t])
    BY <1>1, BatchCounts
  <1>5. gone \cap lost = {}
    <2> SUFFICES ASSUME NEW i \in DOMAIN batch[t], <<t, batch[t][i]>> \in lost PROVE FALSE
      BY DEF EventsOf
    <2>1. batch[t][i] \in 1..MaxEvents
      BY <1>1, LenProperties
    <2>2. batch[t][i] < batch[t][i]
      BY <2>1 DEF LostEarlier
    <2>3. QED
      BY <2>1, <2>2, EventsAssumption
  <1>6. \A u \in Threads, e \in 1..MaxEvents : <<u, e>> \in gone =>
           u = t /\ \E i \in DOMAIN batch[t] : batch[t][i] = e
    BY DEF EventsOf
  <1>7. Len(batch[t]) \in Nat
    BY <1>1, LenProperties
  <1> HIDE DEF gone
  <1>8. CASE RingHasRoom(t)
    BY <1>3, <1>8 DEF Ship, Rejected
  <1>9. CASE ~RingHasRoom(t)
    <2>1. lost' = lost \cup gone /\ Rejected(t) = Len(batch[t])
      BY <1>9 DEF Ship, Rejected, gone
    <2>2. lost' \ uncharged = (lost \ uncharged) \cup gone /\ (lost \ uncharged) \cap gone = {}
      BY <1>5, <2>1 DEF Charged
    <2>3. Cardinality((lost \ uncharged) \cup gone)
            = Cardinality(lost \ uncharged) + Cardinality(gone) - Cardinality((lost \ uncharged) \cap gone)
      BY <1>2, <1>4, FS_Union
    <2>4. Cardinality((lost \ uncharged) \cap gone) = 0
      BY <2>2, FS_EmptySet
    <2>5. Cardinality(lost' \ uncharged) = Cardinality(lost \ uncharged) + Rejected(t)
      <3>1. Cardinality(lost' \ uncharged) = Cardinality((lost \ uncharged) \cup gone)
        BY <2>2
      <3>2. Cardinality((lost \ uncharged) \cup gone) = Cardinality(lost \ uncharged) + Len(batch[t])
        BY <1>3, <1>4, <1>7, <2>3, <2>4
      <3>3. QED
        BY <2>1, <3>1, <3>2
    <2>6. QED
      BY <1>5, <1>6, <1>7, <2>1, <2>5
  <1>10. QED
    BY <1>8, <1>9

LEMMA FlushCounts ==
  ASSUME IInv, InOrder, LostEarlier, Charged, DroppedIsExact, NEW t \in Threads, FlushPartial(t)
  PROVE  /\ Cardinality(lost' \ uncharged) = Cardinality(lost \ uncharged) + Rejected(t)
         /\ (lost' \ lost) \cap lost = {} /\ lost \subseteq lost'
         /\ Rejected(t) \in Nat
         /\ \A u \in Threads, e \in 1..MaxEvents : <<u, e>> \in lost' =>
               <<u, e>> \in lost \/ (u = t /\ \E i \in DOMAIN batch[t] : batch[t][i] = e)
  <1>1. CASE batch[t] = <<>>
    <2>1. lost' = lost /\ Rejected(t) = 0
      BY <1>1, EmptySeq DEF FlushPartial, Rejected
    <2>2. dropped \in Nat /\ flush.lost \in Nat
      <3>1. dropped \in Nat /\ flush \in FlushCalls
        BY DEF IInv, TypeOK, QueueTypes
      <3>2. QED
        BY <3>1, FlushUpdate
    <2>3. Cardinality(lost \ uncharged) \in Nat
      <3>1. dropped + flush.lost \in Nat
        BY <2>2
      <3>2. QED
        BY <3>1 DEF DroppedIsExact
    <2>4. QED
      BY <2>1, <2>3
  <1>2. CASE batch[t] # <<>>
    BY <1>2, ShipCounts DEF FlushPartial
  <1>3. QED
    BY <1>1, <1>2

\* What thread t does to its batch keeps the losses behind it.
LEMMA StaysEarlier ==
  ASSUME IInv, InOrder, LostEarlier, NEW t \in Threads,
         recorded'[t] \in {recorded[t], recorded[t] + 1},
         \A u \in Threads : u # t => recorded'[u] = recorded[u] /\ batch'[u] = batch[u],
         \A i \in DOMAIN batch'[t] :
            \/ batch'[t][i] = recorded[t] + 1
            \/ lost' = lost /\ \E j \in DOMAIN batch[t] : batch'[t][i] = batch[t][j],
         \A u \in Threads, e \in 1..MaxEvents : <<u, e>> \in lost' =>
            <<u, e>> \in lost \/ (u = t /\ \E i \in DOMAIN batch[t] : batch[t][i] = e)
  PROVE  LostEarlier'
  <1> SUFFICES ASSUME NEW u \in Threads, NEW e \in 1..MaxEvents, <<u, e>> \in lost'
               PROVE  e <= recorded'[u] /\ \A i \in DOMAIN batch'[u] : e < batch'[u][i]
    BY DEF LostEarlier
  <1>1. CASE u # t
    BY <1>1 DEF LostEarlier
  <1>2. CASE u = t
    <2>1. recorded[t] \in Nat /\ e \in Nat /\ UpTo(batch[t], recorded[t])
      BY EventsAssumption, PathTypes DEF InOrder, Chronological
    <2>2. e <= recorded[t]
      BY <1>2, <2>1 DEF LostEarlier, UpTo
    <2>3. ASSUME NEW i \in DOMAIN batch'[t] PROVE e < batch'[t][i]
      <3>1. CASE batch'[t][i] = recorded[t] + 1
        BY <2>1, <2>2, <3>1
      <3>2. CASE lost' = lost /\ \E j \in DOMAIN batch[t] : batch'[t][i] = batch[t][j]
        BY <1>2, <3>2 DEF LostEarlier
      <3>3. QED
        BY <3>1, <3>2
    <2>4. QED
      BY <1>2, <2>1, <2>2, <2>3
  <1>3. QED
    BY <1>1, <1>2

LEMMA ThreadCounts ==
  ASSUME IInv, InOrder, LostEarlier, Charged, DroppedIsExact, Unarmed, NEW t \in Threads, Thread(t)
  PROVE  LostEarlier' /\ Charged' /\ DroppedIsExact'
  <1> USE DEF IInv, TypeOK, ThreadTypes, QueueTypes
  <1>0. ending' = ending
    BY DEF Thread
  <1>1. CASE EnterCallback(t) \/ InitProducer(t) \/ Forget(t)
    <2>1. UNCHANGED <<recorded, batch, lost, uncharged, dropped, flush, ending>>
      BY <1>0, <1>1 DEF EnterCallback, InitProducer, Forget
    <2>2. QED
      BY <2>1 DEF LostEarlier, Charged, DroppedIsExact
  <1>2. CASE PushFast(t) \/ RegisterCurrent(t)
    <2>1. UNCHANGED <<lost, uncharged, dropped, flush, ending>>
      BY <1>0, <1>2 DEF PushFast, RegisterCurrent
    <2>2. /\ recorded'[t] = recorded[t] + 1
          /\ \A u \in Threads : u # t => recorded'[u] = recorded[u] /\ batch'[u] = batch[u]
      BY <1>2 DEF PushFast, RegisterCurrent, WriteSlot
    <2>3. batch'[t] = Append(batch[t], recorded[t] + 1)
      <3>1. CASE PushFast(t)
        BY <3>1 DEF PushFast, WriteSlot
      <3>2. CASE RegisterCurrent(t)
        <4>1. batch[t] = <<>>
          BY <3>2 DEF RegisterCurrent, Unarmed
        <4>2. QED
          BY <3>2, <4>1 DEF RegisterCurrent, WriteSlot
      <3>3. QED
        BY <1>2, <3>1, <3>2
    <2>4. \A i \in DOMAIN batch'[t] :
             batch'[t][i] = recorded[t] + 1 \/ \E j \in DOMAIN batch[t] : batch'[t][i] = batch[t][j]
      BY <2>3, PathTypes, LenProperties
    <2>5. LostEarlier'
      BY <2>1, <2>2, <2>4, StaysEarlier
    <2>6. QED
      BY <2>1, <2>5 DEF Charged, DroppedIsExact
  <1>3. CASE ShipAndRenew(t)
    <2>1. /\ Ship(t) /\ dropped' = dropped + Rejected(t) /\ UNCHANGED <<uncharged, flush, ending>>
          /\ batch'[t] = Append(<<>>, recorded[t] + 1) /\ recorded'[t] = recorded[t] + 1
          /\ \A u \in Threads : u # t => recorded'[u] = recorded[u] /\ batch'[u] = batch[u]
      BY <1>0, <1>3 DEF ShipAndRenew, WriteSlot
    <2>2. \A i \in DOMAIN batch'[t] : batch'[t][i] = recorded[t] + 1
      BY <2>1, PathTypes
    <2>3. /\ Cardinality(lost' \ uncharged) = Cardinality(lost \ uncharged) + Rejected(t)
          /\ lost \subseteq lost' /\ Rejected(t) \in Nat
          /\ \A u \in Threads, e \in 1..MaxEvents : <<u, e>> \in lost' =>
               <<u, e>> \in lost \/ (u = t /\ \E i \in DOMAIN batch[t] : batch[t][i] = e)
      BY <2>1, ShipCounts
    <2>4. LostEarlier'
      BY <2>1, <2>2, <2>3, StaysEarlier
    <2>5. dropped \in Nat /\ flush.lost \in Nat
      BY FlushUpdate
    <2>6. DroppedIsExact'
      <3>1. dropped' + flush'.lost = (dropped + flush.lost) + Rejected(t)
        BY <2>1, <2>3, <2>5
      <3>2. QED
        BY <2>1, <2>3, <3>1 DEF DroppedIsExact
    <2>7. QED
      BY <2>1, <2>3, <2>4, <2>6 DEF Charged
  <1>4. CASE FlushAtExit(t)
    <2>1. /\ FlushPartial(t) /\ uncharged' = uncharged \cup (lost' \ lost)
          /\ UNCHANGED <<dropped, flush, ending, recorded>>
          /\ batch'[t] = <<>> /\ \A u \in Threads : u # t => batch'[u] = batch[u]
      BY <1>0, <1>4 DEF FlushAtExit, FlushPartial
    <2>2. /\ lost \subseteq lost' /\ (lost' \ lost) \cap lost = {}
          /\ \A u \in Threads, e \in 1..MaxEvents : <<u, e>> \in lost' =>
               <<u, e>> \in lost \/ (u = t /\ \E i \in DOMAIN batch[t] : batch[t][i] = e)
      BY <2>1, FlushCounts
    <2>3. \A i \in DOMAIN batch'[t] : FALSE
      BY <2>1, EmptySeq
    <2>4. LostEarlier'
      BY <2>1, <2>2, <2>3, StaysEarlier
    <2>5. lost' \ uncharged' = lost \ uncharged
      BY <2>1, <2>2 DEF Charged
    <2>6. QED
      BY <2>1, <2>2, <2>4, <2>5 DEF Charged, DroppedIsExact
  <1>5. QED
    BY <1>1, <1>2, <1>3, <1>4 DEF Thread, ThreadStep

LEMMA EnderCounts ==
  ASSUME IInv, InOrder, LostEarlier, Charged, DroppedIsExact, Ender
  PROVE  LostEarlier' /\ Charged' /\ DroppedIsExact'
  <1> USE DEF IInv, TypeOK, ThreadTypes, QueueTypes, ExporterTypes
  <1>0. flush \in FlushCalls /\ dropped \in Nat
    OBVIOUS
  <1>1. CASE Disable \/ CloseQueue \/ Join
    <2>1. UNCHANGED <<recorded, batch, lost, uncharged, dropped, flush>>
      BY <1>1 DEF Disable, CloseQueue, Close, Join, queueVars, producerVars
    <2>2. ending' \in {"running", "disabled"} => ending \in {"running", "disabled"}
      BY <1>1 DEF Disable, CloseQueue, Join
    <2>3. QED
      BY <2>1, <2>2 DEF LostEarlier, Charged, DroppedIsExact
  <1>2. CASE StartFlush
    <2>1. /\ flush.lost = 0 /\ flush'.lost = 0 /\ ending' = "flushing"
          /\ UNCHANGED <<recorded, batch, lost, uncharged, dropped>>
      BY <1>2 DEF StartFlush, BeginFlush, Charged
    <2>2. QED
      BY <2>1 DEF LostEarlier, Charged, DroppedIsExact
  <1>3. ASSUME NEW t \in Threads, FlushOne(t)
        PROVE  LostEarlier' /\ Charged' /\ DroppedIsExact'
    <2>1. /\ FlushPartial(t) /\ ending = "flushing" /\ UNCHANGED <<uncharged, dropped, ending, recorded>>
          /\ flush' = [flush EXCEPT !.left = @ \ {t}, !.lost = @ + Rejected(t)]
          /\ batch'[t] = <<>> /\ \A u \in Threads : u # t => batch'[u] = batch[u]
      BY <1>3 DEF FlushOne, FlushThread, FlushPartial
    <2>2. /\ Cardinality(lost' \ uncharged) = Cardinality(lost \ uncharged) + Rejected(t)
          /\ lost \subseteq lost' /\ Rejected(t) \in Nat
          /\ \A u \in Threads, e \in 1..MaxEvents : <<u, e>> \in lost' =>
               <<u, e>> \in lost \/ (u = t /\ \E i \in DOMAIN batch[t] : batch[t][i] = e)
      BY <2>1, FlushCounts
    <2>3. \A i \in DOMAIN batch'[t] : FALSE
      BY <2>1, EmptySeq
    <2>4. LostEarlier'
      BY <2>1, <2>2, <2>3, StaysEarlier
    <2>5. flush.lost \in Nat /\ flush'.lost = flush.lost + Rejected(t)
      BY <1>0, <2>1 DEF FlushCalls
    <2>6. dropped' + flush'.lost = (dropped + flush.lost) + Rejected(t)
      BY <1>0, <2>1, <2>2, <2>5
    <2>7. QED
      BY <2>1, <2>2, <2>4, <2>6 DEF Charged, DroppedIsExact
  <1>4. CASE FlushReturns
    <2>1. flush'.lost = flush.lost /\ ending' = "flushed" /\ UNCHANGED <<recorded, batch, lost, uncharged, dropped>>
      BY <1>0, <1>4 DEF FlushReturns, EndFlush, FlushCalls
    <2>2. QED
      BY <2>1 DEF LostEarlier, Charged, DroppedIsExact
  <1>5. CASE ChargeFlush
    <2>1. /\ flush'.lost = 0 /\ dropped' = dropped + flush.lost /\ ending' = "charged"
          /\ UNCHANGED <<recorded, batch, lost, uncharged>>
      BY <1>0, <1>5 DEF ChargeFlush, RecordDropped, FlushCalls
    <2>2. flush.lost \in Nat
      BY <1>0 DEF FlushCalls
    <2>3. dropped' + flush'.lost = dropped + flush.lost
      BY <1>0, <2>1, <2>2
    <2>4. QED
      BY <2>1, <2>3 DEF LostEarlier, Charged, DroppedIsExact
  <1>6. QED
    BY <1>1, <1>2, <1>3, <1>4, <1>5 DEF Ender

LEMMA NextCounts ==
  ASSUME IInv, InOrder, LostEarlier, Charged, DroppedIsExact, Unarmed, [Next]_vars
  PROVE  LostEarlier' /\ Charged' /\ DroppedIsExact'
  <1>1. CASE Serializer
    <2>1. UNCHANGED <<recorded, batch, lost, uncharged, dropped, flush, ending>>
      BY <1>1 DEF Serializer, Leave, StartDrain, BeginDrain, NothingToDrain, DrainStep, DrainPop,
         DrainNext, Drained, CheckClosed, PushFanin, queueVars, producerVars
    <2>2. QED
      BY <2>1 DEF LostEarlier, Charged, DroppedIsExact
  <1>2. CASE Writer \/ Terminated \/ UNCHANGED vars
    <2>1. UNCHANGED <<recorded, batch, lost, uncharged, dropped, flush, ending>>
      BY <1>2 DEF Writer, PopFanin, WriteBatch, WriteFails, RingWritten, FaninEmpty,
         IsFinished, LastPopFails, Finish, Terminated, vars, queueVars, producerVars
    <2>2. QED
      BY <2>1 DEF LostEarlier, Charged, DroppedIsExact
  <1>3. QED
    BY <1>1, <1>2, ThreadCounts, EnderCounts DEF Next

LEMMA InitCounts == Init => LostEarlier /\ Charged /\ DroppedIsExact
  <1> SUFFICES ASSUME Init PROVE LostEarlier /\ Charged /\ DroppedIsExact
    OBVIOUS
  <1>1. lost = {} /\ uncharged = {} /\ dropped = 0 /\ flush.lost = 0
    BY DEF Init, QueueInit
  <1>2. Cardinality(lost \ uncharged) = 0
    BY <1>1, FS_EmptySet
  <1>3. QED
    BY <1>1, <1>2 DEF LostEarlier, Charged, DroppedIsExact

\* Threads that ship, a flush and its caller count every lost event of a thread
\* that has not exited, and none of them twice.
THEOREM LossesCounted == Spec => []DroppedIsExact
  <1>1. Init => Unarmed
    BY DEF Init, QueueInit, Unarmed
  <1>2. QED
    BY <1>1, InitCounts, NextCounts, NextUnarmed, OrderKept, AlwaysIInv, PTL DEF Spec
---------------------------------------------------------------------------
(* Streams: the events of one thread in a sequence of batches.              *)

\* What thread t has in a batch.
Share(t, b) == IF b.tid = t THEN b.events ELSE <<>>

LEMMA ShareType ==
  ASSUME NEW t, NEW b \in Batches
  PROVE  Share(t, b) \in Seq(1..MaxEvents)
  <1>1. b.events \in Seq(1..MaxEvents) /\ <<>> \in Seq(1..MaxEvents)
    BY EmptySeq DEF Batches
  <1>2. QED
    BY <1>1 DEF Share

LEMMA SharesType ==
  ASSUME NEW t, NEW s \in Seq(Batches)
  PROVE  /\ [i \in 1..Len(s) |-> Share(t, s[i])] \in Seq(Seq(1..MaxEvents))
         /\ Stream(t, s) = FlattenSeq([i \in 1..Len(s) |-> Share(t, s[i])])
  <1>1. Len(s) \in Nat /\ DOMAIN s = 1..Len(s) /\ \A i \in 1..Len(s) : s[i] \in Batches
    BY LenProperties, ElementOfSeq
  <1>2. \A i \in 1..Len(s) : Share(t, s[i]) \in Seq(1..MaxEvents)
    BY <1>1, ShareType
  <1>3. [i \in 1..Len(s) |-> Share(t, s[i])] \in Seq(Seq(1..MaxEvents))
    BY <1>1, <1>2, IsASeq
  <1>4. [i \in DOMAIN s |-> IF s[i].tid = t THEN s[i].events ELSE <<>>] = [i \in 1..Len(s) |-> Share(t, s[i])]
    BY <1>1 DEF Share
  <1>5. QED
    BY <1>3, <1>4 DEF Stream

LEMMA StreamAppend ==
  ASSUME NEW t, NEW s \in Seq(Batches), NEW b \in Batches
  PROVE  Stream(t, Append(s, b)) = Stream(t, s) \o Share(t, b) /\ Stream(t, s) \in Seq(1..MaxEvents)
  <1> DEFINE shares == [i \in 1..Len(s) |-> Share(t, s[i])]
             more == [i \in 1..Len(Append(s, b)) |-> Share(t, Append(s, b)[i])]
  <1>1. shares \in Seq(Seq(1..MaxEvents)) /\ Stream(t, s) = FlattenSeq(shares)
    BY SharesType
  <1>2. Append(s, b) \in Seq(Batches) /\ Len(Append(s, b)) = Len(s) + 1 /\ Len(s) \in Nat
    BY AppendProperties, LenProperties
  <1>3. more \in Seq(Seq(1..MaxEvents)) /\ Stream(t, Append(s, b)) = FlattenSeq(more)
    BY <1>2, SharesType
  <1>4. Share(t, b) \in Seq(1..MaxEvents)
    BY ShareType
  <1>5. more = Append(shares, Share(t, b))
    <2> DEFINE longer == Append(shares, Share(t, b))
    <2>1. Len(shares) = Len(s) /\ \A i \in 1..Len(s) : shares[i] = Share(t, s[i])
      BY <1>2
    <2>2. Len(more) = Len(s) + 1 /\ \A i \in 1..(Len(s) + 1) : more[i] = Share(t, Append(s, b)[i])
      BY <1>2
    <2>3. (\A i \in 1..Len(s) : Append(s, b)[i] = s[i]) /\ Append(s, b)[Len(s) + 1] = b
      BY AppendProperties
    <2> HIDE DEF shares, more
    <2>4. /\ longer \in Seq(Seq(1..MaxEvents)) /\ Len(longer) = Len(s) + 1
          /\ \A i \in 1..Len(s) : longer[i] = shares[i]
          /\ longer[Len(s) + 1] = Share(t, b)
      BY <1>1, <1>4, <2>1, AppendProperties
    <2> HIDE DEF longer
    <2>5. ASSUME NEW i \in 1..(Len(s) + 1) PROVE more[i] = longer[i]
      <3>1. CASE i \in 1..Len(s)
        BY <2>1, <2>2, <2>3, <2>4, <3>1
      <3>2. CASE i = Len(s) + 1
        BY <2>2, <2>3, <2>4, <3>2
      <3>3. QED
        BY <1>2, <3>1, <3>2
    <2>6. more = longer
      BY <1>3, <2>2, <2>4, <2>5, SeqEqual
    <2>7. QED
      BY <2>6 DEF longer
  <1> HIDE DEF shares, more
  <1>6. FlattenSeq(Append(shares, Share(t, b))) = FlattenSeq(shares) \o Share(t, b)
        /\ FlattenSeq(shares) \in Seq(1..MaxEvents)
    BY <1>1, <1>4, FlattenAppend
  <1>7. QED
    BY <1>1, <1>3, <1>5, <1>6

LEMMA StreamEmpty ==
  ASSUME NEW t
  PROVE  Stream(t, <<>>) = <<>>
  <1> DEFINE none == [i \in DOMAIN <<>> |-> IF <<>>[i].tid = t THEN <<>>[i].events ELSE <<>>]
  <1>1. none = <<>> /\ Len(<<>>) = 0
    OBVIOUS
  <1> HIDE DEF none
  <1>2. FlattenSeq(none) = <<>>
    BY <1>1 DEF FlattenSeq
  <1>3. QED
    BY <1>2 DEF Stream, none

LEMMA StreamType ==
  ASSUME NEW t, NEW s \in Seq(Batches)
  PROVE  Stream(t, s) \in Seq(1..MaxEvents)
  <1>1. CASE s = <<>>
    BY <1>1, StreamEmpty, EmptySeq
  <1>2. CASE s # <<>>
    <2>1. PICK b \in Batches : TRUE
      BY <1>2, HeadTailProperties
    <2>2. QED
      BY <2>1, StreamAppend
  <1>3. QED
    BY <1>1, <1>2

LEMMA EventsAssociate ==
  ASSUME NEW x \in Seq(1..MaxEvents), NEW y \in Seq(1..MaxEvents), NEW z \in Seq(1..MaxEvents)
  PROVE  (x \o y) \o z = x \o (y \o z)
  <1>1. PICK S : S = 1..MaxEvents
    OBVIOUS
  <1>2. x \in Seq(S) /\ y \in Seq(S) /\ z \in Seq(S)
    BY <1>1
  <1>3. QED
    BY <1>2, ConcatAssociative

LEMMA StreamConcat ==
  ASSUME NEW t, NEW s \in Seq(Batches), NEW r \in Seq(Batches)
  PROVE  Stream(t, s \o r) = Stream(t, s) \o Stream(t, r)
  <1> DEFINE Holds(q) == Stream(t, s \o q) = Stream(t, s) \o Stream(t, q)
             T == {n \in Nat : \A q \in Seq(Batches) : Len(q) = n => Holds(q)}
  <1>1. 0 \in T
    <2> SUFFICES ASSUME NEW q \in Seq(Batches), Len(q) = 0 PROVE Holds(q)
      OBVIOUS
    <2>1. q = <<>>
      BY EmptySeq
    <2>2. s \o q = s
      BY <2>1, ConcatEmptySeq
    <2>3. Stream(t, q) = <<>>
      BY <2>1, StreamEmpty
    <2>4. PICK b \in Seq(1..MaxEvents) : b = Stream(t, s)
      BY StreamType
    <2>5. b \o <<>> = b
      BY ConcatEmptySeq
    <2>6. QED
      BY <2>2, <2>3, <2>4, <2>5
  <1>2. ASSUME NEW n \in 1..Len(r), n - 1 \in T PROVE n \in T
    <2> SUFFICES ASSUME NEW q \in Seq(Batches), Len(q) = n PROVE Holds(q)
      OBVIOUS
    <2>1. q # <<>>
      BY EmptySeq
    <2>2. PICK p \in Seq(Batches), b \in Batches : q = Append(p, b)
      BY <2>1, SequenceEmptyOrAppend
    <2>3. Len(p) = n - 1
      BY <2>2, AppendProperties, LenProperties
    <2>4. Stream(t, s \o p) = Stream(t, s) \o Stream(t, p)
      BY <1>2, <2>3
    <2>5. s \o q = Append(s \o p, b)
      BY <2>2, AppendMoves
    <2>6. s \o p \in Seq(Batches)
      BY ConcatProperties
    <2>7. Stream(t, s \o q) = Stream(t, s \o p) \o Share(t, b)
      BY <2>5, <2>6, StreamAppend
    <2>8. Stream(t, q) = Stream(t, p) \o Share(t, b)
      BY <2>2, StreamAppend
    <2>9. /\ Stream(t, s) \in Seq(1..MaxEvents) /\ Stream(t, p) \in Seq(1..MaxEvents)
          /\ Share(t, b) \in Seq(1..MaxEvents)
      BY StreamAppend, ShareType
    <2>10. (Stream(t, s) \o Stream(t, p)) \o Share(t, b) = Stream(t, s) \o (Stream(t, p) \o Share(t, b))
      BY <2>9, EventsAssociate
    <2>11. QED
      BY <2>4, <2>7, <2>8, <2>10
  <1>3. Len(r) \in T
    <2> HIDE DEF T
    <2>1. T \subseteq Nat
      BY DEF T
    <2>2. Len(r) \in Nat
      BY LenProperties
    <2>3. QED
      BY <1>1, <1>2, <2>1, <2>2, NatSteps
  <1>4. QED
    BY <1>3

---------------------------------------------------------------------------
(* The exporter is a lossy log.                                             *)

\* Taken out of t's ring and not exported, or still in it.
Unread(t) == ring \o fanin \o hand \o rings[t]
Pending(t) == Stream(t, Unread(t)) \o batch[t]
Delivered(t) == Stream(t, exported)
LogCharged == dropped + flush.lost

\* Only a thread that may exit leaves.
OnlyExiting == \A t \in Threads : life[t] # "alive" => t \in Exiting

LEMMA NextOnlyExiting ==
  ASSUME IInv, OnlyExiting, [Next]_vars
  PROVE  OnlyExiting'
  <1> USE DEF IInv, TypeOK, ThreadTypes
  <1>1. ASSUME NEW t \in Threads, Thread(t) PROVE OnlyExiting'
    <2>1. CASE Forget(t) \/ FlushAtExit(t)
      <3>1. t \in Exiting
        BY <2>1 DEF Forget, FlushAtExit, OnlyExiting
      <3>2. \A u \in Threads : u # t => life'[u] = life[u]
        BY <2>1 DEF Forget, FlushAtExit
      <3>3. QED
        BY <3>1, <3>2 DEF OnlyExiting
    <2>2. CASE ~(Forget(t) \/ FlushAtExit(t))
      BY <1>1, <2>2 DEF Thread, ThreadStep, EnterCallback, PushFast, InitProducer, RegisterCurrent,
         ShipAndRenew, OnlyExiting
    <2>3. QED
      BY <2>1, <2>2
  <1>2. Serializer \/ Writer \/ Ender \/ Terminated \/ UNCHANGED vars => UNCHANGED life
    BY DEF Serializer, Leave, StartDrain, BeginDrain, NothingToDrain, DrainStep, DrainPop,
       DrainNext, Drained, CheckClosed, PushFanin, Writer, PopFanin, WriteBatch, WriteFails,
       RingWritten, FaninEmpty, IsFinished, LastPopFails, Finish, Ender, Disable, StartFlush,
       BeginFlush, FlushOne, FlushThread, FlushReturns, EndFlush, ChargeFlush, RecordDropped,
       CloseQueue, Close, Join, Terminated, vars, queueVars, producerVars
  <1>3. QED
    BY <1>1, <1>2 DEF Next, OnlyExiting

LogInv == IInv /\ InOrder /\ Unarmed /\ Charged /\ OnlyExiting

LEMMA LogTypes ==
  ASSUME LogInv, NEW t \in Threads
  PROVE  /\ ring \in Seq(Batches) /\ fanin \in Seq(Batches) /\ hand \in Seq(Batches)
         /\ rings[t] \in Seq(Batches) /\ exported \in Seq(Batches)
         /\ batch[t] \in Seq(1..MaxEvents) /\ recorded[t] \in Nat
         /\ ring \o fanin \in Seq(Batches) /\ (ring \o fanin) \o hand \in Seq(Batches)
         /\ Unread(t) \in Seq(Batches)
         /\ Stream(t, Unread(t)) \in Seq(1..MaxEvents) /\ Delivered(t) \in Seq(1..MaxEvents)
         /\ Pending(t) \in Seq(1..MaxEvents)
  <1>1. /\ ring \in Seq(Batches) /\ fanin \in Seq(Batches) /\ hand \in Seq(Batches)
        /\ exported \in Seq(Batches)
    BY ShippedType DEF LogInv
  <1>2. rings[t] \in Seq(Batches) /\ batch[t] \in Seq(1..MaxEvents) /\ recorded[t] \in Nat
    BY PathTypes DEF LogInv
  <1>3. ring \o fanin \in Seq(Batches)
    BY <1>1, ConcatProperties
  <1>4. (ring \o fanin) \o hand \in Seq(Batches)
    BY <1>1, <1>3, ConcatProperties
  <1>5. Unread(t) \in Seq(Batches)
    BY <1>2, <1>4, ConcatProperties DEF Unread
  <1>6. Stream(t, Unread(t)) \in Seq(1..MaxEvents)
    BY <1>5, StreamType
  <1>7. Delivered(t) \in Seq(1..MaxEvents)
    BY <1>1, StreamType DEF Delivered
  <1>8. Pending(t) \in Seq(1..MaxEvents)
    BY <1>2, <1>6, ConcatProperties DEF Pending
  <1>9. QED
    BY <1>1, <1>2, <1>3, <1>4, <1>5, <1>6, <1>7, <1>8

\* What a step has to show of the log's variables to be one of the log's.
Stays ==
    /\ \A t \in Threads : Pending(t)' = Pending(t) /\ Delivered(t)' = Delivered(t)
    /\ UNCHANGED <<recorded, LogCharged>> /\ (writer' = "finished" <=> writer = "finished")

LEMMA StaysStutters ==
  ASSUME Stays
  PROVE  UNCHANGED Log!logVars
  BY DEF Stays, Log!logVars, Pending, Unread, Delivered, LogCharged

\* The variables of the log, as LossyLog writes them.
LogNext == [t \in Threads |-> recorded[t] + 1]
LogPending == [t \in Threads |-> Pending(t)]
LogDelivered == [t \in Threads |-> Delivered(t)]

LEMMA LogRecord ==
  ASSUME NEW t \in Threads
  PROVE  Log!Record(t) <=>
           /\ LogPending' = [LogPending EXCEPT ![t] = Append(@, LogNext[t])]
           /\ LogNext' = [LogNext EXCEPT ![t] = @ + 1]
           /\ UNCHANGED <<LogDelivered, LogCharged, writer = "finished">>
  BY DEF Log!Record, LogPending, LogNext, LogDelivered, LogCharged, Pending, Unread, Delivered

LEMMA LogDeliver ==
  ASSUME NEW t \in Threads, NEW n
  PROVE  Log!Deliver(t, n) <=>
           /\ writer # "finished"
           /\ LogDelivered' = [LogDelivered EXCEPT ![t] = @ \o SubSeq(LogPending[t], 1, n)]
           /\ LogPending' = [LogPending EXCEPT ![t] = SubSeq(@, n + 1, Len(@))]
           /\ UNCHANGED <<LogNext, LogCharged, writer = "finished">>
  BY DEF Log!Deliver, LogPending, LogNext, LogDelivered, LogCharged, Pending, Unread, Delivered

LEMMA LogLose ==
  ASSUME NEW t \in Threads, NEW n
  PROVE  Log!Lose(t, n) <=>
           /\ LogPending' = [LogPending EXCEPT ![t] = SubSeq(@, 1, Len(@) - n)]
           /\ LogCharged' = LogCharged + n
           /\ UNCHANGED <<LogNext, LogDelivered, writer = "finished">>
  BY DEF Log!Lose, Log!Newest, LogPending, LogNext, LogDelivered, LogCharged, Pending, Unread, Delivered

LEMMA LogLoseAndRecord ==
  ASSUME NEW t \in Threads, NEW n
  PROVE  Log!LoseAndRecord(t, n) <=>
           /\ LogPending' = [LogPending EXCEPT ![t] = Append(SubSeq(@, 1, Len(@) - n), LogNext[t])]
           /\ LogNext' = [LogNext EXCEPT ![t] = @ + 1]
           /\ LogCharged' = LogCharged + n
           /\ UNCHANGED <<LogDelivered, writer = "finished">>
  BY DEF Log!LoseAndRecord, LogPending, LogNext, LogDelivered, LogCharged, Pending, Unread, Delivered

LEMMA LogVanish ==
  ASSUME NEW t \in Threads, NEW n
  PROVE  Log!Vanish(t, n) <=>
           /\ t \in Exiting
           /\ LogPending' = [LogPending EXCEPT ![t] = SubSeq(@, 1, Len(@) - n)]
           /\ UNCHANGED <<LogNext, LogDelivered, LogCharged, writer = "finished">>
  BY DEF Log!Vanish, Log!Newest, LogPending, LogNext, LogDelivered, LogCharged, Pending, Unread, Delivered

LEMMA LogFinish ==
  Log!Finish <=> /\ (writer = "finished")' = TRUE
                 /\ UNCHANGED <<LogNext, LogPending, LogDelivered, LogCharged>>
  BY DEF Log!Finish, LogPending, LogNext, LogDelivered, LogCharged, Pending, Unread, Delivered

LEMMA LogSteps ==
  /\ \A t \in Threads : Log!Record(t) => Log!Next
  /\ \A t \in Threads : \A n \in 1..Len(LogPending[t]) :
        Log!Deliver(t, n) \/ Log!Lose(t, n) \/ Log!LoseAndRecord(t, n) \/ Log!Vanish(t, n) => Log!Next
  /\ Log!Finish => Log!Next
  BY DEF Log!Next, LogPending, Pending, Unread

---------------------------------------------------------------------------
(* What the steps do to the events at hand.                                 *)

LEMMA AppendLast ==
  ASSUME NEW x \in Seq(1..MaxEvents), NEW y \in Seq(1..MaxEvents), NEW e \in 1..MaxEvents
  PROVE  x \o Append(y, e) = Append(x \o y, e)
  <1>1. Append(y, e) = y \o <<e>>
    BY AppendIsConcat
  <1>2. x \o y \in Seq(1..MaxEvents) /\ <<e>> \in Seq(1..MaxEvents)
    BY ConcatProperties
  <1>3. Append(x \o y, e) = (x \o y) \o <<e>>
    BY <1>2, AppendIsConcat
  <1>4. (x \o y) \o <<e>> = x \o (y \o <<e>>)
    BY <1>2, EventsAssociate
  <1>5. QED
    BY <1>1, <1>3, <1>4

\* The two halves of a concatenation, by their lengths.
LEMMA Halves ==
  ASSUME NEW x \in Seq(1..MaxEvents), NEW y \in Seq(1..MaxEvents)
  PROVE  /\ Len(x \o y) = Len(x) + Len(y) /\ Len(x) \in Nat /\ Len(y) \in Nat
         /\ SubSeq(x \o y, 1, Len(x \o y) - Len(y)) = x
         /\ SubSeq(x \o y, 1, Len(x)) = x
         /\ SubSeq(x \o y, Len(x) + 1, Len(x \o y)) = y
  <1> DEFINE z == x \o y
  <1>1. /\ z \in Seq(1..MaxEvents) /\ Len(z) = Len(x) + Len(y)
        /\ Len(x) \in Nat /\ Len(y) \in Nat
        /\ \A i \in 1..(Len(x) + Len(y)) : z[i] = IF i <= Len(x) THEN x[i] ELSE y[i - Len(x)]
    BY ConcatProperties, LenProperties
  <1> HIDE DEF z
  <1>2. \A i \in 1..Len(z) : z[i] \in 1..MaxEvents
    BY <1>1, ElementOfSeq
  <1>3. SubSeq(z, 1, Len(x)) = x
    <2> DEFINE l == SubSeq(z, 1, Len(x))
    <2>1. \A i \in 1..Len(x) : z[i] \in 1..MaxEvents
      BY <1>1, <1>2
    <2>2. l \in Seq(1..MaxEvents) /\ Len(l) = IF 1 <= Len(x) THEN Len(x) - 1 + 1 ELSE 0
      BY <1>1, <2>1, SubSeqProperties
    <2>3. \A i \in 1..(Len(x) - 1 + 1) : l[i] = z[1 + i - 1]
      BY <1>1, <2>1, SubSeqProperties
    <2> HIDE DEF l
    <2>4. Len(l) = Len(x)
      BY <1>1, <2>2
    <2>5. ASSUME NEW i \in 1..Len(l) PROVE l[i] = x[i]
      <3>1. i \in 1..(Len(x) - 1 + 1) /\ 1 + i - 1 = i /\ i <= Len(x) /\ i \in 1..(Len(x) + Len(y))
        BY <1>1, <2>4
      <3>2. l[i] = z[i]
        BY <2>3, <3>1
      <3>3. QED
        BY <1>1, <3>1, <3>2
    <2>6. QED
      BY <2>2, <2>4, <2>5, SeqEqual DEF l
  <1>4. SubSeq(z, Len(x) + 1, Len(z)) = y
    <2> DEFINE l == SubSeq(z, Len(x) + 1, Len(z))
    <2>1. \A i \in (Len(x) + 1)..Len(z) : z[i] \in 1..MaxEvents
      BY <1>1, <1>2
    <2>2. Len(x) + 1 \in Int /\ Len(z) \in Int
      BY <1>1
    <2>3. l \in Seq(1..MaxEvents)
          /\ Len(l) = IF Len(x) + 1 <= Len(z) THEN Len(z) - (Len(x) + 1) + 1 ELSE 0
      BY <2>1, <2>2, SubSeqProperties
    <2>4. \A i \in 1..(Len(z) - (Len(x) + 1) + 1) : l[i] = z[(Len(x) + 1) + i - 1]
      BY <2>1, <2>2, SubSeqProperties
    <2> HIDE DEF l
    <2>5. Len(l) = Len(y)
      BY <1>1, <2>3
    <2>6. ASSUME NEW i \in 1..Len(l) PROVE l[i] = y[i]
      <3>1. /\ i \in 1..(Len(z) - (Len(x) + 1) + 1) /\ (Len(x) + 1) + i - 1 = Len(x) + i
            /\ ~(Len(x) + i <= Len(x)) /\ Len(x) + i \in 1..(Len(x) + Len(y)) /\ (Len(x) + i) - Len(x) = i
        BY <1>1, <2>5
      <3>2. l[i] = z[Len(x) + i]
        BY <2>4, <3>1
      <3>3. z[Len(x) + i] = y[(Len(x) + i) - Len(x)]
        BY <1>1, <3>1
      <3>4. QED
        BY <3>1, <3>2, <3>3
    <2>7. QED
      BY <2>3, <2>5, <2>6, SeqEqual DEF l
  <1>5. Len(z) - Len(y) = Len(x)
    BY <1>1
  <1>6. QED
    BY <1>1, <1>3, <1>4, <1>5 DEF z

\* A batch that comes into the ring is a batch that t has left.
LEMMA ShippedPends ==
  ASSUME LogInv, NEW t \in Threads, UNCHANGED <<ring, fanin, hand>>,
         rings'[t] = Append(rings[t], [tid |-> t, events |-> batch[t]])
  PROVE  Stream(t, Unread(t))' = Pending(t)
  <1> DEFINE full == [tid |-> t, events |-> batch[t]]
             before == (ring \o fanin) \o hand
  <1>1. full \in Batches /\ Share(t, full) = batch[t]
    BY LogTypes DEF Batches, Share
  <1>2. before \in Seq(Batches) /\ rings[t] \in Seq(Batches)
    BY LogTypes
  <1>3. Unread(t)' = before \o Append(rings[t], full)
    BY DEF Unread
  <1>4. Unread(t) = before \o rings[t]
    BY DEF Unread
  <1> HIDE DEF full, before
  <1>5. before \o Append(rings[t], full) = Append(before \o rings[t], full)
    BY <1>1, <1>2, AppendMoves
  <1>6. before \o rings[t] \in Seq(Batches)
    BY <1>2, ConcatProperties
  <1>7. Stream(t, Append(before \o rings[t], full)) = Stream(t, before \o rings[t]) \o Share(t, full)
    BY <1>1, <1>6, StreamAppend
  <1>8. Stream(t, Unread(t))' = Stream(t, Append(before \o rings[t], full))
    BY <1>3, <1>5
  <1>9. QED
    BY <1>1, <1>4, <1>7, <1>8 DEF Pending

\* The concatenation, as an operator that the provers leave alone.
Glued(u, v) == u \o v

LEMMA GluedAssociate ==
  ASSUME NEW u \in Seq(1..MaxEvents), NEW v \in Seq(1..MaxEvents), NEW w \in Seq(1..MaxEvents)
  PROVE  Glued(Glued(u, v), w) = Glued(u, Glued(v, w)) /\ Glued(u, v) \in Seq(1..MaxEvents)
  BY EventsAssociate, ConcatProperties DEF Glued

Regroups(x, r, f, h, q, c) ==
    /\ ((((x \o r) \o f) \o h) \o q) \o c = x \o ((((r \o f) \o h) \o q) \o c)
    /\ (((r \o f) \o h) \o q) \o c \in Seq(1..MaxEvents)

LEMMA SixAssociate ==
  ASSUME NEW x \in Seq(1..MaxEvents), NEW r \in Seq(1..MaxEvents), NEW f \in Seq(1..MaxEvents),
         NEW h \in Seq(1..MaxEvents), NEW q \in Seq(1..MaxEvents), NEW c \in Seq(1..MaxEvents)
  PROVE  Regroups(x, r, f, h, q, c)
  <1>1. PICK S : S = Seq(1..MaxEvents)
    OBVIOUS
  <1>2. \A u, v, w \in S : Glued(Glued(u, v), w) = Glued(u, Glued(v, w)) /\ Glued(u, v) \in S
    BY <1>1, GluedAssociate
  <1>3. x \in S /\ r \in S /\ f \in S /\ h \in S /\ q \in S /\ c \in S
    BY <1>1
  <1> DEFINE rf == Glued(r, f)
             rfh == Glued(rf, h)
             rfhq == Glued(rfh, q)
  <1>4. rf \in S /\ Glued(Glued(x, r), f) = Glued(x, rf)
    BY <1>2, <1>3
  <1> HIDE DEF rf
  <1>5. rfh \in S /\ Glued(Glued(x, rf), h) = Glued(x, rfh)
    BY <1>2, <1>3, <1>4
  <1> HIDE DEF rfh
  <1>6. rfhq \in S /\ Glued(Glued(x, rfh), q) = Glued(x, rfhq)
    BY <1>2, <1>3, <1>5
  <1> HIDE DEF rfhq
  <1>7. Glued(rfhq, c) \in S /\ Glued(Glued(x, rfhq), c) = Glued(x, Glued(rfhq, c))
    BY <1>2, <1>3, <1>6
  <1>8. /\ Glued(Glued(Glued(Glued(Glued(x, r), f), h), q), c) = Glued(x, Glued(rfhq, c))
        /\ Glued(rfhq, c) \in S
    BY <1>4, <1>5, <1>6, <1>7
  <1>9. QED
    BY <1>1, <1>8 DEF Glued, rf, rfh, rfhq, Regroups

\* The oldest batch of the writer's ring holds the oldest events.
LEMMA OldestFirst ==
  ASSUME LogInv, NEW t \in Threads, ring # <<>>, ring' = Tail(ring),
         UNCHANGED <<fanin, hand, rings, batch>>
  PROVE  Pending(t) = Share(t, Head(ring)) \o Pending(t)' /\ Pending(t)' \in Seq(1..MaxEvents)
  <1> DEFINE b == Head(ring)
             rest == Tail(ring)
             x == Share(t, b)
             r == Stream(t, rest)
             f == Stream(t, fanin)
             h == Stream(t, hand)
             q == Stream(t, rings[t])
  <1>1. /\ ring \in Seq(Batches) /\ fanin \in Seq(Batches) /\ hand \in Seq(Batches)
        /\ rings[t] \in Seq(Batches) /\ batch[t] \in Seq(1..MaxEvents)
    BY LogTypes
  <1>2. b \in Batches /\ rest \in Seq(Batches)
    BY <1>1, HeadTailProperties
  <1>3. <<>> \in Seq(Batches) /\ <<>> \in Seq(1..MaxEvents)
    BY EmptySeq
  <1>4. /\ x \in Seq(1..MaxEvents) /\ r \in Seq(1..MaxEvents) /\ f \in Seq(1..MaxEvents)
        /\ h \in Seq(1..MaxEvents) /\ q \in Seq(1..MaxEvents)
    BY <1>1, <1>2, ShareType, StreamType
  <1>5. Stream(t, ring) = x \o r
    <2>1. PICK none \in Seq(Batches) : none = <<>>
      BY <1>3
    <2>2. Append(none, b) \o rest = none \o ring
      BY <1>1, HeadMoves
    <2>3. none \o ring = ring
      BY <1>1, <2>1, ConcatEmptySeq
    <2>4. Append(none, b) \in Seq(Batches)
      BY <1>2, AppendProperties
    <2>5. Stream(t, Append(none, b) \o rest) = Stream(t, Append(none, b)) \o r
      BY <1>2, <2>4, StreamConcat
    <2>6. Stream(t, Append(none, b)) = Stream(t, none) \o x
      BY <1>2, StreamAppend
    <2>7. Stream(t, none) \o x = x
      BY <1>4, <2>1, StreamEmpty, ConcatEmptySeq
    <2>8. QED
      BY <2>2, <2>3, <2>5, <2>6, <2>7
  <1> HIDE DEF x, r, f, h, q, b, rest
  <1>6. ASSUME NEW g \in Seq(Batches)
        PROVE  Stream(t, ((g \o fanin) \o hand) \o rings[t]) = ((Stream(t, g) \o f) \o h) \o q
    <2>1. g \o fanin \in Seq(Batches)
      BY <1>1, ConcatProperties
    <2>2. (g \o fanin) \o hand \in Seq(Batches)
      BY <1>1, <2>1, ConcatProperties
    <2>3. Stream(t, ((g \o fanin) \o hand) \o rings[t]) = Stream(t, (g \o fanin) \o hand) \o q
      BY <1>1, <2>2, StreamConcat DEF q
    <2>4. Stream(t, (g \o fanin) \o hand) = Stream(t, g \o fanin) \o h
      BY <1>1, <2>1, StreamConcat DEF h
    <2>5. Stream(t, g \o fanin) = Stream(t, g) \o f
      BY <1>1, StreamConcat DEF f
    <2>6. QED
      BY <2>3, <2>4, <2>5
  <1>7. Pending(t) = ((((x \o r) \o f) \o h) \o q) \o batch[t]
    BY <1>1, <1>5, <1>6 DEF Pending, Unread
  <1>8. Pending(t)' = (((r \o f) \o h) \o q) \o batch[t]
    <2>1. Pending(t)' = Stream(t, ((rest \o fanin) \o hand) \o rings[t]) \o batch[t]
      BY DEF Pending, Unread, rest
    <2>2. QED
      BY <1>2, <1>6, <2>1 DEF r
  <1>9. Pending(t) = x \o Pending(t)' /\ Pending(t)' \in Seq(1..MaxEvents)
    <2>1. PICK c \in Seq(1..MaxEvents) : c = batch[t]
      BY <1>1
    <2>2. Regroups(x, r, f, h, q, c)
      BY <1>4, SixAssociate
    <2>3. QED
      BY <1>7, <1>8, <2>1, <2>2 DEF Regroups
  <1>10. QED
    BY <1>9 DEF x, b

---------------------------------------------------------------------------
(* Every step of the exporter is one of the log's, or none.                 *)

\* A step of t leaves what the others have pending.
OthersPend(t) == \A u \in Threads : u # t => Pending(u)' = Pending(u)

LEMMA OthersPending ==
  ASSUME NEW t \in Threads, UNCHANGED <<ring, fanin, hand>>,
         \A u \in Threads : u # t => UNCHANGED <<rings[u], batch[u]>>
  PROVE  OthersPend(t)
  BY DEF OthersPend, Pending, Unread

LEMMA PendingOnly ==
  ASSUME LogInv, NEW t \in Threads, OthersPend(t), NEW p, Pending(t)' = p
  PROVE  LogPending' = [LogPending EXCEPT ![t] = p]
  BY DEF LogPending, OthersPend

LEMMA IsRecord ==
  ASSUME LogInv, NEW t \in Threads, OthersPend(t),
         Pending(t)' = Append(Pending(t), recorded[t] + 1),
         recorded' = [recorded EXCEPT ![t] = @ + 1], UNCHANGED <<exported, writer, LogCharged>>
  PROVE  Log!Next
  <1>1. LogPending' = [LogPending EXCEPT ![t] = Append(@, LogNext[t])]
    BY PendingOnly DEF LogPending, LogNext
  <1>2. LogNext' = [LogNext EXCEPT ![t] = @ + 1]
    <2>1. recorded \in [Threads -> 0..MaxEvents]
      BY DEF LogInv, IInv, TypeOK, ThreadTypes
    <2>2. QED
      BY <2>1 DEF LogNext
  <1>3. UNCHANGED <<LogDelivered, LogCharged, writer = "finished">>
    BY DEF LogDelivered, Delivered
  <1>4. QED
    BY <1>1, <1>2, <1>3, LogRecord, LogSteps

\* What t has pending, without what is still in its batch.
LEMMA WithoutBatch ==
  ASSUME LogInv, NEW t \in Threads
  PROVE  /\ SubSeq(Pending(t), 1, Len(Pending(t)) - Len(batch[t])) = Stream(t, Unread(t))
         /\ Len(batch[t]) \in 0..Len(Pending(t))
  <1>1. Stream(t, Unread(t)) \in Seq(1..MaxEvents) /\ batch[t] \in Seq(1..MaxEvents)
    BY LogTypes
  <1> DEFINE x == Stream(t, Unread(t))
  <1> HIDE DEF x
  <1>2. Pending(t) = x \o batch[t]
    BY DEF Pending, x
  <1>3. /\ SubSeq(x \o batch[t], 1, Len(x \o batch[t]) - Len(batch[t])) = x
        /\ Len(x \o batch[t]) = Len(x) + Len(batch[t]) /\ Len(x) \in Nat /\ Len(batch[t]) \in Nat
    BY <1>1, Halves DEF x
  <1>4. QED
    BY <1>2, <1>3 DEF x

LEMMA NothingInBatch ==
  ASSUME LogInv, NEW t \in Threads, batch[t] = <<>>
  PROVE  Pending(t) = Stream(t, Unread(t))
  BY LogTypes, ConcatEmptySeq DEF Pending

\* The slots of the batch after an event has been written into the first.
LEMMA FirstInBatch ==
  ASSUME LogInv, NEW t \in Threads, NEW e \in 1..MaxEvents, NEW x \in Seq(1..MaxEvents)
  PROVE  x \o Append(<<>>, e) = Append(x, e)
  <1>1. PICK y \in Seq(1..MaxEvents) : y = <<>>
    BY EmptySeq
  <1>2. x \o Append(y, e) = Append(x \o y, e)
    BY AppendLast
  <1>3. x \o y = x
    BY <1>1, ConcatEmptySeq
  <1>4. QED
    BY <1>1, <1>2, <1>3

LEMMA SumMoves ==
  ASSUME NEW a \in Nat, NEW b \in Nat, NEW n \in Nat
  PROVE  (a + n) + b = (a + b) + n /\ a + (b + n) = (a + b) + n
  OBVIOUS

LEMMA WriteSteps ==
  ASSUME LogInv, NEW t \in Threads, PushFast(t) \/ RegisterCurrent(t),
         UNCHANGED <<serializer, fanin, writer, ring, exported, reported, ending, cut>>
  PROVE  Log!Next
  <1>1. recorded[t] + 1 \in 1..MaxEvents
    <2>1. recorded[t] \in 0..MaxEvents
      BY DEF LogInv, IInv, TypeOK, ThreadTypes
    <2>2. recorded[t] < MaxEvents
      BY DEF LogInv, IInv, CallbacksFit, PushFast, RegisterCurrent
    <2>3. QED
      BY <2>1, <2>2, EventsAssumption
  <1>2. batch \in [Threads -> Seq(1..MaxEvents)]
    BY DEF LogInv, IInv, TypeOK, ThreadTypes
  <1>3. /\ UNCHANGED <<rings, hand, dropped, flush>> /\ recorded' = [recorded EXCEPT ![t] = @ + 1]
        /\ \A u \in Threads : u # t => batch'[u] = batch[u]
    BY <1>2 DEF PushFast, RegisterCurrent, WriteSlot
  <1>4. OthersPend(t)
    BY <1>3, OthersPending
  <1>5. Stream(t, Unread(t)) \in Seq(1..MaxEvents) /\ batch[t] \in Seq(1..MaxEvents)
    BY LogTypes
  <1>6. Pending(t)' = Stream(t, Unread(t)) \o batch'[t]
    BY <1>3 DEF Pending, Unread
  <1>7. batch'[t] = Append(batch[t], recorded[t] + 1)
    <2>1. CASE PushFast(t)
      BY <1>2, <2>1 DEF PushFast, WriteSlot
    <2>2. CASE RegisterCurrent(t)
      <3>1. batch[t] = <<>>
        BY <2>2 DEF RegisterCurrent, LogInv, Unarmed
      <3>2. QED
        BY <1>2, <2>2, <3>1 DEF RegisterCurrent, WriteSlot
    <2>3. QED
      BY <2>1, <2>2
  <1>8. Pending(t)' = Append(Pending(t), recorded[t] + 1)
    <2> DEFINE x == Stream(t, Unread(t))
    <2> HIDE DEF x
    <2>1. x \o Append(batch[t], recorded[t] + 1) = Append(x \o batch[t], recorded[t] + 1)
      BY <1>1, <1>5, AppendLast DEF x
    <2>2. QED
      BY <1>6, <1>7, <2>1 DEF Pending, x
  <1>9. UNCHANGED LogCharged
    BY <1>3 DEF LogCharged
  <1>10. QED
    BY <1>3, <1>4, <1>8, <1>9, IsRecord

LEMMA RenewSteps ==
  ASSUME LogInv, NEW t \in Threads, ShipAndRenew(t),
         UNCHANGED <<serializer, fanin, writer, ring, exported, reported, ending, cut>>
  PROVE  Log!Next
  <1>1. recorded[t] + 1 \in 1..MaxEvents
    <2>1. recorded[t] \in 0..MaxEvents
      BY DEF LogInv, IInv, TypeOK, ThreadTypes
    <2>2. recorded[t] < MaxEvents
      BY DEF LogInv, IInv, CallbacksFit, ShipAndRenew
    <2>3. QED
      BY <2>1, <2>2, EventsAssumption
  <1>2. /\ batch \in [Threads -> Seq(1..MaxEvents)] /\ rings \in [Threads -> Seq(Batches)]
        /\ recorded \in [Threads -> 0..MaxEvents] /\ dropped \in Nat /\ flush.lost \in Nat
    BY FlushUpdate DEF LogInv, IInv, TypeOK, ThreadTypes, QueueTypes, FlushCalls
  <1>3. /\ UNCHANGED <<hand, flush>> /\ recorded' = [recorded EXCEPT ![t] = @ + 1]
        /\ \A u \in Threads : u # t => UNCHANGED <<rings[u], batch[u]>>
        /\ batch'[t] = Append(<<>>, recorded[t] + 1) /\ dropped' = dropped + Rejected(t)
    BY <1>2 DEF ShipAndRenew, Ship, WriteSlot
  <1>4. OthersPend(t)
    BY <1>3, OthersPending
  <1>5. /\ Stream(t, Unread(t)) \in Seq(1..MaxEvents) /\ Pending(t) \in Seq(1..MaxEvents)
        /\ batch[t] \in Seq(1..MaxEvents) /\ Len(batch[t]) \in Nat
    BY LogTypes, LenProperties
  <1>6. CASE RingHasRoom(t)
    <2>1. rings'[t] = Append(rings[t], [tid |-> t, events |-> batch[t]])
      BY <1>2, <1>6 DEF ShipAndRenew, Ship
    <2>2. Stream(t, Unread(t))' = Pending(t)
      BY <1>3, <2>1, ShippedPends
    <2>3. Pending(t)' = Pending(t) \o Append(<<>>, recorded[t] + 1)
      BY <1>3, <2>2 DEF Pending
    <2>4. Pending(t) \o Append(<<>>, recorded[t] + 1) = Append(Pending(t), recorded[t] + 1)
      BY <1>1, <1>5, FirstInBatch
    <2>5. UNCHANGED LogCharged
      BY <1>2, <1>3, <1>6 DEF LogCharged, Rejected
    <2>6. QED
      BY <1>3, <1>4, <2>3, <2>4, <2>5, IsRecord
  <1>7. CASE ~RingHasRoom(t)
    <2> DEFINE x == Stream(t, Unread(t))
    <2>0. PICK n \in Nat : n = Len(batch[t])
      BY <1>5
    <2>1. rings' = rings /\ dropped' = dropped + n
      BY <1>3, <1>7, <2>0 DEF ShipAndRenew, Ship, Rejected
    <2>2. Pending(t)' = x \o Append(<<>>, recorded[t] + 1)
      BY <1>3, <2>1 DEF Pending, Unread
    <2>3. x \o Append(<<>>, recorded[t] + 1) = Append(x, recorded[t] + 1)
      BY <1>1, <1>5, FirstInBatch
    <2>4. SubSeq(Pending(t), 1, Len(Pending(t)) - n) = x /\ n \in 0..Len(Pending(t))
      BY <2>0, WithoutBatch
    <2>5. LogCharged' = LogCharged + n
      <3>1. flush'.lost = flush.lost /\ dropped' = dropped + n
        BY <1>3, <2>1
      <3>2. LogCharged' = (dropped + n) + flush.lost
        BY <3>1 DEF LogCharged
      <3>3. (dropped + n) + flush.lost = (dropped + flush.lost) + n
        BY <1>2, <2>0, SumMoves
      <3>4. QED
        BY <3>2, <3>3 DEF LogCharged
    <2> HIDE DEF x
    <2>6. CASE n = 0
      <3>1. batch[t] = <<>>
        BY <1>5, <2>0, <2>6, EmptySeq
      <3>2. x = Pending(t)
        BY <3>1, NothingInBatch DEF x
      <3>3. UNCHANGED LogCharged
        BY <1>2, <2>5, <2>6 DEF LogCharged
      <3>4. QED
        BY <1>3, <1>4, <2>2, <2>3, <3>2, <3>3, IsRecord
    <2>7. CASE n # 0
      <3>1. n \in 1..Len(LogPending[t])
        BY <2>4, <2>7 DEF LogPending
      <3>2. Pending(t)' = Append(SubSeq(Pending(t), 1, Len(Pending(t)) - n), recorded[t] + 1)
        BY <2>2, <2>3, <2>4
      <3>3. LogPending' = [LogPending EXCEPT ![t] = Append(SubSeq(@, 1, Len(@) - n), LogNext[t])]
        BY <1>4, <3>2, PendingOnly DEF LogPending, LogNext
      <3>4. LogNext' = [LogNext EXCEPT ![t] = @ + 1]
        BY <1>2, <1>3 DEF LogNext
      <3>5. UNCHANGED <<LogDelivered, writer = "finished">>
        BY DEF LogDelivered, Delivered
      <3>6. Log!LoseAndRecord(t, n)
        BY <2>5, <3>3, <3>4, <3>5, LogLoseAndRecord
      <3>7. QED
        BY <3>1, <3>6, LogSteps
    <2>8. QED
      BY <2>6, <2>7
  <1>8. QED
    BY <1>6, <1>7
LEMMA NothingMoves ==
  ASSUME UNCHANGED <<ring, fanin, hand, rings, batch, exported, recorded, LogCharged>>,
         writer' = "finished" <=> writer = "finished"
  PROVE  Stays
  BY DEF Stays, Pending, Unread, Delivered

\* A flush of t's batch: the ring takes it, or it was empty, or it is lost.
LEMMA FlushPends ==
  ASSUME LogInv, NEW t \in Threads, FlushPartial(t), UNCHANGED <<ring, fanin, hand>>
  PROVE  /\ OthersPend(t)
         /\ batch[t] = <<>> \/ RingHasRoom(t) => Pending(t)' = Pending(t)
         /\ ~(batch[t] = <<>> \/ RingHasRoom(t)) =>
              /\ Pending(t)' = SubSeq(Pending(t), 1, Len(Pending(t)) - Len(batch[t]))
              /\ Len(batch[t]) \in 1..Len(Pending(t))
  <1>1. batch \in [Threads -> Seq(1..MaxEvents)] /\ rings \in [Threads -> Seq(Batches)]
    BY DEF LogInv, IInv, TypeOK, ThreadTypes, QueueTypes
  <1>2. batch'[t] = <<>> /\ \A u \in Threads : u # t => UNCHANGED <<rings[u], batch[u]>>
    BY <1>1 DEF FlushPartial, Ship
  <1>3. OthersPend(t)
    BY <1>2, OthersPending
  <1>4. Pending(t)' = Stream(t, Unread(t))'
    <2>1. Pending(t)' = Stream(t, Unread(t))' \o batch'[t]
      BY DEF Pending
    <2>2. Unread(t)' \in Seq(Batches)
      <3>1. (ring \o fanin) \o hand \in Seq(Batches)
        BY LogTypes
      <3>2. rings'[t] \in Seq(Batches)
        <4>1. CASE rings' = rings
          BY <1>1, <4>1
        <4>2. CASE rings' # rings
          <5>1. rings'[t] = Append(rings[t], [tid |-> t, events |-> batch[t]])
            BY <1>1, <4>2 DEF FlushPartial, Ship
          <5>2. [tid |-> t, events |-> batch[t]] \in Batches
            BY <1>1 DEF Batches
          <5>3. QED
            BY <1>1, <5>1, <5>2, AppendProperties
        <4>3. QED
          BY <4>1, <4>2
      <3>3. Unread(t)' = ((ring \o fanin) \o hand) \o rings'[t]
        BY DEF Unread
      <3>4. QED
        BY <3>1, <3>2, <3>3, ConcatProperties
    <2>3. Stream(t, Unread(t)') \in Seq(1..MaxEvents)
      BY <2>2, StreamType
    <2>4. Stream(t, Unread(t))' = Stream(t, Unread(t)')
      OBVIOUS
    <2>5. Stream(t, Unread(t)') \o <<>> = Stream(t, Unread(t)')
      BY <2>3, ConcatEmptySeq
    <2>6. QED
      BY <1>2, <2>1, <2>4, <2>5
  <1>5. CASE batch[t] = <<>>
    <2>1. rings' = rings
      BY <1>5 DEF FlushPartial
    <2>2. Stream(t, Unread(t))' = Stream(t, Unread(t))
      BY <2>1 DEF Unread
    <2>3. QED
      BY <1>3, <1>4, <1>5, <2>2, NothingInBatch
  <1>6. CASE batch[t] # <<>> /\ RingHasRoom(t)
    <2>1. rings'[t] = Append(rings[t], [tid |-> t, events |-> batch[t]])
      BY <1>1, <1>6 DEF FlushPartial, Ship
    <2>2. QED
      BY <1>3, <1>4, <1>6, <2>1, ShippedPends
  <1>7. CASE batch[t] # <<>> /\ ~RingHasRoom(t)
    <2>1. rings' = rings
      BY <1>7 DEF FlushPartial, Ship
    <2>2. Stream(t, Unread(t))' = Stream(t, Unread(t))
      BY <2>1 DEF Unread
    <2>3. Len(batch[t]) # 0
      BY <1>1, <1>7, EmptySeq
    <2>4. Len(batch[t]) \in 1..Len(Pending(t))
      BY <2>3, WithoutBatch
    <2>5. QED
      BY <1>3, <1>4, <1>7, <2>2, <2>4, WithoutBatch
  <1>8. QED
    BY <1>5, <1>6, <1>7

LEMMA ExitSteps ==
  ASSUME LogInv, NEW t \in Threads, FlushAtExit(t),
         UNCHANGED <<serializer, fanin, writer, ring, exported, reported, ending, cut>>
  PROVE  Log!Next \/ Stays
  <1>1. /\ FlushPartial(t) /\ UNCHANGED <<ring, fanin, hand, recorded, dropped, flush>>
        /\ t \in Exiting
    BY DEF FlushAtExit, LogInv, OnlyExiting
  <1>2. UNCHANGED LogCharged
    BY <1>1 DEF LogCharged
  <1>3. CASE batch[t] = <<>> \/ RingHasRoom(t)
    <2>1. \A u \in Threads : Pending(u)' = Pending(u)
      BY <1>1, <1>3, FlushPends DEF OthersPend
    <2>2. \A u \in Threads : Delivered(u)' = Delivered(u)
      BY DEF Delivered
    <2>3. QED
      BY <1>1, <1>2, <2>1, <2>2 DEF Stays
  <1>4. CASE ~(batch[t] = <<>> \/ RingHasRoom(t))
    <2>1. PICK n : n = Len(batch[t])
      OBVIOUS
    <2>2. /\ OthersPend(t) /\ Pending(t)' = SubSeq(Pending(t), 1, Len(Pending(t)) - n)
          /\ n \in 1..Len(Pending(t))
      BY <1>1, <1>4, <2>1, FlushPends
    <2>3. LogPending' = [LogPending EXCEPT ![t] = SubSeq(@, 1, Len(@) - n)]
      BY <2>2, PendingOnly DEF LogPending
    <2>4. n \in 1..Len(LogPending[t])
      BY <2>2 DEF LogPending
    <2>5. UNCHANGED <<LogNext, LogDelivered, LogCharged, writer = "finished">>
      BY <1>1, <1>2 DEF LogNext, LogDelivered, Delivered
    <2>6. Log!Vanish(t, n)
      BY <1>1, <2>3, <2>5, LogVanish
    <2>7. QED
      BY <2>4, <2>6, LogSteps
  <1>5. QED
    BY <1>3, <1>4

LEMMA FlushSteps ==
  ASSUME LogInv, NEW t \in Threads, FlushOne(t)
  PROVE  Log!Next \/ Stays
  <1>1. /\ FlushPartial(t) /\ flush' = [flush EXCEPT !.left = @ \ {t}, !.lost = @ + Rejected(t)]
        /\ UNCHANGED <<ring, fanin, hand, recorded, dropped, writer, exported>>
    BY DEF FlushOne, FlushThread
  <1>2. dropped \in Nat /\ flush.lost \in Nat /\ batch[t] \in Seq(1..MaxEvents)
    BY FlushUpdate DEF LogInv, IInv, TypeOK, ThreadTypes, QueueTypes
  <1>3. flush'.lost = flush.lost + Rejected(t)
    <2>1. flush \in FlushCalls
      BY DEF LogInv, IInv, TypeOK, QueueTypes
    <2>2. QED
      BY <1>1, <2>1 DEF FlushCalls
  <1>4. LogCharged' = dropped + (flush.lost + Rejected(t))
    BY <1>1, <1>3 DEF LogCharged
  <1>5. CASE batch[t] = <<>> \/ RingHasRoom(t)
    <2>1. \A u \in Threads : Pending(u)' = Pending(u)
      BY <1>1, <1>5, FlushPends DEF OthersPend
    <2>2. \A u \in Threads : Delivered(u)' = Delivered(u)
      BY <1>1 DEF Delivered
    <2>3. Rejected(t) = 0
      BY <1>5, EmptySeq DEF Rejected
    <2>4. UNCHANGED LogCharged
      BY <1>2, <1>4, <2>3 DEF LogCharged
    <2>5. QED
      BY <1>1, <2>1, <2>2, <2>4 DEF Stays
  <1>6. CASE ~(batch[t] = <<>> \/ RingHasRoom(t))
    <2>1. PICK n \in Nat : n = Len(batch[t])
      BY <1>2, LenProperties
    <2>2. /\ OthersPend(t) /\ Pending(t)' = SubSeq(Pending(t), 1, Len(Pending(t)) - n)
          /\ n \in 1..Len(Pending(t))
      BY <1>1, <1>6, <2>1, FlushPends
    <2>3. LogPending' = [LogPending EXCEPT ![t] = SubSeq(@, 1, Len(@) - n)]
      BY <2>2, PendingOnly DEF LogPending
    <2>4. n \in 1..Len(LogPending[t])
      BY <2>2 DEF LogPending
    <2>5. UNCHANGED <<LogNext, LogDelivered, writer = "finished">>
      BY <1>1 DEF LogNext, LogDelivered, Delivered
    <2>6. LogCharged' = LogCharged + n
      <3>1. Rejected(t) = n
        BY <1>6, <2>1 DEF Rejected
      <3>2. dropped + (flush.lost + n) = (dropped + flush.lost) + n
        BY <1>2, SumMoves
      <3>3. QED
        BY <1>4, <3>1, <3>2 DEF LogCharged
    <2>7. Log!Lose(t, n)
      BY <2>3, <2>5, <2>6, LogLose
    <2>8. QED
      BY <2>4, <2>7, LogSteps
  <1>7. QED
    BY <1>5, <1>6

LEMMA ThreadSteps ==
  ASSUME LogInv, NEW t \in Threads, Thread(t)
  PROVE  Log!Next \/ Stays
  <1>1. UNCHANGED <<serializer, fanin, writer, ring, exported, reported, ending, cut>>
    BY DEF Thread
  <1>2. CASE EnterCallback(t) \/ InitProducer(t) \/ Forget(t)
    <2>1. UNCHANGED <<hand, rings, batch, recorded, dropped, flush>>
      BY <1>2 DEF EnterCallback, InitProducer, Forget
    <2>2. QED
      BY <1>1, <2>1, NothingMoves DEF LogCharged
  <1>3. CASE PushFast(t) \/ RegisterCurrent(t)
    BY <1>1, <1>3, WriteSteps
  <1>4. CASE ShipAndRenew(t)
    BY <1>1, <1>4, RenewSteps
  <1>5. CASE FlushAtExit(t)
    BY <1>1, <1>5, ExitSteps
  <1>6. QED
    BY <1>2, <1>3, <1>4, <1>5 DEF Thread, ThreadStep
\* A pop takes the oldest batch of a ring to the end of what was taken.
LEMMA PopStays ==
  ASSUME LogInv, DrainStep, DrainPop
  PROVE  Stays
  <1> DEFINE b == Head(rings[Visited])
             before == ring \o fanin
  <1>1. Visited \in Threads /\ rings[Visited] # <<>>
    BY VisitedIsThread DEF LogInv, DrainPop
  <1>2. rings \in [Threads -> Seq(Batches)]
    BY DEF LogInv, IInv, TypeOK, QueueTypes
  <1>3. /\ rings[Visited] \in Seq(Batches) /\ b \in Batches
        /\ Tail(rings[Visited]) \in Seq(Batches)
    BY <1>1, <1>2, HeadTailProperties
  <1>4. b.tid = Visited
    <2>1. 1 \in DOMAIN rings[Visited] /\ b = rings[Visited][1]
      BY <1>1, <1>3, EmptySeq, LenProperties
    <2>2. QED
      BY <1>1, <2>1 DEF LogInv, InOrder, Chronological
  <1>5. before \in Seq(Batches) /\ hand \in Seq(Batches) /\ before \o hand \in Seq(Batches)
    <2>1. \E t \in Threads : TRUE
      BY <1>1
    <2>2. QED
      BY <2>1, LogTypes
  <1>6. /\ hand' = Append(hand, b) /\ rings' = [rings EXCEPT ![Visited] = Tail(@)]
        /\ UNCHANGED <<ring, fanin, batch, exported, recorded, dropped, flush, writer>>
    BY DEF DrainStep, DrainPop
  <1>7. before \o Append(hand, b) = Append(before \o hand, b)
    BY <1>3, <1>5, AppendMoves
  <1>8. ASSUME NEW t \in Threads PROVE Stream(t, Unread(t))' = Stream(t, Unread(t))
    <2>1. rings[t] \in Seq(Batches)
      BY <1>2
    <2>2. Unread(t)' = Append(before \o hand, b) \o rings'[t]
      BY <1>6, <1>7 DEF Unread
    <2>3. CASE t = Visited
      <3>1. rings'[t] = Tail(rings[t])
        BY <1>2, <1>6, <2>3
      <3>2. Append(before \o hand, b) \o Tail(rings[t]) = (before \o hand) \o rings[t]
        BY <1>1, <1>5, <2>1, <2>3, HeadMoves
      <3>3. QED
        BY <2>2, <3>1, <3>2 DEF Unread
    <2>4. CASE t # Visited
      <3>1. rings'[t] = rings[t]
        BY <1>2, <1>6, <2>4
      <3> DEFINE moved == before \o hand
      <3>2. moved \in Seq(Batches)
        BY <1>5
      <3>3. Unread(t)' = Append(moved, b) \o rings[t] /\ Unread(t) = moved \o rings[t]
        BY <2>2, <3>1 DEF Unread
      <3> HIDE DEF moved, b
      <3>4. Append(moved, b) \in Seq(Batches)
        BY <1>3, <3>2, AppendProperties
      <3>5. Stream(t, Append(moved, b) \o rings[t]) = Stream(t, Append(moved, b)) \o Stream(t, rings[t])
        BY <2>1, <3>4, StreamConcat
      <3>6. Stream(t, moved \o rings[t]) = Stream(t, moved) \o Stream(t, rings[t])
        BY <2>1, <3>2, StreamConcat
      <3>7. Stream(t, Append(moved, b)) = Stream(t, moved) \o Share(t, b)
        BY <1>3, <3>2, StreamAppend
      <3>8. Share(t, b) = <<>>
        BY <1>4, <2>4 DEF Share
      <3>9. Stream(t, moved) \o <<>> = Stream(t, moved)
        BY <3>2, StreamType, ConcatEmptySeq
      <3>10. QED
        BY <3>3, <3>5, <3>6, <3>7, <3>8, <3>9
    <2>5. QED
      BY <2>3, <2>4
  <1>9. \A t \in Threads : Pending(t)' = Pending(t)
    BY <1>6, <1>8 DEF Pending
  <1>10. QED
    BY <1>6, <1>9 DEF Stays, Delivered, LogCharged

\* What moves between the serializer and the writer leaves Unread as it was.
LEMMA MovesStay ==
  ASSUME LogInv, PushFanin \/ PopFanin
  PROVE  Stays
  <1>1. ring \in Seq(Batches) /\ fanin \in Seq(Batches) /\ hand \in Seq(Batches)
    BY ShippedType DEF LogInv
  <1>2. (ring' \o fanin') \o hand' = (ring \o fanin) \o hand
    <2>1. CASE PushFanin
      <3>1. hand # <<>>
        BY <2>1 DEF PushFanin, LogInv, IInv, DrainFits
      <3>2. Head(hand) \in Batches /\ ring \o fanin \in Seq(Batches)
        BY <1>1, <3>1, HeadTailProperties, ConcatProperties
      <3>3. ring \o Append(fanin, Head(hand)) = Append(ring \o fanin, Head(hand))
        BY <1>1, <3>2, AppendMoves
      <3>4. Append(ring \o fanin, Head(hand)) \o Tail(hand) = (ring \o fanin) \o hand
        BY <1>1, <3>1, <3>2, HeadMoves
      <3>5. ring' = ring /\ fanin' = Append(fanin, Head(hand)) /\ hand' = Tail(hand)
        BY <2>1 DEF PushFanin
      <3>6. QED
        BY <3>3, <3>4, <3>5
    <2>2. CASE PopFanin
      <3>1. Append(ring, Head(fanin)) \o Tail(fanin) = ring \o fanin
        BY <1>1, <2>2, HeadMoves DEF PopFanin
      <3>2. ring' = Append(ring, Head(fanin)) /\ fanin' = Tail(fanin) /\ hand' = hand
        BY <2>2 DEF PopFanin, queueVars
      <3>3. QED
        BY <3>1, <3>2
    <2>3. QED
      BY <2>1, <2>2
  <1>3. /\ UNCHANGED <<rings, batch, exported, recorded, dropped, flush>>
        /\ writer' = "finished" <=> writer = "finished"
    BY DEF PushFanin, PopFanin, queueVars, producerVars
  <1>4. \A t \in Threads : Unread(t)' = Unread(t)
    BY <1>2, <1>3 DEF Unread
  <1>5. \A t \in Threads : Pending(t)' = Pending(t)
    BY <1>3, <1>4 DEF Pending
  <1>6. QED
    BY <1>3, <1>5 DEF Stays, Delivered, LogCharged

LEMMA SerializerStays ==
  ASSUME LogInv, Serializer
  PROVE  Stays
  <1>1. CASE PushFanin
    BY <1>1, MovesStay
  <1>2. CASE DrainStep /\ DrainPop
    BY <1>2, PopStays
  <1>3. CASE Leave \/ StartDrain \/ NothingToDrain \/ (DrainStep /\ DrainNext) \/ Drained \/ CheckClosed
    <2>1. UNCHANGED <<ring, fanin, hand, rings, batch, exported, recorded, dropped, flush, writer>>
      BY <1>3 DEF Leave, StartDrain, BeginDrain, NothingToDrain, DrainStep, DrainNext, Drained,
         CheckClosed, queueVars, producerVars
    <2>2. QED
      BY <2>1, NothingMoves DEF LogCharged
  <1>4. QED
    BY <1>1, <1>2, <1>3 DEF Serializer, DrainStep

\* The batch that is written is the oldest of what its thread has pending.
LEMMA DeliverSteps ==
  ASSUME LogInv, WriteBatch
  PROVE  Log!Next \/ Stays
  <1>1. PICK b : b = Head(ring)
    OBVIOUS
  <1>2. /\ ring # <<>> /\ ring' = Tail(ring) /\ exported' = Append(exported, b)
        /\ UNCHANGED <<fanin, hand, rings, batch, recorded, dropped, flush, writer>>
        /\ writer # "finished"
    BY <1>1 DEF WriteBatch, queueVars, producerVars
  <1>3. ring \in Seq(Batches) /\ exported \in Seq(Batches)
    BY ShippedType DEF LogInv
  <1>4. b \in Batches
    BY <1>1, <1>2, <1>3, HeadTailProperties
  <1>5. PICK u \in Threads : u = b.tid
    BY <1>4 DEF Batches
  <1>6. ASSUME NEW t \in Threads
        PROVE  /\ Pending(t) = Share(t, b) \o Pending(t)'
               /\ Pending(t)' \in Seq(1..MaxEvents)
    BY <1>1, <1>2, OldestFirst
  <1>7. ASSUME NEW t \in Threads
        PROVE  /\ Delivered(t)' = Delivered(t) \o Share(t, b)
               /\ Delivered(t) \in Seq(1..MaxEvents)
    BY <1>2, <1>3, <1>4, StreamAppend DEF Delivered
  <1>8. ASSUME NEW t \in Threads, Share(t, b) = <<>>
        PROVE  Pending(t)' = Pending(t) /\ Delivered(t)' = Delivered(t)
    <2>1. <<>> \o Pending(t)' = Pending(t)'
      <3>1. PICK p \in Seq(1..MaxEvents) : p = Pending(t)'
        BY <1>6
      <3>2. <<>> \o p = p
        BY ConcatEmptySeq
      <3>3. QED
        BY <3>1, <3>2
    <2>2. Delivered(t) \o <<>> = Delivered(t)
      BY <1>7, ConcatEmptySeq
    <2>3. QED
      BY <1>6, <1>7, <1>8, <2>1, <2>2
  <1>9. UNCHANGED LogCharged
    BY <1>2 DEF LogCharged
  <1>10. \A t \in Threads : t # u => Share(t, b) = <<>>
    BY <1>5 DEF Share
  <1>11. CASE Share(u, b) = <<>>
    <2>1. \A t \in Threads : Pending(t)' = Pending(t) /\ Delivered(t)' = Delivered(t)
      BY <1>8, <1>10, <1>11
    <2>2. QED
      BY <1>2, <1>9, <2>1 DEF Stays
  <1>12. CASE Share(u, b) # <<>>
    <2>1. PICK s \in Seq(1..MaxEvents) : s = Share(u, b)
      BY <1>4, ShareType
    <2>2. PICK p \in Seq(1..MaxEvents) : p = Pending(u)'
      BY <1>6
    <2>3. PICK n : n = Len(s)
      OBVIOUS
    <2>4. /\ Len(s \o p) = n + Len(p) /\ n \in Nat /\ Len(p) \in Nat
          /\ SubSeq(s \o p, 1, n) = s
          /\ SubSeq(s \o p, n + 1, Len(s \o p)) = p
      BY <2>3, Halves
    <2>5. Pending(u) = s \o p
      BY <1>6, <2>1, <2>2
    <2>6. n # 0
      BY <1>12, <2>1, <2>3, EmptySeq
    <2>7. n \in 1..Len(Pending(u))
      BY <2>4, <2>5, <2>6
    <2>8. /\ Pending(u)' = SubSeq(Pending(u), n + 1, Len(Pending(u)))
          /\ Delivered(u)' = Delivered(u) \o SubSeq(Pending(u), 1, n)
      BY <1>7, <2>1, <2>2, <2>4, <2>5
    <2>9. \A t \in Threads : t # u => Pending(t)' = Pending(t) /\ Delivered(t)' = Delivered(t)
      BY <1>8, <1>10
    <2>10. LogPending' = [LogPending EXCEPT ![u] = SubSeq(@, n + 1, Len(@))]
      BY <2>8, <2>9 DEF LogPending
    <2>11. LogDelivered' = [LogDelivered EXCEPT ![u] = @ \o SubSeq(LogPending[u], 1, n)]
      BY <2>8, <2>9 DEF LogPending, LogDelivered
    <2>12. UNCHANGED <<LogNext, LogCharged, writer = "finished">>
      BY <1>2, <1>9 DEF LogNext
    <2>13. Log!Deliver(u, n)
      BY <1>2, <2>10, <2>11, <2>12, LogDeliver
    <2>14. n \in 1..Len(LogPending[u])
      BY <2>7 DEF LogPending
    <2>15. QED
      BY <2>13, <2>14, LogSteps
  <1>13. QED
    BY <1>11, <1>12

LEMMA WriterSteps ==
  ASSUME LogInv, Writer
  PROVE  Log!Next \/ Stays
  <1>1. CASE PopFanin
    BY <1>1, MovesStay
  <1>2. CASE WriteBatch
    BY <1>2, DeliverSteps
  <1>3. CASE WriteFails \/ RingWritten \/ FaninEmpty \/ IsFinished \/ LastPopFails
    <2>1. /\ UNCHANGED <<ring, fanin, hand, rings, batch, exported, recorded, dropped, flush>>
          /\ writer' # "finished" /\ writer # "finished"
      BY <1>3 DEF WriteFails, RingWritten, FaninEmpty, IsFinished, LastPopFails, queueVars,
         producerVars
    <2>2. QED
      BY <2>1, NothingMoves DEF LogCharged
  <1>4. CASE Finish
    <2>1. /\ UNCHANGED <<ring, fanin, hand, rings, batch, exported, recorded, dropped, flush>>
          /\ writer = "finish" /\ writer' \in {"finished", "failed"}
      BY <1>4 DEF Finish, queueVars, producerVars
    <2>2. CASE writer' = "finished"
      <3>1. UNCHANGED <<LogNext, LogPending, LogDelivered, LogCharged>>
        BY <2>1 DEF LogNext, LogPending, Pending, Unread, LogDelivered, Delivered, LogCharged
      <3>2. QED
        BY <2>2, <3>1, LogFinish, LogSteps
    \* finish returns an error: the log is not finished.
    <2>3. CASE writer' = "failed"
      BY <2>1, <2>3, NothingMoves DEF LogCharged
    <2>4. QED
      BY <2>1, <2>2, <2>3
  <1>5. QED
    BY <1>1, <1>2, <1>3, <1>4 DEF Writer

LEMMA EnderSteps ==
  ASSUME LogInv, Ender
  PROVE  Log!Next \/ Stays
  <1>1. CASE \E t \in Threads : FlushOne(t)
    BY <1>1, FlushSteps
  <1>2. dropped \in Nat /\ flush \in FlushCalls /\ flush.lost \in Nat
    BY FlushUpdate DEF LogInv, IInv, TypeOK, QueueTypes
  <1>3. ASSUME UNCHANGED <<ring, fanin, hand, rings, batch, exported, recorded, writer>>,
               UNCHANGED LogCharged
        PROVE  Stays
    BY <1>3, NothingMoves
  <1>4. CASE Disable \/ CloseQueue \/ Join
    BY <1>3, <1>4 DEF Disable, CloseQueue, Close, Join, queueVars, producerVars, LogCharged
  <1>5. CASE StartFlush
    <2>1. flush.lost = 0
      BY <1>5 DEF StartFlush, LogInv, Charged
    <2>2. UNCHANGED LogCharged
      BY <1>5, <2>1 DEF StartFlush, BeginFlush, LogCharged
    <2>3. QED
      BY <1>3, <1>5, <2>2 DEF StartFlush, BeginFlush
  <1>6. CASE FlushReturns
    <2>1. flush'.lost = flush.lost
      BY <1>2, <1>6 DEF FlushReturns, EndFlush, FlushCalls
    <2>2. UNCHANGED LogCharged
      BY <1>6, <2>1 DEF FlushReturns, EndFlush, LogCharged
    <2>3. QED
      BY <1>3, <1>6, <2>2 DEF FlushReturns, EndFlush
  <1>7. CASE ChargeFlush
    <2>1. flush'.lost = 0 /\ dropped' = dropped + flush.lost
      BY <1>2, <1>7 DEF ChargeFlush, RecordDropped, FlushCalls
    <2>2. (dropped + flush.lost) + 0 = dropped + flush.lost
      BY <1>2
    <2>3. UNCHANGED LogCharged
      BY <2>1, <2>2 DEF LogCharged
    <2>4. QED
      BY <1>3, <1>7, <2>3 DEF ChargeFlush, RecordDropped
  <1>8. QED
    BY <1>1, <1>4, <1>5, <1>6, <1>7 DEF Ender

LEMMA StepsAreLogSteps ==
  ASSUME LogInv, [Next]_vars
  PROVE  [Log!Next]_(Log!logVars)
  <1> SUFFICES Log!Next \/ Stays
    BY StaysStutters
  <1>1. ASSUME NEW t \in Threads, Thread(t) PROVE Log!Next \/ Stays
    BY <1>1, ThreadSteps
  <1>2. CASE Serializer \/ Writer \/ Ender
    BY <1>2, SerializerStays, WriterSteps, EnderSteps
  <1>3. CASE Terminated \/ UNCHANGED vars
    <2>1. UNCHANGED <<ring, fanin, hand, rings, batch, exported, recorded, dropped, flush, writer>>
      BY <1>3 DEF Terminated, vars, queueVars, producerVars
    <2>2. QED
      BY <2>1, NothingMoves DEF LogCharged
  <1>4. QED
    BY <1>1, <1>2, <1>3 DEF Next
LEMMA InitIsLogInit == Init => Log!Init
  <1> SUFFICES ASSUME Init PROVE Log!Init
    OBVIOUS
  <1>1. /\ ring = <<>> /\ fanin = <<>> /\ hand = <<>> /\ exported = <<>> /\ writer = "pop"
        /\ rings = [t \in Threads |-> <<>>] /\ batch = [t \in Threads |-> <<>>]
        /\ recorded = [t \in Threads |-> 0] /\ dropped = 0 /\ flush.lost = 0
    BY DEF Init, QueueInit
  <1>2. <<>> \o <<>> = <<>>
    BY ConcatEmptySeq, EmptySeq
  <1>3. \A t \in Threads : Pending(t) = <<>> /\ Delivered(t) = <<>>
    BY <1>1, <1>2, StreamEmpty DEF Pending, Unread, Delivered
  <1>4. LogPending = [t \in Threads |-> <<>>] /\ LogDelivered = [t \in Threads |-> <<>>]
    BY <1>3 DEF LogPending, LogDelivered
  <1>5. LogNext = [t \in Threads |-> 1] /\ LogCharged = 0
    BY <1>1 DEF LogNext, LogCharged
  <1>6. QED
    BY <1>1, <1>4, <1>5 DEF Log!Init, LogPending, LogDelivered, LogNext, LogCharged, Pending,
       Unread, Delivered

LEMMA AlwaysLogInv == Spec => []LogInv
  <1>1. Init => Unarmed /\ OnlyExiting
    BY DEF Init, QueueInit, Unarmed, OnlyExiting
  <1>2. QED
    BY <1>1, InitCounts, NextCounts, NextUnarmed, NextOnlyExiting, OrderKept, AlwaysIInv, PTL
       DEF Spec, LogInv

\* The exporter implements the lossy log: whatever the two threads of the
\* exporter, the thread that ends the run and the traced threads do, each
\* thread's events reach the exporter in the order it recorded them and none
\* twice; those it loses are the newest it had pending, a full batch, and are
\* counted unless it was exiting; and nothing is delivered after finish.
THEOREM ExporterIsALossyLog == Spec => ImplementsLossyLog
  BY InitIsLogInit, AlwaysLogInv, StepsAreLogSteps, PTL
     DEF Spec, ImplementsLossyLog, Log!Spec
=============================================================================
