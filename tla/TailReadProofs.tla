--------------------------- MODULE TailReadProofs ---------------------------
(***************************************************************************)
(* What is proved of TailRead, for every size of batch, number of buffers, *)
(* events, runs and attempts: a tail that the recorder reads out of another *)
(* thread's batch is a run of events of one batch of its own run, no read   *)
(* hides an event that is nowhere else, and every slot it loads is in       *)
(* memory that is still allocated.                                          *)
(*                                                                         *)
(* One thing is assumed, as in the run: callbacks and Tracer::end exclude   *)
(* each other.  Of a read that found the batch Hot described freed when it  *)
(* looked at queue_id (orphaned), coherence and liveness of its slots say   *)
(* nothing: the recorder may evict a batch that Hot still names, and        *)
(* init_producer drops one.  That no read is hidden from holds of all.      *)
(***************************************************************************)
EXTENDS TailRead, SequenceTheorems, TLAPS

---------------------------------------------------------------------------
(* Buffers.                                                                 *)

LEMMA Sizes ==
  /\ BatchN \in Nat /\ BatchN > 0 /\ Buffers \in Nat /\ Buffers > 0
  /\ TailRetries \in Nat /\ TailRetries > 0 /\ MaxTicks \in Nat /\ Runs \in Nat /\ Runs > 0
  BY SizesAssumption

LEMMA ProductGrows ==
  ASSUME NEW m \in Nat, NEW n \in Nat, m <= n
  PROVE  m * BatchN \in Nat /\ m * BatchN <= n * BatchN
  <1>1. PICK d \in Nat : n = m + d
    <2>1. n - m \in Nat /\ n = m + (n - m)
      OBVIOUS
    <2>2. QED
      BY <2>1
  <1>2. n * BatchN = m * BatchN + d * BatchN /\ d * BatchN \in Nat /\ m * BatchN \in Nat
    BY <1>1, Sizes
  <1>3. QED
    BY <1>2

LEMMA BufferFacts ==
  ASSUME NEW b \in 1..Buffers
  PROVE  /\ Start(b) \in Nat /\ End(b) \in Nat /\ Start(b) > 0 /\ End(b) = Start(b) + BatchN
         /\ End(b) \in Address /\ End(b) <= End(Buffers) /\ Start(1) <= Start(b)
         /\ \A a \in Start(b)..(End(b) - 1) : a \in Slots
  <1>1. Start(1) = BatchN
    BY Sizes DEF Start
  <1>2. Start(b) \in Nat /\ Start(1) <= Start(b) /\ Start(b) <= Start(Buffers) /\ Start(Buffers) \in Nat
    BY Sizes, ProductGrows DEF Start
  <1>3. QED
    BY <1>1, <1>2, Sizes DEF End, Address, Slots

LEMMA BuffersApart ==
  ASSUME NEW b \in 1..Buffers, NEW c \in 1..Buffers, b # c
  PROVE  End(b) <= Start(c) \/ End(c) <= Start(b)
  <1>1. ASSUME NEW x \in 1..Buffers, NEW y \in 1..Buffers, x < y PROVE End(x) <= Start(y)
    <2>1. (x + 1) * BatchN <= y * BatchN
      BY <1>1, Sizes, ProductGrows
    <2>2. (x + 1) * BatchN = x * BatchN + BatchN
      BY Sizes
    <2>3. QED
      BY <2>1, <2>2 DEF End, Start
  <1>2. QED
    BY <1>1

\* A buffer is known by its end.
LEMMA EndsDiffer ==
  ASSUME NEW b \in 1..Buffers, NEW c \in 1..Buffers, End(b) = End(c)
  PROVE  b = c
  <1>1. Start(b) < End(b) /\ Start(c) < End(c)
    BY BufferFacts, Sizes
  <1>2. QED
    BY <1>1, BuffersApart, BufferFacts

LEMMA SlotBound ==
  ASSUME NEW end \in Nat, NEW cursor \in Nat, NEW limit \in Nat, cursor <= limit,
         NEW i \in Nat, i >= 1, i <= cursor - (end - BatchN)
  PROVE  end - BatchN + i - 1 \in (end - BatchN)..(limit - 1)
  BY Sizes

LEMMA SlotWithin ==
  ASSUME NEW start \in Nat, NEW cursor \in Nat, cursor - start <= BatchN,
         NEW n \in Nat, start + n < cursor
  PROVE  start + n \in start..(start + BatchN - 1)
  BY Sizes

LEMMA SlotIndex ==
  ASSUME NEW start \in Int, NEW cursor \in Nat, NEW a \in Int, start <= a, a < cursor
  PROVE  a - start + 1 \in 1..(cursor - start) /\ start + (a - start + 1) - 1 = a
  OBVIOUS

LEMMA NoBuffer == Start(0) = 0
  BY Sizes DEF Start

---------------------------------------------------------------------------
(* The inductive invariant.                                                 *)

InCallback == {"entered", "fast", "written", "slow", "register", "init", "ship", "renew", "arm", "slowwrite"}
Renewing == {"register", "init", "renew", "arm"}
Reading == reader.pc # "idle"
Loading == {"queue", "cursor", "end", "base", "slots"}
Even == hot.epoch % 2 = 0

\* Who may be where: the flush holds RECORDERS and the GIL, the reader RECORDERS;
\* a thread that exits is out of RECORDERS.
Mutex ==
    /\ Ending => registered /\ ~enabled /\ ~Reading /\ pc.owner \in {"idle", "entered"}
    /\ enabled => pc.ender = "off"
    /\ exiting => ~registered /\ pc.owner \in {"commit", "renew", "arm", "push", "exited"}
    /\ pc.owner \in {"commit", "push", "exited"} => exiting
    /\ Reading => registered
    /\ registered \/ pc.owner = "commit" => cold.buf # 0

\* What a callback knows of Hot and of its event at each step of its push.
Called ==
    /\ call.run <= run /\ cold.producer <= call.run
    /\ ~exiting /\ pc.owner \in InCallback =>
         call.tick = ticks /\ ticks > 0 /\ call.run > 0 /\ ofRun[ticks] = call.run
    /\ pc.owner \in {"fast", "written"} =>
         call.at = hot.cursor /\ call.at < hot.end /\ hot.queue = call.run
    /\ pc.owner = "fast" => call.delta = ticks - hot.base
    /\ pc.owner = "written" => mem[call.at] = [delta |-> ticks - hot.base, code |-> ticks]
    /\ pc.owner \in {"register", "init", "ship", "renew", "arm", "slowwrite"} /\ ~exiting =>
         cold.producer = call.run
    /\ pc.owner \in {"register", "init", "renew", "arm", "slowwrite"} /\ ~exiting => cold.base = ticks
    /\ pc.owner = "slowwrite" => hot.cursor = Start(cold.buf)

InBuffer(b) == hot.end = End(b) /\ hot.cursor \in Start(b)..End(b)

\* Nobody is about to arm.
Settled == pc.owner \notin Renewing /\ pc.ender \notin {"renew", "arm"}

\* Hot is armed for the batch in Cold, or on its way there.
Armed ==
    /\ cold.buf = 0 <=> cold.producer = 0
    /\ Settled =>
         /\ hot.queue = cold.producer /\ hot.base = cold.base
         /\ IF cold.buf = 0 THEN hot.end = 0 /\ hot.cursor = 0 ELSE InBuffer(cold.buf)
    /\ Even <=> pc.owner # "arm" /\ pc.ender # "arm"
    /\ Even => (hot.end = 0 /\ hot.cursor = 0) \/ \E b \in 1..Buffers : InBuffer(b)
    /\ hot.end = 0 \/ \E b \in 1..Buffers : hot.end = End(b)
    /\ \A p \in Actors : pc[p] = "arm" =>
         /\ "base" \in arming[p] \/ hot.base = cold.base
         /\ "cursor" \in arming[p] \/ hot.cursor = Start(cold.buf)
         /\ "end" \in arming[p] \/ hot.end = End(cold.buf)
    /\ \A p \in Actors : pc[p] \in {"renew", "arm"} => cold.buf # 0 /\ hot.queue = cold.producer
    /\ pc.owner \in {"register", "init"} => hot.queue = armedFor /\ armedFor < cold.producer
    /\ armedFor <= cold.producer
    /\ armedFor # cold.producer => pc.owner \in Renewing /\ ~exiting
    /\ \A p \in Actors : pc[p] \in {"renew", "arm"} /\ (p = "ender" \/ exiting) =>
         hot.end \in {End(cold.buf), End(held[p].buf)}

\* The batch in Cold, the batches taken and not yet pushed, and the batch Hot is
\* armed for are allocated.
Owned ==
    /\ cold.buf # 0 => cold.base \in 1..ticks /\ ofRun[cold.base] = cold.producer
    /\ cold.buf # 0 /\ pc.owner # "exited" => cold.buf \in live
    /\ \A p \in Actors : held[p] = NoBatch \/ held[p].buf \in live
    /\ pc.owner = "ship" =>
         held.owner = [buf |-> cold.buf, base |-> cold.base, len |-> hot.cursor - Start(cold.buf)]
    /\ held.owner # NoBatch =>
         pc.owner = "ship" \/ (exiting /\ pc.owner \in {"renew", "arm", "push"} /\ held.owner.buf # cold.buf)
    /\ held.ender # NoBatch => pc.ender \in {"renew", "arm", "push"} /\ held.ender.buf # cold.buf
    /\ hot.end # 0 /\ armedFor = cold.producer /\ pc.owner # "exited" => \E b \in live : hot.end = End(b)
    /\ hot.end # 0 /\ pc.owner \in {"register", "init"} => \A b \in live : hot.end # End(b)

\* The slots of the batch Hot describes that have an event, and its tick.
HotRange == (hot.end - BatchN)..(hot.cursor - 1)
TickAt(a) == hot.base + mem[a].delta

\* The last tick that was pushed.
Top == IF pc.owner \in InCallback /\ ~exiting THEN ticks - 1 ELSE ticks

\* A batch holds the events of one run, tick after tick up to the last, decoded
\* with the base that Hot has.  Of one that was dropped only the run is left, of
\* one that was evicted not even that.
Contents ==
    /\ hot.end # 0 /\ Even =>
         hot.base \in 1..ticks /\ (armedFor # 0 => ofRun[hot.base] = armedFor)
    /\ hot.end # 0 /\ Even /\ pc.owner # "exited" =>
         \A a \in HotRange :
            /\ TickAt(a) \in 1..ticks /\ (armedFor # 0 => ofRun[TickAt(a)] = armedFor)
            /\ armedFor = cold.producer =>
                 TickAt(a) = mem[a].code /\ mem[a].code = Top + 1 - (hot.cursor - a)
    /\ pc.owner = "renew" /\ ~exiting /\ armedFor = cold.producer /\ hot.end # 0 =>
         \A a \in HotRange : TickAt(a) \in gone
    /\ \A p \in Actors : \A a \in Start(held[p].buf)..(Start(held[p].buf) + held[p].len - 1) :
          held[p].base + mem[a].delta \in 1..ticks

\* What the reader has loaded is what Hot and the batch hold, for as long as the
\* epoch is the one it began with.
Same == hot.epoch = reader.epoch
View ==
    /\ ~Reading => reader = NotReading
    /\ reader.pc \in Loading \cup {"epoch"} => reader.tries > 0
    /\ reader.pc \in Loading => reader.epoch % 2 = 0 /\ reader.epoch <= hot.epoch
    /\ reader.pc \in {"cursor", "end", "base", "slots"} /\ ~reader.orphaned =>
         armedFor = run /\ cold.producer = run
    /\ reader.pc \in {"end", "base", "slots"} /\ ~reader.orphaned /\ Same => reader.cursor <= hot.cursor
    /\ reader.pc \in {"base", "slots"} =>
         /\ Length(reader.end) \in 1..BatchN
         /\ \E b \in 1..Buffers : reader.end = End(b)
         /\ ~reader.orphaned => \E b \in live : reader.end = End(b)
         /\ ~reader.orphaned /\ Same => reader.end = hot.end
    /\ reader.pc \notin {"slots", "tail"} => reader.events = <<>>
    /\ reader.pc = "slots" =>
         /\ Len(reader.events) <= Length(reader.end)
         /\ ~reader.orphaned /\ Same =>
              /\ reader.base = hot.base
              /\ \A i \in DOMAIN reader.events : reader.events[i] = mem[reader.end - BatchN + i - 1]
    /\ reader.pc = "tail" /\ ~reader.orphaned => \A i \in DOMAIN reader.events : Decoded(i) \in 1..ticks

\* What the batch alone held when the read began has been pushed since, or the
\* batch is still where it was and the reader is about to see it.
Had ==
    reader.pc \in Loading \cup {"epoch"} =>
        \A i \in reader.had \ gone :
            /\ armedFor = run /\ hot.queue = run /\ Even /\ hot.end # 0
            /\ pc.owner \notin Renewing
            /\ \E a \in HotRange : i = TickAt(a) /\ (reader.pc \in {"end", "base", "slots"} => a < reader.cursor)
            /\ reader.pc \in Loading => Same
            /\ reader.pc \in {"cursor", "end", "base", "slots"} => ~reader.orphaned

IInv ==
    /\ Gil /\ TypeOK
    /\ Mutex /\ Called /\ Armed /\ Owned /\ Contents
    /\ View /\ Had /\ TailIsCoherent /\ NothingIsHidden

---------------------------------------------------------------------------
(* What the types say of each word.                                         *)

LEMMA Typed ==
  ASSUME TypeOK
  PROVE  /\ hot.cursor \in Nat /\ hot.end \in Nat /\ hot.base \in Nat /\ hot.queue \in Nat /\ hot.epoch \in Nat
         /\ cold.producer \in Nat /\ cold.buf \in 0..Buffers /\ cold.base \in Nat
         /\ call.run \in Nat /\ call.tick \in Nat /\ call.at \in Nat /\ call.delta \in Int
         /\ run \in Nat /\ ticks \in Nat /\ armedFor \in Nat /\ run > 0 /\ ticks <= MaxTicks
         /\ \A a \in Slots : mem[a].delta \in Int /\ mem[a].code \in Nat
         /\ \A p \in Actors : held[p].buf \in 0..Buffers /\ held[p].base \in Nat /\ held[p].len \in Nat
         /\ reader.epoch \in Nat /\ reader.tries \in Nat /\ reader.cursor \in Nat /\ reader.end \in Nat
         /\ reader.base \in Nat /\ reader.events \in Seq(Events) /\ reader.had \subseteq 1..MaxTicks
  <1>1. Address \subseteq Nat /\ 0..MaxTicks \subseteq Nat /\ 0..Runs \subseteq Nat
    BY Sizes DEF Address
  <1>2. hot.cursor \in Nat /\ hot.end \in Nat /\ hot.base \in Nat /\ hot.queue \in Nat /\ hot.epoch \in Nat
    <2>1. hot \in [cursor : Address, end : Address, base : 0..MaxTicks, queue : 0..Runs, epoch : Nat]
      BY DEF TypeOK
    <2>2. QED
      BY <2>1, <1>1
  <1>3. cold.producer \in Nat /\ cold.buf \in 0..Buffers /\ cold.base \in Nat
    <2>1. cold \in [producer : 0..Runs, buf : 0..Buffers, base : 0..MaxTicks]
      BY DEF TypeOK
    <2>2. QED
      BY <2>1, <1>1
  <1>4. call.run \in Nat /\ call.tick \in Nat /\ call.at \in Nat /\ call.delta \in Int
    <2>1. call \in [run : 0..Runs, tick : 0..MaxTicks, at : Address, delta : -MaxTicks..MaxTicks]
      BY DEF TypeOK
    <2>2. -MaxTicks..MaxTicks \subseteq Int
      BY Sizes
    <2>3. QED
      BY <2>1, <2>2, <1>1
  <1>5. run \in Nat /\ ticks \in Nat /\ armedFor \in Nat /\ run > 0 /\ ticks <= MaxTicks
    <2>1. run \in 1..Runs /\ ticks \in 0..MaxTicks /\ armedFor \in 0..Runs
      BY DEF TypeOK
    <2>2. QED
      BY <2>1, Sizes
  <1>6. \A a \in Slots : mem[a].delta \in Int /\ mem[a].code \in Nat
    <2>1. \A a \in Slots : mem[a] \in Events
      BY DEF TypeOK
    <2>2. \A e \in Events : e.delta \in Int /\ e.code \in Nat
      BY Sizes DEF Events
    <2>3. QED
      BY <2>1, <2>2
  <1>7. \A p \in Actors : held[p].buf \in 0..Buffers /\ held[p].base \in Nat /\ held[p].len \in Nat
    <2>1. held \in [Actors -> [buf : 0..Buffers, base : 0..MaxTicks, len : 0..BatchN]]
      BY DEF TypeOK
    <2>2. 0..BatchN \subseteq Nat
      BY Sizes
    <2>3. QED
      BY <2>1, <2>2, <1>1
  <1>8. /\ reader.epoch \in Nat /\ reader.tries \in Nat /\ reader.cursor \in Nat /\ reader.end \in Nat
        /\ reader.base \in Nat /\ reader.events \in Seq(Events) /\ reader.had \subseteq 1..MaxTicks
    <2>1. reader \in [pc : {"idle", "epoch", "queue", "cursor", "end", "base", "slots", "tail", "none"},
                      tries : 0..TailRetries, epoch : Nat, cursor : Address, end : Address,
                      base : 0..MaxTicks, events : Seq(Events), had : SUBSET (1..MaxTicks),
                      orphaned : BOOLEAN]
      BY DEF TypeOK
    <2>2. 0..TailRetries \subseteq Nat
      BY Sizes
    <2>3. QED
      BY <2>1, <2>2, <1>1
  <1>9. QED
    BY <1>2, <1>3, <1>4, <1>5, <1>6, <1>7, <1>8

LEMMA InitInvariant == Init /\ Gil => IInv
  <1> SUFFICES ASSUME Init, Gil PROVE IInv
    OBVIOUS
  <1>1. TypeOK
    <2>1. 0 \in Address /\ Foreign \in Events
      BY Sizes, BufferFacts DEF Address, Events, Foreign
    <2>2. reader \in [pc : {"idle", "epoch", "queue", "cursor", "end", "base", "slots", "tail", "none"},
                      tries : 0..TailRetries, epoch : Nat, cursor : Address, end : Address,
                      base : 0..MaxTicks, events : Seq(Events), had : SUBSET (1..MaxTicks),
                      orphaned : BOOLEAN]
      BY <2>1, Sizes DEF Init, NotReading
    <2>3. held \in [Actors -> [buf : 0..Buffers, base : 0..MaxTicks, len : 0..BatchN]]
      BY Sizes DEF Init, NoBatch
    <2>4. /\ hot \in [cursor : Address, end : Address, base : 0..MaxTicks, queue : 0..Runs, epoch : Nat]
          /\ call \in [run : 0..Runs, tick : 0..MaxTicks, at : Address, delta : -MaxTicks..MaxTicks]
      BY <2>1, Sizes DEF Init
    <2>5. /\ cold \in [producer : 0..Runs, buf : 0..Buffers, base : 0..MaxTicks]
          /\ ofRun \in [1..MaxTicks -> 0..Runs] /\ armedFor \in 0..Runs /\ run \in 1..Runs
          /\ ticks \in 0..MaxTicks /\ mem \in [Slots -> Events] /\ arming \in [Actors -> SUBSET Words]
      BY <2>1, Sizes DEF Init
    <2>6. QED
      BY <2>2, <2>3, <2>4, <2>5 DEF Init, TypeOK
  <1>2. Mutex /\ Called
    BY Sizes DEF Init, Mutex, Called, Ending, Reading, NotReading, InCallback
  <1>3. Armed /\ Owned
    BY Sizes DEF Init, Armed, Owned, Settled, Renewing, Even, NoBatch, Actors
  <1>4. Contents
    BY Sizes, NoBuffer DEF Init, Contents, NoBatch, Actors
  <1>5. View /\ Had /\ TailIsCoherent /\ NothingIsHidden
    BY DEF Init, View, Had, TailIsCoherent, NothingIsHidden, NotReading, Reading, Loading
  <1>6. QED
    BY <1>1, <1>2, <1>3, <1>4, <1>5 DEF IInv

---------------------------------------------------------------------------
(* Steps that leave the reader alone.                                       *)

\* Between two reads there is nothing to see.
LEMMA NobodyReads ==
  ASSUME View, ~Reading, reader' = reader
  PROVE  View' /\ Had' /\ TailIsCoherent' /\ NothingIsHidden'
  <1>1. reader' = NotReading
    BY DEF View
  <1>2. reader'.pc = "idle" /\ reader'.events = <<>>
    BY <1>1 DEF NotReading
  <1>3. QED
    BY <1>1, <1>2 DEF View, Had, TailIsCoherent, NothingIsHidden, Reading, Loading

\* What a step of the owner does while a read is under way: it leaves the epoch and
\* the written slots alone or moves the epoch on, and takes the batch from under the
\* reader only after it has pushed it.
Gentle ==
    /\ reader' = reader /\ run' = run /\ ticks <= ticks' /\ gone \subseteq gone'
    /\ hot.epoch <= hot'.epoch
    /\ \A i \in 1..ticks : ofRun'[i] = ofRun[i]
    /\ armedFor = run /\ cold.producer = run => armedFor' = run /\ cold'.producer = run /\ live \subseteq live'
    /\ hot'.epoch = hot.epoch =>
         /\ Even => hot'.end = hot.end /\ hot'.base = hot.base /\ hot.cursor <= hot'.cursor
         /\ armedFor' = armedFor
         /\ Even /\ hot.end # 0 /\ armedFor = cold.producer => \A a \in HotRange : mem'[a] = mem[a]
    /\ \/ hot'.epoch = hot.epoch /\ hot'.queue = hot.queue /\ pc'.owner \notin Renewing
       \/ armedFor # run \/ pc.owner \in Renewing
       \/ \A a \in HotRange : TickAt(a) \in gone'

LEMMA GentleView ==
  ASSUME IInv, Gentle, Reading, TypeOK'
  PROVE  View'
  <1>1. reader' = reader /\ Reading'
    BY DEF Gentle, Reading
  <1>2. /\ hot.cursor \in Nat /\ hot.end \in Nat /\ hot.epoch \in Nat /\ hot'.cursor \in Nat /\ hot'.end \in Nat
        /\ hot'.epoch \in Nat /\ reader.epoch \in Nat /\ reader.cursor \in Nat /\ reader.end \in Nat
        /\ ticks \in Nat /\ ticks' \in Nat /\ reader.events \in Seq(Events)
    <2>1. TypeOK => hot.cursor \in Nat /\ hot.end \in Nat /\ hot.epoch \in Nat /\ reader.epoch \in Nat
                    /\ reader.cursor \in Nat /\ reader.end \in Nat /\ ticks \in Nat /\ reader.events \in Seq(Events)
      BY Typed
    <2>2. (TypeOK => hot.cursor \in Nat /\ hot.end \in Nat /\ hot.epoch \in Nat /\ ticks \in Nat)'
      BY Typed, PTL
    <2>3. QED
      BY <2>1, <2>2 DEF IInv
  <1>3. reader.pc \in Loading => reader.epoch % 2 = 0 /\ reader.epoch <= hot.epoch
    BY DEF IInv, View
  <1>4. reader.pc \in Loading /\ Same' => Same /\ hot'.epoch = hot.epoch /\ Even
    BY <1>1, <1>2, <1>3 DEF Gentle, Same, Even
  <1>5. reader.pc \in {"cursor", "end", "base", "slots"} /\ ~reader.orphaned =>
           armedFor = run /\ cold.producer = run /\ armedFor' = run' /\ cold'.producer = run' /\ live \subseteq live'
    BY DEF IInv, View, Gentle
  <1>6. reader.pc \in {"end", "base", "slots"} /\ ~reader.orphaned /\ Same' => reader.cursor <= hot'.cursor
    <2>1. reader.pc \in {"end", "base", "slots"} /\ ~reader.orphaned /\ Same => reader.cursor <= hot.cursor
      BY DEF IInv, View
    <2>2. hot'.epoch = hot.epoch /\ Even => hot.cursor <= hot'.cursor
      BY DEF Gentle
    <2>3. QED
      BY <2>1, <2>2, <1>2, <1>4 DEF Loading
  <1>7. reader.pc \in {"base", "slots"} =>
           /\ Length(reader.end) \in 1..BatchN
           /\ \E b \in 1..Buffers : reader.end = End(b)
           /\ ~reader.orphaned => \E b \in live' : reader.end = End(b)
           /\ ~reader.orphaned /\ Same' => reader.end = hot'.end
    <2>1. reader.pc \in {"base", "slots"} =>
           /\ Length(reader.end) \in 1..BatchN
           /\ \E b \in 1..Buffers : reader.end = End(b)
           /\ ~reader.orphaned => \E b \in live : reader.end = End(b)
           /\ ~reader.orphaned /\ Same => reader.end = hot.end
      BY DEF IInv, View
    <2>2. hot'.epoch = hot.epoch /\ Even => hot'.end = hot.end
      BY DEF Gentle
    <2>3. QED
      BY <2>1, <2>2, <1>4, <1>5 DEF Loading
  <1>8. ASSUME reader.pc = "slots", ~reader.orphaned, Same'
        PROVE  /\ reader.base = hot'.base
               /\ \A i \in DOMAIN reader.events : reader.events[i] = mem'[reader.end - BatchN + i - 1]
    <2>1. Same /\ hot'.epoch = hot.epoch /\ Even /\ armedFor = cold.producer
      BY <1>8, <1>4, <1>5 DEF Loading
    <2>2. /\ reader.base = hot.base /\ reader.end = hot.end /\ reader.cursor <= hot.cursor
          /\ \A i \in DOMAIN reader.events : reader.events[i] = mem[reader.end - BatchN + i - 1]
          /\ Len(reader.events) <= Length(reader.end)
      BY <1>8, <2>1 DEF IInv, View
    <2>3. hot'.base = hot.base /\ \A a \in HotRange : mem'[a] = mem[a]
      <3>1. hot.end # 0
        <4>1. \A b \in 1..Buffers : End(b) # 0
          BY BufferFacts, Sizes
        <4>2. QED
          BY <4>1, <2>2, <1>7, <1>8
      <3>2. QED
        BY <2>1, <3>1 DEF Gentle
    <2>4. ASSUME NEW i \in DOMAIN reader.events PROVE reader.end - BatchN + i - 1 \in HotRange
      <3>1. i \in Nat /\ i >= 1 /\ i <= Len(reader.events) /\ Len(reader.events) \in Nat
        <4>1. Len(reader.events) \in Nat /\ i \in 1..Len(reader.events)
          BY <1>2
        <4>2. QED
          BY <4>1
      <3>2. i \in Nat /\ i >= 1 /\ i <= reader.cursor - (reader.end - BatchN)
        <4>1. /\ Length(reader.end) = reader.cursor - (reader.end - BatchN)
              /\ Length(reader.end) \in Int
          BY <1>2, Sizes DEF Length
        <4>2. i <= Length(reader.end)
          BY <3>1, <4>1, <2>2
        <4>3. QED
          BY <3>1, <4>1, <4>2
      <3>3. reader.end - BatchN + i - 1 \in (reader.end - BatchN)..(hot.cursor - 1)
        BY <3>2, <2>2, SlotBound, <1>2
      <3>4. QED
        BY <3>3, <2>2 DEF HotRange
    <2>5. QED
      BY <2>2, <2>3, <2>4
  <1>9. reader.pc = "tail" /\ ~reader.orphaned => \A i \in DOMAIN reader.events : Decoded(i) \in 1..ticks'
    <2>1. reader.pc = "tail" /\ ~reader.orphaned => \A i \in DOMAIN reader.events : Decoded(i) \in 1..ticks
      BY DEF IInv, View
    <2>2. 1..ticks \subseteq 1..ticks'
      BY <1>2 DEF Gentle
    <2>3. QED
      BY <2>1, <2>2
  <1>10. /\ reader.pc \in Loading \cup {"epoch"} => reader.tries > 0
         /\ reader.pc \notin {"slots", "tail"} => reader.events = <<>>
         /\ reader.pc = "slots" => Len(reader.events) <= Length(reader.end)
    BY DEF IInv, View
  <1>11. reader.pc \in Loading => reader.epoch <= hot'.epoch
    BY <1>2, <1>3 DEF Gentle
  <1>12. Length(reader.end)' = Length(reader.end) /\ \A i : Decoded(i)' = Decoded(i)
    BY <1>1 DEF Length, Decoded
  <1>13. QED
    BY <1>1, <1>3, <1>5, <1>6, <1>7, <1>8, <1>9, <1>10, <1>11, <1>12 DEF View, Length, Decoded

LEMMA GentleHad ==
  ASSUME IInv, Gentle, Reading, TypeOK'
  PROVE  Had'
  <1>1. reader' = reader /\ run' = run /\ gone \subseteq gone'
    BY DEF Gentle
  <1>2. SUFFICES ASSUME reader.pc \in Loading \cup {"epoch"}, NEW i \in reader.had \ gone'
                 PROVE  /\ armedFor' = run /\ hot'.queue = run /\ Even' /\ hot'.end # 0
                        /\ pc'.owner \notin Renewing
                        /\ \E a \in HotRange' : i = TickAt(a)' /\ (reader.pc \in {"end", "base", "slots"} => a < reader.cursor)
                        /\ reader.pc \in Loading => Same'
                        /\ reader.pc \in {"cursor", "end", "base", "slots"} => ~reader.orphaned
    <2> USE <1>1
    <2>1. QED
      BY DEF Had, TickAt
  <1>3. i \in reader.had \ gone
    BY <1>1, <1>2
  <1>4. /\ armedFor = run /\ hot.queue = run /\ Even /\ hot.end # 0
        /\ pc.owner \notin Renewing
        /\ reader.pc \in Loading => Same
        /\ reader.pc \in {"cursor", "end", "base", "slots"} => ~reader.orphaned
    BY <1>2, <1>3 DEF IInv, Had
  <1>5. PICK a \in HotRange : i = TickAt(a) /\ (reader.pc \in {"end", "base", "slots"} => a < reader.cursor)
    BY <1>2, <1>3 DEF IInv, Had
  <1>6. hot'.epoch = hot.epoch /\ hot'.queue = hot.queue /\ pc'.owner \notin Renewing
    BY <1>2, <1>4, <1>5 DEF Gentle
  <1>7. armedFor = cold.producer
    BY <1>4 DEF IInv, Armed
  <1>8. /\ hot'.end = hot.end /\ hot'.base = hot.base /\ hot.cursor <= hot'.cursor /\ armedFor' = armedFor
        /\ mem'[a] = mem[a]
    BY <1>4, <1>5, <1>6, <1>7 DEF Gentle
  <1>9. hot.cursor \in Nat /\ hot'.cursor \in Nat /\ hot.end \in Nat
    <2>1. TypeOK => hot.cursor \in Nat /\ hot.end \in Nat
      BY Typed
    <2>2. (TypeOK => hot.cursor \in Nat)'
      BY Typed, PTL
    <2>3. QED
      BY <2>1, <2>2 DEF IInv
  <1>10. a \in HotRange' /\ TickAt(a)' = TickAt(a)
    BY <1>8, <1>9, <1>5, Sizes DEF HotRange, TickAt
  <1>11. QED
    BY <1>4, <1>5, <1>6, <1>8, <1>10, <1>1 DEF Even, Same

LEMMA GentleTails ==
  ASSUME IInv, Gentle, Reading
  PROVE  TailIsCoherent' /\ NothingIsHidden'
  <1>1. /\ reader' = reader /\ run' = run /\ gone \subseteq gone'
        /\ \A i \in 1..ticks : ofRun'[i] = ofRun[i]
    BY DEF Gentle
  <1>2. \A i : Decoded(i)' = Decoded(i)
    BY <1>1 DEF Decoded
  <1>3. TailIsCoherent'
    <2>1. SUFFICES ASSUME reader.pc = "tail", ~reader.orphaned, NEW i \in DOMAIN reader.events
                   PROVE  /\ Decoded(i) = reader.events[i].code
                          /\ ofRun'[Decoded(i)] = run
                          /\ i > 1 => reader.events[i].code = reader.events[i - 1].code + 1
      BY <1>1, <1>2 DEF TailIsCoherent, Whole
    <2>2. /\ Decoded(i) = reader.events[i].code /\ ofRun[Decoded(i)] = run
          /\ i > 1 => reader.events[i].code = reader.events[i - 1].code + 1
      BY <2>1 DEF IInv, TailIsCoherent, Whole
    <2>3. Decoded(i) \in 1..ticks
      BY <2>1 DEF IInv, View
    <2>4. QED
      BY <1>1, <2>2, <2>3
  <1>4. NothingIsHidden'
    <2>1. NothingIsHidden
      BY DEF IInv
    <2>2. {Decoded(i)' : i \in DOMAIN reader'.events} = {Decoded(i) : i \in DOMAIN reader.events}
      BY <1>1, <1>2
    <2>3. QED
      BY <1>1, <2>1, <2>2 DEF NothingIsHidden
  <1>5. QED
    BY <1>3, <1>4

LEMMA GentleKeeps ==
  ASSUME IInv, Gentle, TypeOK'
  PROVE  View' /\ Had' /\ TailIsCoherent' /\ NothingIsHidden'
  <1>1. CASE Reading
    BY <1>1, GentleView, GentleHad, GentleTails
  <1>2. CASE ~Reading
    BY <1>2, NobodyReads DEF IInv, Gentle
  <1>3. QED
    BY <1>1, <1>2

---------------------------------------------------------------------------
(* The steps of the reader.                                                 *)

ReaderStates ==
    [pc : {"idle", "epoch", "queue", "cursor", "end", "base", "slots", "tail", "none"},
     tries : 0..TailRetries, epoch : Nat, cursor : Address, end : Address,
     base : 0..MaxTicks, events : Seq(Events), had : SUBSET (1..MaxTicks), orphaned : BOOLEAN]

\* They change nothing but the reader, and a read is under way only as long as the
\* recorder has RECORDERS.
LEMMA ReaderFrame ==
  ASSUME IInv, NEW next \in ReaderStates, ReaderStep(next), (registered /\ ~Ending) \/ next.pc = "idle"
  PROVE  Gil /\ TypeOK' /\ Mutex' /\ Called' /\ Armed' /\ Owned' /\ Contents'
  <1>1. TypeOK'
    <2>1. TypeOK /\ reader' \in ReaderStates
      BY DEF IInv, ReaderStep
    <2>2. UNCHANGED <<hot, cold, live, mem, registered, exiting, pc, arming, held, call, run,
                      enabled, ticks, gone, ofRun, armedFor>>
      BY DEF ReaderStep
    <2>3. QED
      BY <2>1, <2>2, ZenonT(60) DEF TypeOK, ReaderStates
  <1>2. Mutex'
    BY DEF IInv, Mutex, ReaderStep, Reading, Ending
  <1>3. Called'
    BY DEF IInv, Called, ReaderStep
  <1>4. Armed'
    BY DEF IInv, Armed, ReaderStep, Settled, Even, InBuffer
  <1>5. Owned'
    BY DEF IInv, Owned, ReaderStep
  <1>6. Contents'
    BY DEF IInv, Contents, ReaderStep, Even, HotRange, TickAt, Top
  <1>7. QED
    BY <1>1, <1>2, <1>3, <1>4, <1>5, <1>6 DEF IInv

LEMMA ReadUnderWay ==
  ASSUME IInv, Reading
  PROVE  /\ registered /\ ~Ending /\ ~exiting /\ pc.owner # "exited"
         /\ pc.owner \in {"renew", "arm"} => ~exiting
  BY DEF IInv, Mutex

LEMMA ReaderTyped ==
  ASSUME IInv
  PROVE  reader \in ReaderStates
  <1>1. TypeOK
    BY DEF IInv
  <1>2. QED
    BY <1>1 DEF TypeOK, ReaderStates

\* What HotRange is while a batch is armed.
LEMMA HotBatch ==
  ASSUME IInv, Even, hot.end # 0
  PROVE  /\ hot.cursor \in Nat /\ hot.end \in Nat /\ hot.end - BatchN > 0
         /\ hot.end - BatchN <= hot.cursor /\ hot.cursor <= hot.end
         /\ \E b \in 1..Buffers : hot.end = End(b) /\ hot.end - BatchN = Start(b)
         /\ HotRange \subseteq Slots
  <1>1. PICK b \in 1..Buffers : InBuffer(b)
    BY DEF IInv, Armed
  <1>2. /\ Start(b) \in Nat /\ End(b) \in Nat /\ Start(b) > 0 /\ End(b) = Start(b) + BatchN
        /\ \A a \in Start(b)..(End(b) - 1) : a \in Slots
    BY BufferFacts
  <1>3. hot.end = End(b) /\ hot.cursor \in Start(b)..End(b)
    BY <1>1 DEF InBuffer
  <1>4. hot.end - BatchN = Start(b)
    BY <1>2, <1>3, Sizes
  <1>5. HotRange \subseteq Slots
    BY <1>2, <1>3, <1>4 DEF HotRange
  <1>6. QED
    BY <1>2, <1>3, <1>4, <1>5

LEMMA BeginReadKeeps == ASSUME IInv, BeginRead PROVE IInv'
  <1>1. ~Reading /\ ~Ending /\ registered /\ reader = NotReading
    BY DEF BeginRead, RecordersFree, Reading, IInv, View
  <1> DEFINE next == [reader EXCEPT !.pc = "epoch", !.tries = TailRetries, !.had = Unshipped]
  <1>2. ReaderStep(next)
    BY DEF BeginRead
  <1>3. ~exiting /\ pc.owner # "exited"
    BY <1>1 DEF IInv, Mutex
  <1>4. ASSUME NEW i \in Unshipped
        PROVE  /\ i \in 1..ticks /\ i \notin gone
               /\ armedFor = run /\ hot.queue = run /\ Even /\ hot.end # 0
               /\ pc.owner \notin Renewing
               /\ \E a \in HotRange : i = TickAt(a)
    <2>1. hot.queue = run /\ armedFor = run /\ hot.end # 0 /\ ~(hot.epoch % 2 = 1)
      BY DEF Unshipped
    <2>2. Even
      <3>1. TypeOK => hot.epoch \in Nat
        BY Typed
      <3>2. QED
        BY <2>1, <3>1 DEF Even, IInv
    <2>3. PICK a \in HotRange : i = TickAt(a) /\ i \notin gone /\ ofRun[i] = run
      BY <2>1 DEF Unshipped, HotRange, TickAt
    <2>4. TickAt(a) \in 1..ticks
      BY <2>1, <2>2, <2>3, <1>3 DEF IInv, Contents
    <2>5. armedFor = run
      BY <2>1
    <2>6. armedFor \in Nat /\ cold.producer \in Nat /\ call.run \in Nat /\ run \in Nat
      BY Typed DEF IInv
    <2>7. pc.owner \notin {"register", "init"}
      BY <2>5, <2>6 DEF IInv, Armed, Called
    <2>8. pc.owner # "renew"
      <3>1. SUFFICES ASSUME pc.owner = "renew" PROVE FALSE
        OBVIOUS
      <3>2. hot.queue = cold.producer
        BY <3>1 DEF IInv, Armed, Actors
      <3>3. TickAt(a) \in gone
        BY <3>1, <3>2, <2>1, <2>5, <1>3 DEF IInv, Contents
      <3>4. QED
        BY <3>3, <2>3
    <2>9. pc.owner # "arm"
      BY <2>2 DEF IInv, Armed
    <2>10. QED
      BY <2>1, <2>2, <2>3, <2>4, <2>5, <2>7, <2>8, <2>9 DEF Renewing
  <1>5. next \in ReaderStates
    <2>1. Unshipped \in SUBSET (1..MaxTicks)
      <3>1. ticks \in Nat /\ ticks <= MaxTicks
        BY Typed DEF IInv
      <3>2. QED
        BY <3>1, <1>4, Sizes
    <2>2. TailRetries \in 0..TailRetries
      BY Sizes
    <2>3. QED
      BY <2>1, <2>2, ReaderTyped DEF ReaderStates
  <1>6. Gil /\ TypeOK' /\ Mutex' /\ Called' /\ Armed' /\ Owned' /\ Contents'
    BY <1>1, <1>2, <1>5, ReaderFrame
  <1>7. reader'.pc = "epoch" /\ reader'.tries = TailRetries /\ reader'.had = Unshipped /\ reader'.events = <<>>
    BY <1>1, <1>2 DEF ReaderStep, NotReading
  <1>8. View' /\ TailIsCoherent' /\ NothingIsHidden'
    BY <1>7, Sizes DEF View, TailIsCoherent, NothingIsHidden, Reading, Loading
  <1>9. Had'
    <2>1. UNCHANGED <<hot, mem, pc, armedFor, run, gone>>
      BY <1>2 DEF ReaderStep
    <2>2. reader'.pc \notin Loading /\ reader'.pc \notin {"end", "base", "slots"}
          /\ reader'.pc \notin {"cursor", "end", "base", "slots"}
      BY <1>7 DEF Loading
    <2>3. HotRange' = HotRange /\ \A a : TickAt(a)' = TickAt(a)
      BY <2>1 DEF HotRange, TickAt
    <2>4. QED
      BY <1>4, <1>7, <2>1, <2>2, <2>3 DEF Had, Even
  <1>10. QED
    BY <1>6, <1>8, <1>9 DEF IInv

\* A read that has found the batch changed is not the last to look for what it had.
LEMMA RetryKeeps ==
  ASSUME IInv, ReaderStep(Retry), reader.pc \in Loading \cup {"epoch"}, reader.had \subseteq gone
  PROVE  IInv'
  <1>1. Reading /\ reader.tries > 0 /\ reader.tries \in 0..TailRetries
    BY ReaderTyped DEF IInv, View, Reading, Loading, ReaderStates
  <1>2. reader.tries - 1 \in 0..TailRetries /\ (reader.tries # 1 => reader.tries - 1 > 0)
    BY <1>1, Sizes
  <1>3. <<>> \in Seq(Events)
    OBVIOUS
  <1>4. /\ Retry \in ReaderStates
        /\ Retry.pc = (IF reader.tries = 1 THEN "none" ELSE "epoch") /\ Retry.tries = reader.tries - 1
        /\ Retry.events = <<>> /\ Retry.had = reader.had
    <2>1. reader \in ReaderStates
      BY ReaderTyped
    <2>2. QED
      BY <2>1, <1>2, <1>3 DEF Retry, ReaderStates
  <1>5. registered /\ ~Ending
    BY <1>1, ReadUnderWay
  <1>6. Gil /\ TypeOK' /\ Mutex' /\ Called' /\ Armed' /\ Owned' /\ Contents'
    BY <1>4, <1>5, ReaderFrame
  <1>7. reader' = Retry /\ gone' = gone
    BY DEF ReaderStep
  <1>8. View'
    BY <1>2, <1>4, <1>7 DEF View, Reading, Loading
  <1>9. Had'
    BY <1>4, <1>7 DEF Had
  <1>10. TailIsCoherent' /\ NothingIsHidden'
    BY <1>4, <1>7 DEF TailIsCoherent, NothingIsHidden
  <1>11. QED
    BY <1>6, <1>8, <1>9, <1>10 DEF IInv

\* The steps of an attempt that do not end it need only keep what the reader knows.
LEMMA AttemptKeeps ==
  ASSUME IInv, Reading, NEW next \in ReaderStates, ReaderStep(next), next.pc \in Loading, View', Had'
  PROVE  IInv'
  <1>1. registered /\ ~Ending
    BY ReadUnderWay
  <1>2. Gil /\ TypeOK' /\ Mutex' /\ Called' /\ Armed' /\ Owned' /\ Contents'
    BY <1>1, ReaderFrame
  <1>3. TailIsCoherent' /\ NothingIsHidden'
    BY DEF TailIsCoherent, NothingIsHidden, ReaderStep, Loading
  <1>4. QED
    BY <1>2, <1>3 DEF IInv

\* A read that gives up has nothing to show for.
LEMMA GiveUpKeeps ==
  ASSUME IInv, Reading, NEW next \in ReaderStates, ReaderStep(next), next.pc = "none",
         next.events = <<>>, next.had \subseteq gone
  PROVE  IInv'
  <1>1. registered /\ ~Ending
    BY ReadUnderWay
  <1>2. Gil /\ TypeOK' /\ Mutex' /\ Called' /\ Armed' /\ Owned' /\ Contents'
    BY <1>1, ReaderFrame
  <1>3. TailIsCoherent' /\ NothingIsHidden' /\ View' /\ Had'
    BY DEF TailIsCoherent, NothingIsHidden, ReaderStep, View, Had, Loading, Reading
  <1>4. QED
    BY <1>2, <1>3 DEF IInv

LEMMA LoadEpochKeeps == ASSUME IInv, LoadEpoch PROVE IInv'
  <1>1. reader.pc = "epoch" /\ Reading
    BY DEF LoadEpoch, Reading
  <1>2. hot.epoch \in Nat
    BY Typed DEF IInv
  <1>3. CASE hot.epoch % 2 = 1
    <2>1. ReaderStep(Retry)
      BY <1>3 DEF LoadEpoch
    <2>2. ~Even
      BY <1>3 DEF Even
    <2>3. reader.had \subseteq gone
      BY <1>1, <2>2 DEF IInv, Had
    <2>4. QED
      BY <1>1, <2>1, <2>3, RetryKeeps
  <1>4. CASE hot.epoch % 2 # 1
    <2> DEFINE next == [reader EXCEPT !.pc = "queue", !.epoch = hot.epoch]
    <2>1. ReaderStep(next)
      BY <1>4 DEF LoadEpoch
    <2>2. /\ next \in ReaderStates /\ next.pc = "queue" /\ next.epoch = hot.epoch
          /\ next.tries = reader.tries /\ next.had = reader.had /\ next.events = reader.events
      BY <1>2, ReaderTyped DEF ReaderStates
    <2>3. reader' = next /\ UNCHANGED <<hot, mem, pc, armedFor, run, gone>>
      BY <2>1 DEF ReaderStep
    <2>4. View'
      <3>1. reader.tries > 0 /\ reader.events = <<>>
        BY <1>1 DEF IInv, View
      <3>2. hot.epoch % 2 = 0 /\ hot.epoch <= hot.epoch
        BY <1>2, <1>4
      <3>3. QED
        BY <2>2, <2>3, <3>1, <3>2 DEF View, Reading, Loading
    <2>5. Had'
      <3>1. HotRange' = HotRange /\ \A a : TickAt(a)' = TickAt(a)
        BY <2>3 DEF HotRange, TickAt
      <3>2. \A i \in reader.had \ gone :
               /\ armedFor = run /\ hot.queue = run /\ Even /\ hot.end # 0 /\ pc.owner \notin Renewing
               /\ \E a \in HotRange : i = TickAt(a)
        BY <1>1 DEF IInv, Had
      <3>3. Same'
        BY <2>2, <2>3 DEF Same
      <3>4. QED
        BY <2>2, <2>3, <3>1, <3>2, <3>3 DEF Had, Even
    <2>6. QED
      BY <1>1, <2>1, <2>2, <2>4, <2>5, AttemptKeeps DEF Loading
  <1>5. QED
    BY <1>3, <1>4

LEMMA LoadQueueIdKeeps == ASSUME IInv, LoadQueueId PROVE IInv'
  <1>1. reader.pc = "queue" /\ Reading /\ reader.pc \in Loading
    BY DEF LoadQueueId, Reading, Loading
  <1> DEFINE to == IF hot.queue = run THEN "cursor" ELSE "none"
             next == [reader EXCEPT !.pc = to, !.orphaned = armedFor # run]
  <1>2. ReaderStep(next)
    BY DEF LoadQueueId
  <1>3. /\ next \in ReaderStates /\ next.pc = to /\ next.epoch = reader.epoch /\ next.orphaned = (armedFor # run)
        /\ next.tries = reader.tries /\ next.had = reader.had /\ next.events = reader.events
    BY ReaderTyped DEF ReaderStates
  <1>4. reader' = next /\ UNCHANGED <<hot, cold, mem, pc, armedFor, run, gone>>
    BY <1>2 DEF ReaderStep
  <1>5. reader.tries > 0 /\ reader.events = <<>> /\ reader.epoch % 2 = 0 /\ reader.epoch <= hot.epoch
    BY <1>1 DEF IInv, View
  <1>6. \A i \in reader.had \ gone :
           /\ armedFor = run /\ hot.queue = run /\ Even /\ hot.end # 0 /\ pc.owner \notin Renewing
           /\ (\E a \in HotRange : i = TickAt(a)) /\ Same
    BY <1>1 DEF IInv, Had
  <1>7. CASE hot.queue = run
    <2>1. next.pc = "cursor"
      BY <1>3, <1>7
    <2>2. armedFor = run => cold.producer = run
      <3>1. armedFor \in Nat /\ cold.producer \in Nat /\ call.run \in Nat /\ run \in Nat
        BY Typed DEF IInv
      <3>2. armedFor <= cold.producer /\ cold.producer <= call.run /\ call.run <= run
        BY DEF IInv, Armed, Called
      <3>3. QED
        BY <3>1, <3>2
    <2>3. View'
      BY <1>3, <1>4, <1>5, <2>1, <2>2 DEF View, Reading, Loading
    <2>4. Had'
      <3>1. HotRange' = HotRange /\ (\A a : TickAt(a)' = TickAt(a)) /\ (Same => Same')
        BY <1>3, <1>4 DEF HotRange, TickAt, Same
      <3>2. QED
        BY <1>3, <1>4, <1>6, <2>1, <3>1 DEF Had, Even
    <2>5. QED
      BY <1>1, <1>2, <1>3, <2>1, <2>3, <2>4, AttemptKeeps DEF Loading
  <1>8. CASE hot.queue # run
    <2>1. next.pc = "none" /\ next.events = <<>> /\ next.had \subseteq gone
      BY <1>3, <1>5, <1>6, <1>8
    <2>2. QED
      BY <1>1, <1>2, <1>3, <2>1, GiveUpKeeps
  <1>9. QED
    BY <1>7, <1>8

LEMMA LoadCursorKeeps == ASSUME IInv, LoadCursor PROVE IInv'
  <1>1. reader.pc = "cursor" /\ Reading /\ reader.pc \in Loading
    BY DEF LoadCursor, Reading, Loading
  <1> DEFINE next == [reader EXCEPT !.pc = "end", !.cursor = hot.cursor]
  <1>2. ReaderStep(next)
    BY DEF LoadCursor
  <1>3. /\ next \in ReaderStates /\ next.pc = "end" /\ next.epoch = reader.epoch /\ next.orphaned = reader.orphaned
        /\ next.tries = reader.tries /\ next.had = reader.had /\ next.events = reader.events /\ next.cursor = hot.cursor
    <2>1. hot.cursor \in Address
      BY DEF IInv, TypeOK
    <2>2. QED
      BY <2>1, ReaderTyped DEF ReaderStates
  <1>4. reader' = next /\ UNCHANGED <<hot, cold, mem, pc, armedFor, run, gone>>
    BY <1>2 DEF ReaderStep
  <1>5. /\ reader.tries > 0 /\ reader.events = <<>> /\ reader.epoch % 2 = 0 /\ reader.epoch <= hot.epoch
        /\ ~reader.orphaned => armedFor = run /\ cold.producer = run
    BY <1>1 DEF IInv, View
  <1>6. hot.cursor \in Nat /\ hot.end \in Nat
    BY Typed DEF IInv
  <1>7. View'
    BY <1>3, <1>4, <1>5, <1>6 DEF View, Reading, Loading
  <1>8. Had'
    <2>1. \A i \in reader.had \ gone :
             /\ armedFor = run /\ hot.queue = run /\ Even /\ hot.end # 0 /\ pc.owner \notin Renewing
             /\ (\E a \in HotRange : i = TickAt(a)) /\ Same /\ ~reader.orphaned
      BY <1>1 DEF IInv, Had
    <2>2. HotRange' = HotRange /\ (\A a : TickAt(a)' = TickAt(a)) /\ (Same => Same')
      BY <1>3, <1>4 DEF HotRange, TickAt, Same
    <2>3. \A a \in HotRange : a < next.cursor
      BY <1>3, <1>6, Sizes DEF HotRange
    <2>4. QED
      BY <1>3, <1>4, <2>1, <2>2, <2>3 DEF Had, Even
  <1>9. QED
    BY <1>1, <1>2, <1>3, <1>7, <1>8, AttemptKeeps DEF Loading

LEMMA LoadEndKeeps == ASSUME IInv, LoadEnd PROVE IInv'
  <1>1. reader.pc = "end" /\ Reading /\ reader.pc \in Loading
    BY DEF LoadEnd, Reading, Loading
  <1>2. /\ reader.tries > 0 /\ reader.events = <<>> /\ reader.epoch % 2 = 0 /\ reader.epoch <= hot.epoch
        /\ ~reader.orphaned => armedFor = run /\ cold.producer = run
        /\ ~reader.orphaned /\ Same => reader.cursor <= hot.cursor
    BY <1>1 DEF IInv, View
  <1>3. hot.cursor \in Nat /\ hot.end \in Nat /\ reader.cursor \in Nat
    BY Typed DEF IInv
  <1>4. \A i \in reader.had \ gone :
           /\ armedFor = run /\ hot.queue = run /\ Even /\ hot.end # 0 /\ pc.owner \notin Renewing
           /\ (\E a \in HotRange : i = TickAt(a) /\ a < reader.cursor) /\ Same /\ ~reader.orphaned
    BY <1>1 DEF IInv, Had
  \* As long as the batch is still where it was, the end fits the cursor.
  <1>5. ASSUME NEW i \in reader.had \ gone PROVE reader.cursor # 0 /\ hot.end # 0 /\ Length(hot.end) \in 1..BatchN
    <2>1. Even /\ hot.end # 0 /\ reader.cursor <= hot.cursor
      BY <1>2, <1>4
    <2>2. PICK a \in HotRange : a < reader.cursor
      BY <1>4
    <2>3. hot.end - BatchN > 0 /\ hot.cursor <= hot.end
      BY <2>1, HotBatch
    <2>4. QED
      BY <2>1, <2>2, <2>3, <1>3, Sizes DEF HotRange, Length
  <1>6. CASE reader.cursor = 0 \/ hot.end = 0
    <2> DEFINE next == [reader EXCEPT !.pc = "none"]
    <2>1. ReaderStep(next)
      BY <1>6 DEF LoadEnd
    <2>2. next \in ReaderStates /\ next.pc = "none" /\ next.events = <<>> /\ next.had = reader.had
      BY <1>2, ReaderTyped DEF ReaderStates
    <2>3. reader.had \subseteq gone
      BY <1>5, <1>6
    <2>4. QED
      BY <1>1, <2>1, <2>2, <2>3, GiveUpKeeps
  <1>7. CASE ~(reader.cursor = 0 \/ hot.end = 0) /\ Length(hot.end) \in 1..BatchN
    <2> DEFINE next == [reader EXCEPT !.pc = "base", !.end = hot.end]
    <2>1. ReaderStep(next)
      BY <1>7 DEF LoadEnd
    <2>2. /\ next \in ReaderStates /\ next.pc = "base" /\ next.epoch = reader.epoch /\ next.orphaned = reader.orphaned
          /\ next.tries = reader.tries /\ next.had = reader.had /\ next.events = reader.events
          /\ next.cursor = reader.cursor /\ next.end = hot.end
      <3>1. hot.end \in Address
        BY DEF IInv, TypeOK
      <3>2. QED
        BY <3>1, ReaderTyped DEF ReaderStates
    <2>3. reader' = next /\ UNCHANGED <<hot, cold, live, mem, pc, armedFor, run, gone>>
      BY <2>1 DEF ReaderStep
    <2>4. \E b \in 1..Buffers : hot.end = End(b)
      BY <1>7 DEF IInv, Armed
    <2>5. ~reader.orphaned => \E b \in live : hot.end = End(b)
      BY <1>1, <1>2, <1>7, ReadUnderWay DEF IInv, Owned
    <2>6. Length(hot.end)' = Length(hot.end)
      BY <2>2, <2>3 DEF Length
    <2>7. Length(reader.end)' = Length(hot.end)
      BY <2>2, <2>3 DEF Length
    <2>8. View'
      BY <1>2, <1>7, <2>2, <2>3, <2>4, <2>5, <2>7 DEF View, Reading, Loading, Same
    <2>9. Had'
      <3>1. HotRange' = HotRange /\ (\A a : TickAt(a)' = TickAt(a)) /\ (Same => Same')
        BY <2>2, <2>3 DEF HotRange, TickAt, Same
      <3>2. QED
        BY <1>4, <2>2, <2>3, <3>1 DEF Had, Even
    <2>10. QED
      BY <1>1, <2>1, <2>2, <2>8, <2>9, AttemptKeeps DEF Loading
  <1>8. CASE ~(reader.cursor = 0 \/ hot.end = 0) /\ Length(hot.end) \notin 1..BatchN
    <2>1. ReaderStep(Retry)
      BY <1>8 DEF LoadEnd
    <2>2. reader.had \subseteq gone
      BY <1>5, <1>8
    <2>3. QED
      BY <1>1, <2>1, <2>2, RetryKeeps
  <1>9. QED
    BY <1>6, <1>7, <1>8

LEMMA LoadBaseKeeps == ASSUME IInv, LoadBase PROVE IInv'
  <1>1. reader.pc = "base" /\ Reading /\ reader.pc \in Loading
    BY DEF LoadBase, Reading, Loading
  <1> DEFINE next == [reader EXCEPT !.pc = "slots", !.base = hot.base]
  <1>2. ReaderStep(next)
    BY DEF LoadBase
  <1>3. /\ next \in ReaderStates /\ next.pc = "slots" /\ next.epoch = reader.epoch /\ next.orphaned = reader.orphaned
        /\ next.tries = reader.tries /\ next.had = reader.had /\ next.events = reader.events
        /\ next.cursor = reader.cursor /\ next.end = reader.end /\ next.base = hot.base
    <2>1. hot.base \in 0..MaxTicks
      BY DEF IInv, TypeOK
    <2>2. QED
      BY <2>1, ReaderTyped DEF ReaderStates
  <1>4. reader' = next /\ UNCHANGED <<hot, cold, live, mem, pc, armedFor, run, gone>>
    BY <1>2 DEF ReaderStep
  <1>5. /\ reader.tries > 0 /\ reader.events = <<>> /\ reader.epoch % 2 = 0 /\ reader.epoch <= hot.epoch
        /\ ~reader.orphaned => armedFor = run /\ cold.producer = run
        /\ ~reader.orphaned /\ Same => reader.cursor <= hot.cursor /\ reader.end = hot.end
        /\ Length(reader.end) \in 1..BatchN
        /\ \E b \in 1..Buffers : reader.end = End(b)
        /\ ~reader.orphaned => \E b \in live : reader.end = End(b)
    BY <1>1 DEF IInv, View
  <1>6. Length(reader.end)' = Length(reader.end) /\ Len(reader'.events) = 0 /\ DOMAIN reader'.events = {}
    BY <1>3, <1>4, <1>5 DEF Length
  <1>7. Len(reader'.events) <= Length(reader.end)'
    BY <1>5, <1>6, Sizes
  <1>8. View'
    BY <1>3, <1>4, <1>5, <1>6, <1>7 DEF View, Reading, Loading, Same
  <1>9. Had'
    <2>1. \A i \in reader.had \ gone :
             /\ armedFor = run /\ hot.queue = run /\ Even /\ hot.end # 0 /\ pc.owner \notin Renewing
             /\ (\E a \in HotRange : i = TickAt(a) /\ a < reader.cursor) /\ Same /\ ~reader.orphaned
      BY <1>1 DEF IInv, Had
    <2>2. HotRange' = HotRange /\ (\A a : TickAt(a)' = TickAt(a)) /\ (Same => Same')
      BY <1>3, <1>4 DEF HotRange, TickAt, Same
    <2>3. QED
      BY <1>3, <1>4, <2>1, <2>2 DEF Had, Even
  <1>10. QED
    BY <1>1, <1>2, <1>3, <1>8, <1>9, AttemptKeeps DEF Loading

\* What a slot holds the reader can hold, too.
LEMMA SlotsFit ==
  ASSUME IInv, reader.pc = "slots", NextSlot < reader.cursor
  PROVE  /\ NextSlot \in Slots /\ mem[NextSlot] \in Events
         /\ Len(reader.events) \in Nat /\ Len(reader.events) + 1 <= Length(reader.end)
  <1>1. PICK b \in 1..Buffers : reader.end = End(b)
    BY DEF IInv, View
  <1>2. /\ Start(b) \in Nat /\ End(b) \in Nat /\ End(b) = Start(b) + BatchN
        /\ \A a \in Start(b)..(End(b) - 1) : a \in Slots
    BY BufferFacts
  <1>3. reader.cursor \in Nat /\ reader.events \in Seq(Events)
    BY Typed DEF IInv
  <1>4. Len(reader.events) \in Nat
    BY <1>3
  <1>5. reader.end - BatchN = Start(b) /\ Length(reader.end) \in 1..BatchN
    BY <1>1, <1>2, Sizes DEF IInv, View
  <1>6. NextSlot = Start(b) + Len(reader.events)
    BY <1>5 DEF NextSlot
  <1>7. reader.cursor - Start(b) <= BatchN
    BY <1>5, Sizes DEF Length
  <1>8. NextSlot \in Start(b)..(End(b) - 1)
    <2>1. Start(b) \in Nat /\ End(b) = Start(b) + BatchN /\ reader.cursor \in Nat
      BY <1>2, <1>3
    <2>2. Start(b) + Len(reader.events) < reader.cursor
      BY <1>6
    <2>3. NextSlot \in Start(b)..(Start(b) + BatchN - 1)
      BY <2>1, <2>2, <1>4, <1>6, <1>7, SlotWithin
    <2>4. End(b) - 1 = Start(b) + BatchN - 1
      BY <2>1, Sizes
    <2>5. QED
      BY <2>3, <2>4
  <1>9. mem[NextSlot] \in Events
    BY <1>2, <1>8 DEF IInv, TypeOK
  <1>10. Length(reader.end) = reader.cursor - Start(b)
    BY <1>5 DEF Length
  <1>11. Len(reader.events) + 1 <= Length(reader.end)
    BY <1>2, <1>3, <1>4, <1>6, <1>10
  <1>12. QED
    BY <1>2, <1>4, <1>8, <1>9, <1>11

LEMMA LoadSlotKeeps == ASSUME IInv, LoadSlot PROVE IInv'
  <1>1. reader.pc = "slots" /\ Reading /\ reader.pc \in Loading /\ NextSlot < reader.cursor
    BY DEF LoadSlot, Reading, Loading
  <1> DEFINE more == Append(reader.events, mem[NextSlot])
             next == [reader EXCEPT !.events = more]
  <1>2. ReaderStep(next)
    BY DEF LoadSlot
  <1>3. reader.events \in Seq(Events) /\ mem[NextSlot] \in Events
    BY <1>1, SlotsFit, Typed DEF IInv
  <1>4. more \in Seq(Events) /\ Len(more) = Len(reader.events) + 1
    BY <1>3
  <1>5. /\ next \in ReaderStates /\ next.pc = "slots" /\ next.epoch = reader.epoch /\ next.orphaned = reader.orphaned
        /\ next.tries = reader.tries /\ next.had = reader.had /\ next.events = more
        /\ next.cursor = reader.cursor /\ next.end = reader.end /\ next.base = reader.base
    BY <1>1, <1>4, ReaderTyped DEF ReaderStates
  <1>6. reader' = next /\ UNCHANGED <<hot, cold, live, mem, pc, armedFor, run, gone>>
    BY <1>2 DEF ReaderStep
  <1>7. /\ reader.tries > 0 /\ reader.epoch % 2 = 0 /\ reader.epoch <= hot.epoch
        /\ ~reader.orphaned => armedFor = run /\ cold.producer = run
        /\ ~reader.orphaned /\ Same => reader.cursor <= hot.cursor /\ reader.end = hot.end /\ reader.base = hot.base
        /\ Length(reader.end) \in 1..BatchN
        /\ \E b \in 1..Buffers : reader.end = End(b)
        /\ ~reader.orphaned => \E b \in live : reader.end = End(b)
    BY <1>1 DEF IInv, View, Loading
  <1>8. Length(reader.end)' = Length(reader.end) /\ Len(more) <= Length(reader.end)
    BY <1>1, <1>4, <1>5, <1>6, SlotsFit DEF Length
  <1>9. ASSUME ~reader.orphaned, Same, NEW i \in DOMAIN more
        PROVE  more[i] = mem[reader.end - BatchN + i - 1]
    <2>1. CASE i = Len(reader.events) + 1
      <3>1. Len(reader.events) \in Nat /\ reader.end \in Nat
        BY <1>1, SlotsFit, Typed DEF IInv
      <3>2. NextSlot = reader.end - BatchN + i - 1
        BY <2>1, <3>1, Sizes DEF NextSlot
      <3>3. more[i] = mem[NextSlot]
        BY <2>1, <1>3
      <3>4. QED
        BY <3>2, <3>3
    <2>2. CASE i # Len(reader.events) + 1
      <3>1. i \in DOMAIN reader.events /\ more[i] = reader.events[i]
        BY <2>2, <1>3, <1>4
      <3>2. reader.events[i] = mem[reader.end - BatchN + i - 1]
        BY <3>1, <1>1, <1>9 DEF IInv, View
      <3>3. QED
        BY <3>1, <3>2
    <2>3. QED
      BY <2>1, <2>2
  <1>10. View'
    <2>1. Same' => Same
      BY <1>5, <1>6 DEF Same
    <2>2. QED
      BY <1>5, <1>6, <1>7, <1>8, <1>9, <2>1 DEF View, Reading, Loading
  <1>11. Had'
    <2>1. \A i \in reader.had \ gone :
             /\ armedFor = run /\ hot.queue = run /\ Even /\ hot.end # 0 /\ pc.owner \notin Renewing
             /\ (\E a \in HotRange : i = TickAt(a) /\ a < reader.cursor) /\ Same /\ ~reader.orphaned
      BY <1>1 DEF IInv, Had, Loading
    <2>2. HotRange' = HotRange /\ (\A a : TickAt(a)' = TickAt(a)) /\ (Same => Same')
      BY <1>5, <1>6 DEF HotRange, TickAt, Same
    <2>3. QED
      BY <1>5, <1>6, <2>1, <2>2 DEF Had, Even
  <1>12. QED
    BY <1>1, <1>2, <1>5, <1>10, <1>11, AttemptKeeps DEF Loading

\* What a whole read that found the epoch unchanged has in its hands.
LEMMA TailFacts ==
  ASSUME IInv, reader.pc = "slots", NextSlot = reader.cursor, Same, ~reader.orphaned
  PROVE  /\ armedFor = run /\ reader.base = hot.base
         /\ \A i \in DOMAIN reader.events :
              /\ i \in Nat /\ hot.end - BatchN + i - 1 \in HotRange
              /\ reader.events[i] = mem[hot.end - BatchN + i - 1]
              /\ Decoded(i) = TickAt(hot.end - BatchN + i - 1)
              /\ Decoded(i) \in 1..ticks /\ Decoded(i) = reader.events[i].code /\ ofRun[Decoded(i)] = run
              /\ reader.events[i].code = Top + 1 - (hot.cursor - (hot.end - BatchN + i - 1))
         /\ \A a \in HotRange : a < reader.cursor =>
              \E i \in DOMAIN reader.events : Decoded(i) = TickAt(a)
  <1>1. /\ armedFor = run /\ cold.producer = run /\ reader.end = hot.end /\ reader.base = hot.base
        /\ reader.cursor <= hot.cursor /\ reader.epoch % 2 = 0 /\ \E b \in 1..Buffers : reader.end = End(b)
        /\ \A i \in DOMAIN reader.events : reader.events[i] = mem[reader.end - BatchN + i - 1]
        /\ Length(reader.end) \in 1..BatchN
    BY DEF IInv, View, Loading
  <1>2. /\ hot.cursor \in Nat /\ hot.end \in Nat /\ reader.cursor \in Nat /\ reader.events \in Seq(Events)
        /\ run # 0
    BY Typed DEF IInv
  <1>3. hot.end # 0 /\ Even
    <2>1. \A b \in 1..Buffers : End(b) # 0
      BY BufferFacts, Sizes
    <2>2. QED
      BY <1>1, <2>1 DEF Even, Same
  <1>4. pc.owner # "exited"
    BY ReadUnderWay DEF Reading
  <1>5. \A a \in HotRange :
           /\ TickAt(a) \in 1..ticks /\ ofRun[TickAt(a)] = run
           /\ TickAt(a) = mem[a].code /\ mem[a].code = Top + 1 - (hot.cursor - a)
    BY <1>1, <1>2, <1>3, <1>4 DEF IInv, Contents
  <1>6. Len(reader.events) = reader.cursor - (hot.end - BatchN) /\ Len(reader.events) \in Nat
    BY <1>1, <1>2, Sizes DEF NextSlot
  <1>7. ASSUME NEW i \in DOMAIN reader.events
        PROVE  /\ i \in Nat /\ hot.end - BatchN + i - 1 \in HotRange
               /\ reader.events[i] = mem[hot.end - BatchN + i - 1]
               /\ Decoded(i) = TickAt(hot.end - BatchN + i - 1)
    <2>1. i \in Nat /\ i >= 1 /\ i <= reader.cursor - (hot.end - BatchN)
      BY <1>2, <1>6
    <2>2. hot.end - BatchN + i - 1 \in HotRange
      BY <2>1, <1>1, <1>2, SlotBound DEF HotRange
    <2>3. reader.events[i] = mem[hot.end - BatchN + i - 1]
      BY <1>1
    <2>4. QED
      BY <2>1, <2>2, <2>3, <1>1 DEF Decoded, TickAt
  <1>8. ASSUME NEW a \in HotRange, a < reader.cursor
        PROVE  \E i \in DOMAIN reader.events : Decoded(i) = TickAt(a)
    <2> DEFINE i == a - (hot.end - BatchN) + 1
    <2>1. a \in Int /\ a >= hot.end - BatchN
      BY <1>2, Sizes DEF HotRange
    <2>2. i \in 1..Len(reader.events) /\ hot.end - BatchN + i - 1 = a
      <3>1. hot.end - BatchN \in Int /\ reader.cursor \in Nat
        BY <1>2, Sizes
      <3>2. QED
        BY <1>6, <1>8, <2>1, <3>1, SlotIndex
    <2>3. i \in DOMAIN reader.events
      BY <1>2, <2>2
    <2>4. QED
      BY <2>2, <2>3, <1>7
  <1>9. QED
    BY <1>1, <1>5, <1>7, <1>8

LEMMA LoadEpochAgainKeeps == ASSUME IInv, LoadEpochAgain PROVE IInv'
  <1>1. reader.pc = "slots" /\ Reading /\ reader.pc \in Loading /\ NextSlot = reader.cursor
    BY DEF LoadEpochAgain, Reading, Loading
  <1>2. \A i \in reader.had \ gone :
           (\E a \in HotRange : i = TickAt(a) /\ a < reader.cursor) /\ Same /\ ~reader.orphaned
    BY <1>1 DEF IInv, Had, Loading
  <1>3. CASE hot.epoch # reader.epoch
    <2>1. ReaderStep(Retry)
      BY <1>3 DEF LoadEpochAgain
    <2>2. reader.had \subseteq gone
      BY <1>2, <1>3 DEF Same
    <2>3. QED
      BY <1>1, <2>1, <2>2, RetryKeeps
  <1>4. CASE hot.epoch = reader.epoch
    <2> DEFINE next == [reader EXCEPT !.pc = "tail"]
    <2>1. ReaderStep(next) /\ Same
      BY <1>4 DEF LoadEpochAgain, Same
    <2>2. /\ next \in ReaderStates /\ next.pc = "tail" /\ next.orphaned = reader.orphaned /\ next.base = reader.base
          /\ next.had = reader.had /\ next.events = reader.events
      BY ReaderTyped DEF ReaderStates
    <2>3. reader' = next /\ UNCHANGED <<hot, mem, run, ticks, gone, ofRun>>
      BY <2>1 DEF ReaderStep
    <2>4. registered /\ ~Ending
      BY <1>1, ReadUnderWay
    <2>5. Gil /\ TypeOK' /\ Mutex' /\ Called' /\ Armed' /\ Owned' /\ Contents'
      BY <2>1, <2>2, <2>4, ReaderFrame
    <2>6. \A i : Decoded(i)' = Decoded(i)
      BY <2>2, <2>3 DEF Decoded
    <2>7. View' /\ Had'
      <3>1. ~reader.orphaned => \A i \in DOMAIN reader.events : Decoded(i) \in 1..ticks
        BY <1>1, <2>1, TailFacts
      <3>2. Had'
        BY <2>2, <2>3 DEF Had, Loading
      <3>3. View'
        BY <2>2, <2>3, <2>6, <3>1 DEF View, Reading, Loading
      <3>4. QED
        BY <3>2, <3>3
    <2>8. TailIsCoherent'
      <3>1. SUFFICES ASSUME ~reader.orphaned, NEW i \in DOMAIN reader.events
                     PROVE  /\ Decoded(i) = reader.events[i].code
                            /\ ofRun[Decoded(i)] = run
                            /\ i > 1 => reader.events[i].code = reader.events[i - 1].code + 1
        BY <2>2, <2>3, <2>6 DEF TailIsCoherent, Whole
      <3>2. /\ i \in Nat /\ Decoded(i) = reader.events[i].code /\ ofRun[Decoded(i)] = run
            /\ reader.events[i].code = Top + 1 - (hot.cursor - (hot.end - BatchN + i - 1))
        BY <1>1, <2>1, <3>1, TailFacts
      <3>3. ASSUME i > 1 PROVE reader.events[i].code = reader.events[i - 1].code + 1
        <4>1. i - 1 \in DOMAIN reader.events
          <5>1. reader.events \in Seq(Events)
            BY Typed DEF IInv
          <5>2. QED
            BY <5>1, <3>3
        <4>2. reader.events[i - 1].code = Top + 1 - (hot.cursor - (hot.end - BatchN + (i - 1) - 1))
          BY <1>1, <2>1, <3>1, <4>1, TailFacts
        <4>3. hot.cursor \in Nat /\ hot.end \in Nat /\ Top \in Int
          <5>1. hot.cursor \in Nat /\ hot.end \in Nat /\ ticks \in Nat
            BY Typed DEF IInv
          <5>2. QED
            BY <5>1 DEF Top
        <4>4. QED
          BY <4>2, <4>3, <3>2, Sizes
      <3>4. QED
        BY <3>2, <3>3
    <2>9. NothingIsHidden'
      <3>1. ASSUME NEW i \in reader.had PROVE i \in gone \cup {Decoded(j) : j \in DOMAIN reader.events}
        <4>1. CASE i \in gone
          BY <4>1
        <4>2. CASE i \notin gone
          <5>1. PICK a \in HotRange : i = TickAt(a) /\ a < reader.cursor
            BY <4>2, <1>2
          <5>2. ~reader.orphaned
            BY <4>2, <1>2
          <5>3. QED
            BY <1>1, <2>1, <5>1, <5>2, TailFacts
        <4>3. QED
          BY <4>1, <4>2
      <3>2. {Decoded(j)' : j \in DOMAIN reader'.events} = {Decoded(j) : j \in DOMAIN reader.events}
        BY <2>2, <2>3, <2>6
      <3>3. QED
        BY <2>2, <2>3, <3>1, <3>2 DEF NothingIsHidden
    <2>10. QED
      BY <2>5, <2>7, <2>8, <2>9 DEF IInv
  <1>5. QED
    BY <1>3, <1>4

LEMMA EndReadKeeps == ASSUME IInv, EndRead PROVE IInv'
  <1>1. ReaderStep(NotReading)
    BY DEF EndRead
  <1>2. NotReading \in ReaderStates /\ NotReading.pc = "idle" /\ NotReading.events = <<>>
    BY Sizes, BufferFacts DEF NotReading, ReaderStates, Address
  <1>3. Gil /\ TypeOK' /\ Mutex' /\ Called' /\ Armed' /\ Owned' /\ Contents'
    BY <1>1, <1>2, ReaderFrame
  <1>4. reader' = NotReading
    BY <1>1 DEF ReaderStep
  <1>5. View' /\ Had' /\ TailIsCoherent' /\ NothingIsHidden'
    BY <1>2, <1>4 DEF View, Had, TailIsCoherent, NothingIsHidden, Reading, Loading
  <1>6. QED
    BY <1>3, <1>5 DEF IInv

LEMMA ReaderKeeps == ASSUME IInv, Reader PROVE IInv'
  BY BeginReadKeeps, LoadEpochKeeps, LoadQueueIdKeeps, LoadCursorKeeps, LoadEndKeeps, LoadBaseKeeps,
     LoadSlotKeeps, LoadEpochAgainKeeps, EndReadKeeps DEF Reader

---------------------------------------------------------------------------
(* Who stands where.                                                        *)

OwnerPlaces == {"idle", "entered", "fast", "written", "slow", "register", "init", "ship",
                "renew", "arm", "slowwrite", "commit", "push", "exited"}
EnderPlaces == {"off", "commit", "renew", "arm", "push", "flushed"}

LEMMA Places ==
  ASSUME IInv
  PROVE  pc \in [owner : OwnerPlaces, ender : EnderPlaces]
  BY DEF IInv, TypeOK, OwnerPlaces, EnderPlaces

LEMMA OwnerGoes ==
  ASSUME IInv, NEW to \in OwnerPlaces, Goto("owner", to)
  PROVE  pc'.owner = to /\ pc'.ender = pc.ender /\ pc' \in [owner : OwnerPlaces, ender : EnderPlaces]
  BY Places DEF Goto

LEMMA EnderGoes ==
  ASSUME IInv, NEW to \in EnderPlaces, Goto("ender", to)
  PROVE  pc'.ender = to /\ pc'.owner = pc.owner /\ pc' \in [owner : OwnerPlaces, ender : EnderPlaces]
  BY Places DEF Goto

\* While the owner pushes, nobody flushes; a batch is in its hands only to be shipped.
LEMMA PushAlone ==
  ASSUME IInv, pc.owner \in InCallback \ {"entered"}, ~exiting
  PROVE  /\ ~Ending /\ held.ender = NoBatch
         /\ pc.owner # "ship" => held.owner = NoBatch
         /\ call.tick = ticks /\ ticks \in 1..MaxTicks /\ call.run \in 1..Runs /\ ofRun[ticks] = call.run
         /\ cold.producer <= call.run /\ call.run <= run
  <1>1. ~Ending
    BY DEF IInv, Mutex, InCallback
  <1>2. held.ender = NoBatch
    BY <1>1 DEF IInv, Owned, Ending
  <1>3. pc.owner # "ship" => held.owner = NoBatch
    BY DEF IInv, Owned
  <1>4. call.tick = ticks /\ ticks > 0 /\ call.run > 0 /\ ofRun[ticks] = call.run
        /\ cold.producer <= call.run /\ call.run <= run
    BY DEF IInv, Called
  <1>5. ticks \in 0..MaxTicks
    BY DEF IInv, TypeOK
  <1>6. call.run \in 0..Runs
    BY DEF IInv, TypeOK
  <1>7. QED
    BY <1>1, <1>2, <1>3, <1>4, <1>5, <1>6, Sizes

\* While the ender flushes, the owner is between two callbacks and nobody reads.
LEMMA FlushAlone ==
  ASSUME IInv, Ending
  PROVE  /\ registered /\ ~Reading /\ ~enabled /\ ~exiting /\ pc.owner \in {"idle", "entered"}
         /\ held.owner = NoBatch /\ cold.buf \in 1..Buffers /\ cold.buf \in live
  <1>1. registered /\ ~Reading /\ ~enabled /\ ~exiting /\ pc.owner \in {"idle", "entered"} /\ cold.buf # 0
    BY DEF IInv, Mutex
  <1>2. held.owner = NoBatch /\ cold.buf \in live
    BY <1>1 DEF IInv, Owned
  <1>3. cold.buf \in 0..Buffers
    BY Typed DEF IInv
  <1>4. QED
    BY <1>1, <1>2, <1>3, Sizes

\* While the thread exits, nobody else does anything.
LEMMA ExitAlone ==
  ASSUME IInv, exiting
  PROVE  ~registered /\ ~Reading /\ ~Ending /\ held.ender = NoBatch
  <1>1. ~registered /\ ~Reading /\ ~Ending
    BY DEF IInv, Mutex
  <1>2. QED
    BY <1>1 DEF IInv, Owned, Ending

\* What Hot says of the batch in Cold when nobody is about to arm.
LEMMA SettledBatch ==
  ASSUME IInv, Settled, cold.buf # 0
  PROVE  /\ hot.queue = cold.producer /\ hot.base = cold.base /\ armedFor = cold.producer
         /\ cold.buf \in 1..Buffers /\ Start(cold.buf) \in Nat /\ End(cold.buf) \in Nat /\ Start(cold.buf) > 0
         /\ End(cold.buf) = Start(cold.buf) + BatchN
         /\ hot.end = End(cold.buf) /\ hot.cursor \in Start(cold.buf)..End(cold.buf) /\ hot.end # 0
         /\ HotRange = Start(cold.buf)..(hot.cursor - 1) /\ Even
  <1>1. cold.buf \in 1..Buffers
    <2>1. cold.buf \in 0..Buffers
      BY Typed DEF IInv
    <2>2. QED
      BY <2>1, Sizes
  <1>2. /\ hot.queue = cold.producer /\ hot.base = cold.base
        /\ hot.end = End(cold.buf) /\ hot.cursor \in Start(cold.buf)..End(cold.buf)
    BY DEF IInv, Armed, InBuffer
  <1>3. armedFor = cold.producer
    BY DEF IInv, Armed, Settled
  <1>4. Start(cold.buf) \in Nat /\ End(cold.buf) \in Nat /\ Start(cold.buf) > 0 /\ End(cold.buf) = Start(cold.buf) + BatchN
    BY <1>1, BufferFacts
  <1>5. hot.end # 0
    BY <1>2, <1>4, Sizes
  <1>6. HotRange = Start(cold.buf)..(hot.cursor - 1)
    BY <1>2, <1>4, Sizes DEF HotRange
  <1>7. Even
    BY DEF IInv, Armed, Settled, Renewing
  <1>8. QED
    BY <1>1, <1>2, <1>3, <1>4, <1>5, <1>6, <1>7

\* A step that leaves Hot and the slots alone, and is not the start of a renewal.
LEMMA QuietGentle ==
  ASSUME IInv, UNCHANGED <<hot, cold, live, mem, reader, run, gone, armedFor>>,
         ticks' \in Nat, ticks <= ticks', \A i \in 1..ticks : ofRun'[i] = ofRun[i],
         pc'.owner \in Renewing => pc.owner \in Renewing
  PROVE  Gentle
  <1>1. hot.epoch \in Nat /\ hot.cursor \in Nat
    BY Typed DEF IInv
  <1>2. QED
    BY <1>1 DEF Gentle

LEMMA NothingHeld ==
  ASSUME NEW p, held[p] = NoBatch
  PROVE  Start(held[p].buf)..(Start(held[p].buf) + held[p].len - 1) = {}
  BY NoBuffer DEF NoBatch

---------------------------------------------------------------------------
(* The push.                                                                *)

LEMMA EnterCallbackKeeps == ASSUME IInv, EnterCallback PROVE IInv'
  <1>1. /\ pc.owner = "idle" /\ enabled /\ ticks < MaxTicks /\ ~Ending /\ ~exiting
        /\ ticks' = ticks + 1 /\ ofRun' = [ofRun EXCEPT ![ticks + 1] = run]
        /\ call' = [call EXCEPT !.run = run, !.tick = ticks + 1]
        /\ UNCHANGED <<hot, cold, live, mem, registered, exiting, arming, held, reader, run, enabled, gone, armedFor>>
    BY DEF EnterCallback, MayPush, IInv, Mutex
  <1>2. pc'.owner = "entered" /\ pc'.ender = pc.ender /\ pc' \in [owner : OwnerPlaces, ender : EnderPlaces]
    BY OwnerGoes DEF EnterCallback, OwnerPlaces
  <1>3. /\ ticks \in Nat /\ ticks + 1 \in 1..MaxTicks /\ run \in 1..Runs /\ ofRun \in [1..MaxTicks -> 0..Runs]
        /\ call.run \in Nat /\ cold.producer \in Nat
    <2>1. ticks \in 0..MaxTicks /\ run \in 1..Runs /\ ofRun \in [1..MaxTicks -> 0..Runs]
      BY DEF IInv, TypeOK
    <2>2. call.run \in Nat /\ cold.producer \in Nat
      BY Typed DEF IInv
    <2>3. QED
      BY <2>1, <2>2, <1>1, Sizes
  <1>4. ofRun'[ticks + 1] = run /\ (\A i \in 1..ticks : ofRun'[i] = ofRun[i]) /\ ofRun' \in [1..MaxTicks -> 0..Runs]
    BY <1>1, <1>3, Sizes
  <1>5. call'.run = run /\ call'.tick = ticks' /\ call'.at = call.at /\ call'.delta = call.delta
        /\ call' \in [run : 0..Runs, tick : 0..MaxTicks, at : Address, delta : -MaxTicks..MaxTicks]
    <2>1. call \in [run : 0..Runs, tick : 0..MaxTicks, at : Address, delta : -MaxTicks..MaxTicks]
      BY DEF IInv, TypeOK
    <2>2. run \in 0..Runs /\ ticks + 1 \in 0..MaxTicks
      BY <1>3, Sizes
    <2>3. QED
      BY <2>1, <2>2, <1>1
  <1>6. TypeOK'
    <2>1. ticks' \in 0..MaxTicks
      BY <1>1, <1>3, Sizes
    <2>2. TypeOK
      BY DEF IInv
    <2>3. QED
      BY <2>1, <2>2, <1>1, <1>2, <1>4, <1>5 DEF TypeOK, OwnerPlaces, EnderPlaces
  <1>7. Mutex'
    BY <1>1, <1>2 DEF IInv, Mutex, Ending, Reading
  <1>8. Called'
    <2>1. call'.run <= run' /\ cold'.producer <= call'.run
      BY <1>1, <1>3, <1>5 DEF IInv, Called
    <2>2. QED
      BY <2>1, <1>1, <1>2, <1>3, <1>4, <1>5 DEF Called
  <1>9. Armed'
    BY <1>1, <1>2 DEF IInv, Armed, Settled, Renewing, Even, InBuffer, Actors
  <1>10. 1..ticks \subseteq 1..ticks'
    BY <1>1, <1>3
  <1>11. Owned'
    BY <1>1, <1>2, <1>4, <1>10 DEF IInv, Owned
  <1>12. Contents'
    <2>1. HotRange' = HotRange /\ (\A a : TickAt(a)' = TickAt(a)) /\ (Even' <=> Even)
      BY <1>1 DEF HotRange, TickAt, Even
    <2>2. Top' = Top
      BY <1>1, <1>2, <1>3 DEF Top, InCallback
    <2>3. QED
      BY <1>1, <1>2, <1>4, <1>10, <2>1, <2>2 DEF IInv, Contents
  <1>13. Gentle
    BY <1>1, <1>2, <1>3, <1>4, QuietGentle DEF Renewing
  <1>14. QED
    BY <1>1, <1>6, <1>7, <1>8, <1>9, <1>11, <1>12, <1>13, GentleKeeps DEF IInv

\* The word the deltas are stored in.
LEMMA DeltaFits ==
  ASSUME NEW tick \in 0..MaxTicks, NEW base \in 0..MaxTicks
  PROVE  tick - base \in -MaxTicks..MaxTicks
  BY Sizes

LEMMA LookKeeps == ASSUME IInv, Look PROVE IInv'
  <1>1. /\ pc.owner = "entered" /\ ~Ending /\ ~exiting
        /\ UNCHANGED <<hot, cold, live, mem, registered, exiting, arming, held, reader, run, enabled,
                       ticks, gone, ofRun, armedFor>>
    BY DEF Look, MayPush, IInv, Mutex
  <1>2. PICK to \in {"fast", "slow"} :
          /\ Goto("owner", to)
          /\ to = "fast" => /\ hot.cursor < hot.end /\ hot.queue = call.run
                            /\ call' = [call EXCEPT !.at = hot.cursor, !.delta = call.tick - hot.base]
          /\ to = "slow" => call' = call
    BY DEF Look
  <1>3. pc'.owner = to /\ pc'.ender = pc.ender /\ pc' \in [owner : OwnerPlaces, ender : EnderPlaces]
    BY <1>2, OwnerGoes DEF OwnerPlaces
  <1>4. /\ call' \in [run : 0..Runs, tick : 0..MaxTicks, at : Address, delta : -MaxTicks..MaxTicks]
        /\ call'.run = call.run /\ call'.tick = call.tick
        /\ to = "fast" => call'.at = hot.cursor /\ call'.delta = call.tick - hot.base
    <2>1. call \in [run : 0..Runs, tick : 0..MaxTicks, at : Address, delta : -MaxTicks..MaxTicks]
      BY DEF IInv, TypeOK
    <2>2. call.tick \in 0..MaxTicks
      BY <2>1
    <2>3. hot \in [cursor : Address, end : Address, base : 0..MaxTicks, queue : 0..Runs, epoch : Nat]
      BY DEF IInv, TypeOK
    <2>4. hot.cursor \in Address /\ call.tick - hot.base \in -MaxTicks..MaxTicks
      BY <2>2, <2>3, DeltaFits
    <2>5. QED
      BY <1>2, <2>1, <2>4
  <1>5. TypeOK'
    <2>1. TypeOK
      BY DEF IInv
    <2>2. QED
      BY <2>1, <1>1, <1>3, <1>4 DEF TypeOK, OwnerPlaces, EnderPlaces
  <1>6. Mutex'
    BY <1>1, <1>2, <1>3 DEF IInv, Mutex, Ending, Reading
  <1>7. Called'
    BY <1>1, <1>2, <1>3, <1>4 DEF IInv, Called, InCallback
  <1>8. Armed'
    BY <1>1, <1>2, <1>3 DEF IInv, Armed, Settled, Renewing, Even, InBuffer, Actors
  <1>9. Owned'
    BY <1>1, <1>2, <1>3 DEF IInv, Owned
  <1>10. Contents'
    <2>1. HotRange' = HotRange /\ (\A a : TickAt(a)' = TickAt(a)) /\ (Even' <=> Even)
      BY <1>1 DEF HotRange, TickAt, Even
    <2>2. Top' = Top
      BY <1>1, <1>2, <1>3 DEF Top, InCallback
    <2>3. QED
      BY <1>1, <1>2, <1>3, <2>1, <2>2 DEF IInv, Contents
  <1>11. Gentle
    <2>1. ticks \in Nat
      BY Typed DEF IInv
    <2>2. QED
      BY <2>1, <1>1, <1>2, <1>3, QuietGentle DEF Renewing
  <1>12. QED
    BY <1>1, <1>5, <1>6, <1>7, <1>8, <1>9, <1>10, <1>11, GentleKeeps DEF IInv

LEMMA WriteSlotKeeps == ASSUME IInv, WriteSlot PROVE IInv'
  <1>1. /\ pc.owner = "fast" /\ ~exiting
        /\ mem' = [mem EXCEPT ![call.at] = [delta |-> call.delta, code |-> call.tick]]
        /\ UNCHANGED <<hot, cold, live, registered, exiting, arming, held, call, reader, run, enabled,
                       ticks, gone, ofRun, armedFor>>
    BY DEF WriteSlot, IInv, Mutex
  <1>2. pc'.owner = "written" /\ pc'.ender = pc.ender /\ pc' \in [owner : OwnerPlaces, ender : EnderPlaces]
    BY OwnerGoes DEF WriteSlot, OwnerPlaces
  <1>3. /\ ~Ending /\ held.ender = NoBatch /\ held.owner = NoBatch
        /\ call.tick = ticks /\ ticks \in 1..MaxTicks /\ call.run \in 1..Runs
    BY <1>1, PushAlone DEF InCallback
  <1>4. call.at = hot.cursor /\ call.at < hot.end /\ hot.queue = call.run /\ call.delta = ticks - hot.base
    BY <1>1 DEF IInv, Called
  <1>5. Settled /\ cold.buf # 0
    <2>1. Settled
      BY <1>1, <1>3 DEF Settled, Renewing, Ending
    <2>2. hot.queue # 0
      BY <1>3, <1>4, Sizes
    <2>3. QED
      BY <2>1, <2>2 DEF IInv, Armed
  <1>6. hot.cursor \in Slots /\ hot.cursor \notin HotRange
    <2>1. /\ Start(cold.buf) \in Nat /\ End(cold.buf) \in Nat /\ hot.end = End(cold.buf)
          /\ hot.cursor \in Start(cold.buf)..End(cold.buf) /\ cold.buf \in 1..Buffers
          /\ HotRange = Start(cold.buf)..(hot.cursor - 1)
      BY <1>5, SettledBatch
    <2>2. hot.cursor \in Start(cold.buf)..(End(cold.buf) - 1)
      BY <1>4, <2>1
    <2>3. QED
      BY <2>1, <2>2, BufferFacts
  <1>7. /\ mem'[hot.cursor] = [delta |-> ticks - hot.base, code |-> ticks]
        /\ \A a : a # hot.cursor => mem'[a] = mem[a]
    <2>1. mem \in [Slots -> Events]
      BY DEF IInv, TypeOK
    <2>2. QED
      BY <2>1, <1>1, <1>3, <1>4, <1>6
  <1>8. TypeOK'
    <2>1. [delta |-> call.delta, code |-> call.tick] \in Events
      <3>1. call \in [run : 0..Runs, tick : 0..MaxTicks, at : Address, delta : -MaxTicks..MaxTicks]
        BY DEF IInv, TypeOK
      <3>2. QED
        BY <3>1 DEF Events
    <2>2. mem' \in [Slots -> Events]
      BY <2>1, <1>1 DEF IInv, TypeOK
    <2>3. TypeOK
      BY DEF IInv
    <2>4. QED
      BY <2>2, <2>3, <1>1, <1>2 DEF TypeOK, OwnerPlaces, EnderPlaces
  <1>9. Mutex'
    BY <1>1, <1>2 DEF IInv, Mutex, Ending, Reading
  <1>10. Called'
    BY <1>1, <1>2, <1>4, <1>7 DEF IInv, Called, InCallback
  <1>11. Armed'
    BY <1>1, <1>2 DEF IInv, Armed, Settled, Renewing, Even, InBuffer, Actors
  <1>12. Owned'
    BY <1>1, <1>2 DEF IInv, Owned
  <1>13. HotRange' = HotRange /\ (\A a \in HotRange : mem'[a] = mem[a])
    BY <1>1, <1>6, <1>7 DEF HotRange
  <1>14. Contents'
    <2>1. (\A a \in HotRange : TickAt(a)' = TickAt(a)) /\ (Even' <=> Even) /\ Top' = Top
      BY <1>1, <1>2, <1>13 DEF TickAt, Even, Top, InCallback
    <2>2. \A p \in Actors : Start(held[p].buf)..(Start(held[p].buf) + held[p].len - 1) = {}
      BY <1>3, NothingHeld DEF Actors
    <2>3. QED
      BY <1>1, <1>2, <1>13, <2>1, <2>2 DEF IInv, Contents
  <1>15. Gentle
    <2>1. hot.epoch \in Nat /\ hot.cursor \in Nat /\ ticks \in Nat
      BY Typed DEF IInv
    <2>2. QED
      BY <2>1, <1>1, <1>2, <1>13 DEF Gentle, Renewing
  <1>16. QED
    BY <1>1, <1>8, <1>9, <1>10, <1>11, <1>12, <1>14, <1>15, GentleKeeps DEF IInv

LEMMA StoreCursorKeeps == ASSUME IInv, StoreCursor PROVE IInv'
  <1>1. /\ pc.owner = "written" /\ ~exiting
        /\ hot' = [hot EXCEPT !.cursor = call.at + 1]
        /\ UNCHANGED <<cold, live, mem, registered, exiting, arming, held, call, reader, run, enabled,
                       ticks, gone, ofRun, armedFor>>
    BY DEF StoreCursor, IInv, Mutex
  <1>2. pc'.owner = "idle" /\ pc'.ender = pc.ender /\ pc' \in [owner : OwnerPlaces, ender : EnderPlaces]
    BY OwnerGoes DEF StoreCursor, OwnerPlaces
  <1>3. /\ ~Ending /\ held.ender = NoBatch /\ held.owner = NoBatch
        /\ ticks \in 1..MaxTicks /\ call.run \in 1..Runs /\ ofRun[ticks] = call.run
    BY <1>1, PushAlone DEF InCallback
  <1>4. /\ call.at = hot.cursor /\ call.at < hot.end /\ hot.queue = call.run
        /\ mem[hot.cursor] = [delta |-> ticks - hot.base, code |-> ticks]
    BY <1>1 DEF IInv, Called
  <1>5. Settled /\ cold.buf # 0
    <2>1. Settled
      BY <1>1, <1>3 DEF Settled, Renewing, Ending
    <2>2. hot.queue # 0
      BY <1>3, <1>4, Sizes
    <2>3. QED
      BY <2>1, <2>2 DEF IInv, Armed
  <1>6. /\ Start(cold.buf) \in Nat /\ End(cold.buf) \in Nat /\ hot.end = End(cold.buf) /\ cold.buf \in 1..Buffers
        /\ hot.cursor \in Start(cold.buf)..End(cold.buf) /\ End(cold.buf) = Start(cold.buf) + BatchN
        /\ HotRange = Start(cold.buf)..(hot.cursor - 1) /\ armedFor = cold.producer /\ cold.producer = call.run
        /\ hot.base = cold.base /\ Even /\ hot.end # 0
    BY <1>4, <1>5, SettledBatch
  <1>7. /\ hot'.cursor = hot.cursor + 1 /\ hot'.end = hot.end /\ hot'.base = hot.base /\ hot'.queue = hot.queue
        /\ hot'.epoch = hot.epoch
        /\ hot' \in [cursor : Address, end : Address, base : 0..MaxTicks, queue : 0..Runs, epoch : Nat]
    <2>1. hot \in [cursor : Address, end : Address, base : 0..MaxTicks, queue : 0..Runs, epoch : Nat]
      BY DEF IInv, TypeOK
    <2>2. hot.cursor + 1 \in Address
      <3>1. End(cold.buf) <= End(Buffers) /\ End(Buffers) \in Nat
        BY <1>6, BufferFacts, Sizes
      <3>2. QED
        BY <3>1, <1>4, <1>6 DEF Address
    <2>3. QED
      BY <2>1, <2>2, <1>1, <1>4
  <1>8. hot'.cursor \in Start(cold.buf)..End(cold.buf)
    BY <1>4, <1>6, <1>7
  <1>9. TypeOK'
    <2>1. TypeOK
      BY DEF IInv
    <2>2. QED
      BY <2>1, <1>1, <1>2, <1>7 DEF TypeOK, OwnerPlaces, EnderPlaces
  <1>10. Mutex'
    BY <1>1, <1>2 DEF IInv, Mutex, Ending, Reading
  <1>11. Called'
    BY <1>1, <1>2 DEF IInv, Called, InCallback
  <1>12. Armed'
    BY <1>1, <1>2, <1>5, <1>6, <1>7, <1>8 DEF IInv, Armed, Settled, Renewing, Even, InBuffer, Actors
  <1>13. Owned'
    BY <1>1, <1>2, <1>7 DEF IInv, Owned
  <1>14. Contents'
    <2>1. HotRange' = HotRange \cup {hot.cursor}
      <3>1. hot'.end - BatchN = Start(cold.buf)
        BY <1>6, <1>7, Sizes
      <3>2. HotRange' = Start(cold.buf)..hot.cursor
        BY <3>1, <1>6, <1>7, Sizes DEF HotRange
      <3>3. QED
        BY <3>2, <1>6
    <2>2. (\A a : TickAt(a)' = TickAt(a)) /\ (Even' <=> Even)
      BY <1>1, <1>7 DEF TickAt, Even
    <2>3. Top = ticks - 1 /\ Top' = ticks
      BY <1>1, <1>2 DEF Top, InCallback
    <2>4. hot.base \in Int /\ hot.cursor \in Int /\ ticks \in Int
      BY <1>3, <1>6, Typed, SMTT(30) DEF IInv
    <2>5. TickAt(hot.cursor) = ticks /\ mem[hot.cursor].code = ticks
      BY <1>4, <2>4 DEF TickAt
    <2>6. \A a \in HotRange :
             /\ TickAt(a) \in 1..ticks /\ ofRun[TickAt(a)] = armedFor /\ TickAt(a) = mem[a].code
             /\ mem[a].code = Top + 1 - (hot.cursor - a)
      <3>1. armedFor # 0
        BY <1>3, <1>6
      <3>2. QED
        BY <3>1, <1>1, <1>6 DEF IInv, Contents
    <2>7. \A a \in HotRange : mem[a].code = Top' + 1 - (hot'.cursor - a)
      <3>1. \A a \in HotRange : a \in Int
        BY <1>6
      <3>2. QED
        BY <3>1, <2>3, <2>4, <2>6, <1>7
    <2>8. mem[hot.cursor].code = Top' + 1 - (hot'.cursor - hot.cursor)
      BY <2>3, <2>4, <2>5, <1>7
    <2>9. ASSUME NEW a \in HotRange'
          PROVE  /\ TickAt(a) \in 1..ticks /\ ofRun[TickAt(a)] = armedFor
                 /\ TickAt(a) = mem[a].code /\ mem[a].code = Top' + 1 - (hot'.cursor - a)
      <3>1. CASE a \in HotRange
        BY <3>1, <2>6, <2>7
      <3>2. CASE a = hot.cursor
        BY <3>2, <2>5, <2>8, <1>3, <1>6
      <3>3. QED
        BY <3>1, <3>2, <2>1
    <2>10. hot'.base \in 1..ticks' /\ ofRun'[hot'.base] = armedFor'
      <3>1. armedFor # 0
        BY <1>3, <1>6
      <3>2. QED
        BY <3>1, <1>1, <1>6, <1>7 DEF IInv, Contents
    <2>11. QED
      BY <1>1, <1>2, <2>2, <2>9, <2>10 DEF IInv, Contents
  <1>15. Gentle
    <2>1. hot.epoch \in Nat /\ hot.cursor \in Nat /\ ticks \in Nat
      BY Typed DEF IInv
    <2>2. QED
      BY <2>1, <1>1, <1>2, <1>7 DEF Gentle, Renewing
  <1>16. QED
    BY <1>1, <1>9, <1>10, <1>11, <1>12, <1>13, <1>14, <1>15, GentleKeeps DEF IInv

---------------------------------------------------------------------------
(* The slow path.                                                           *)

LEMMA InitProducerKeeps == ASSUME IInv, InitProducer PROVE IInv'
  <1>1. PICK b \in 1..Buffers \ live :
          /\ live' = (live \ {cold.buf}) \cup {b}
          /\ cold' = [producer |-> call.run, buf |-> b, base |-> call.tick]
    BY DEF InitProducer
  <1>2. /\ pc.owner = "slow" /\ ~exiting /\ cold.producer # call.run
        /\ UNCHANGED <<hot, mem, registered, exiting, arming, held, call, reader, run, enabled,
                       ticks, gone, ofRun, armedFor>>
    BY DEF InitProducer, IInv, Mutex
  <1>3. pc'.owner = "register" /\ pc'.ender = pc.ender /\ pc' \in [owner : OwnerPlaces, ender : EnderPlaces]
    BY OwnerGoes DEF InitProducer, OwnerPlaces
  <1>4. /\ ~Ending /\ held.ender = NoBatch /\ held.owner = NoBatch
        /\ call.tick = ticks /\ ticks \in 1..MaxTicks /\ call.run \in 1..Runs /\ ofRun[ticks] = call.run
        /\ cold.producer <= call.run /\ call.run <= run
    BY <1>2, PushAlone DEF InCallback
  <1>5. cold.producer \in Nat /\ armedFor \in Nat /\ run \in Nat /\ ticks \in Nat /\ hot.epoch \in Nat /\ hot.cursor \in Nat
    BY Typed DEF IInv
  <1>6. Settled /\ pc.ender \notin {"renew", "arm"}
    BY <1>2, <1>4 DEF Settled, Renewing, Ending
  <1>7. hot.queue = cold.producer /\ armedFor = cold.producer /\ cold.producer < call.run
    BY <1>2, <1>4, <1>5, <1>6 DEF IInv, Armed, Settled
  <1>8. cold'.producer = call.run /\ cold'.buf = b /\ cold'.base = ticks /\ b # 0
    BY <1>1, <1>4
  <1>9. TypeOK'
    <2>1. /\ cold' \in [producer : 0..Runs, buf : 0..Buffers, base : 0..MaxTicks]
          /\ live' \in SUBSET (1..Buffers)
      <3>1. call.run \in 0..Runs /\ b \in 0..Buffers /\ call.tick \in 0..MaxTicks
        BY <1>4, Sizes
      <3>2. live \in SUBSET (1..Buffers)
        BY DEF IInv, TypeOK
      <3>3. QED
        BY <3>1, <3>2, <1>1
    <2>2. TypeOK
      BY DEF IInv
    <2>3. QED
      BY <2>1, <2>2, <1>2, <1>3 DEF TypeOK, OwnerPlaces, EnderPlaces
  <1>10. Mutex'
    BY <1>2, <1>3, <1>8 DEF IInv, Mutex, Ending, Reading
  <1>11. Called'
    BY <1>2, <1>3, <1>4, <1>8 DEF IInv, Called, InCallback
  <1>12. Armed'
    <2>1. ~Settled'
      BY <1>3 DEF Settled, Renewing
    <2>2. call.run # 0
      BY <1>4
    <2>3. hot'.queue = armedFor' /\ armedFor' < cold'.producer /\ armedFor' <= cold'.producer
      BY <1>2, <1>4, <1>5, <1>7, <1>8
    <2>4. \A p \in Actors : pc'[p] \notin {"renew", "arm"}
      BY <1>3, <1>6 DEF Actors
    <2>5. Even' <=> Even
      BY <1>2 DEF Even
    <2>6. Even <=> pc'.owner # "arm" /\ pc'.ender # "arm"
      BY <1>2, <1>3 DEF IInv, Armed
    <2>7. /\ Even => (hot.end = 0 /\ hot.cursor = 0) \/ \E c \in 1..Buffers : InBuffer(c)
          /\ hot.end = 0 \/ \E c \in 1..Buffers : hot.end = End(c)
      BY DEF IInv, Armed
    <2>8. \A c : InBuffer(c)' <=> InBuffer(c)
      BY <1>2 DEF InBuffer
    <2>9. QED
      BY <2>1, <2>2, <2>3, <2>4, <2>5, <2>6, <2>7, <2>8, <1>2, <1>3, <1>8 DEF Armed, Renewing
  <1>13. Owned'
    \* The batch that Hot describes is the one that is dropped.
    <2>1. hot.end # 0 => \A c \in live' : hot.end # End(c)
      <3>1. SUFFICES ASSUME hot.end # 0, NEW c \in live', hot.end = End(c) PROVE FALSE
        OBVIOUS
      <3>2. live \in SUBSET (1..Buffers)
        BY DEF IInv, TypeOK
      <3>3. cold.buf # 0
        BY <3>1, <1>6 DEF IInv, Armed
      <3>4. hot.end = End(cold.buf) /\ cold.buf \in 1..Buffers
        BY <3>3, <1>6, SettledBatch
      <3>5. c \in 1..Buffers /\ c # cold.buf
        <4>1. cold.buf \in live
          BY <3>3, <1>2 DEF IInv, Owned
        <4>2. QED
          BY <4>1, <3>2, <1>1
      <3>6. QED
        BY <3>1, <3>4, <3>5, EndsDiffer
    <2>2. QED
      BY <2>1, <1>1, <1>2, <1>3, <1>4, <1>5, <1>7, <1>8 DEF Owned, Actors
  <1>14. Contents'
    <2>1. HotRange' = HotRange /\ (\A a : TickAt(a)' = TickAt(a)) /\ (Even' <=> Even)
      BY <1>2 DEF HotRange, TickAt, Even
    <2>2. armedFor' # cold'.producer
      BY <1>2, <1>5, <1>7, <1>8
    <2>3. QED
      BY <1>2, <1>3, <2>1, <2>2 DEF IInv, Contents
  <1>15. Gentle
    <2>1. armedFor # run
      BY <1>4, <1>5, <1>7
    <2>2. QED
      BY <2>1, <1>2, <1>3, <1>5 DEF Gentle
  <1>16. QED
    BY <1>2, <1>9, <1>10, <1>11, <1>12, <1>13, <1>14, <1>15, GentleKeeps DEF IInv

LEMMA RegisterCurrentKeeps == ASSUME IInv, RegisterCurrent PROVE IInv'
  <1>1. /\ pc.owner = "register" /\ ~exiting /\ ~Reading /\ ~Ending /\ registered' = TRUE
        /\ UNCHANGED <<hot, cold, live, mem, exiting, arming, held, call, reader, run, enabled,
                       ticks, gone, ofRun, armedFor>>
    BY DEF RegisterCurrent, RecordersFree, Reading, IInv, Mutex
  <1>2. pc'.owner = "init" /\ pc'.ender = pc.ender /\ pc' \in [owner : OwnerPlaces, ender : EnderPlaces]
    BY OwnerGoes DEF RegisterCurrent, OwnerPlaces
  <1>3. cold.buf # 0
    <2>1. cold.producer = call.run /\ call.run > 0 /\ call.run \in Nat
      BY <1>1, Typed DEF IInv, Called, InCallback
    <2>2. QED
      BY <2>1 DEF IInv, Armed
  <1>4. TypeOK'
    <2>1. TypeOK
      BY DEF IInv
    <2>2. QED
      BY <2>1, <1>1, <1>2 DEF TypeOK, OwnerPlaces, EnderPlaces
  <1>5. Mutex'
    BY <1>1, <1>2, <1>3 DEF IInv, Mutex, Ending, Reading
  <1>6. Called'
    BY <1>1, <1>2 DEF IInv, Called, InCallback
  <1>7. Armed'
    BY <1>1, <1>2 DEF IInv, Armed, Settled, Renewing, Even, InBuffer, Actors
  <1>8. Owned'
    BY <1>1, <1>2 DEF IInv, Owned
  <1>9. Contents'
    BY <1>1, <1>2 DEF IInv, Contents, Even, HotRange, TickAt, Top, InCallback
  <1>10. View' /\ Had' /\ TailIsCoherent' /\ NothingIsHidden'
    BY <1>1, NobodyReads DEF IInv
  <1>11. QED
    BY <1>4, <1>5, <1>6, <1>7, <1>8, <1>9, <1>10 DEF IInv

LEMMA StoreQueueIdKeeps == ASSUME IInv, StoreQueueId PROVE IInv'
  <1>1. /\ pc.owner = "init" /\ ~exiting /\ hot' = [hot EXCEPT !.queue = call.run]
        /\ UNCHANGED <<cold, live, mem, registered, exiting, arming, held, call, reader, run, enabled,
                       ticks, gone, ofRun, armedFor>>
    BY DEF StoreQueueId, IInv, Mutex
  <1>2. pc'.owner = "renew" /\ pc'.ender = pc.ender /\ pc' \in [owner : OwnerPlaces, ender : EnderPlaces]
    BY OwnerGoes DEF StoreQueueId, OwnerPlaces
  <1>3. ~Ending /\ call.run \in 1..Runs
    BY <1>1, PushAlone DEF InCallback
  <1>4. /\ hot'.cursor = hot.cursor /\ hot'.end = hot.end /\ hot'.base = hot.base /\ hot'.queue = call.run
        /\ hot'.epoch = hot.epoch
        /\ hot' \in [cursor : Address, end : Address, base : 0..MaxTicks, queue : 0..Runs, epoch : Nat]
    <2>1. hot \in [cursor : Address, end : Address, base : 0..MaxTicks, queue : 0..Runs, epoch : Nat]
      BY DEF IInv, TypeOK
    <2>2. call.run \in 0..Runs
      BY <1>3
    <2>3. QED
      BY <2>1, <2>2, <1>1
  <1>5. /\ cold.producer = call.run /\ cold.buf # 0 /\ pc.ender \notin {"renew", "arm"}
        /\ armedFor # cold.producer
    <2>1. cold.producer = call.run
      BY <1>1 DEF IInv, Called
    <2>2. armedFor < cold.producer /\ armedFor \in Nat /\ cold.producer \in Nat
      BY <1>1, Typed DEF IInv, Armed
    <2>3. QED
      BY <2>1, <2>2, <1>3 DEF IInv, Armed, Ending
  <1>6. TypeOK'
    <2>1. TypeOK
      BY DEF IInv
    <2>2. QED
      BY <2>1, <1>1, <1>2, <1>4 DEF TypeOK, OwnerPlaces, EnderPlaces
  <1>7. Mutex'
    BY <1>1, <1>2 DEF IInv, Mutex, Ending, Reading
  <1>8. Called'
    BY <1>1, <1>2 DEF IInv, Called, InCallback
  <1>9. Armed'
    BY <1>1, <1>2, <1>4, <1>5 DEF IInv, Armed, Settled, Renewing, Even, InBuffer, Actors
  <1>10. Owned'
    BY <1>1, <1>2, <1>4 DEF IInv, Owned
  <1>11. Contents'
    BY <1>1, <1>2, <1>4, <1>5 DEF IInv, Contents, Even, HotRange, TickAt, Top, InCallback
  <1>12. Gentle
    <2>1. hot.epoch \in Nat /\ hot.cursor \in Nat /\ ticks \in Nat
      BY Typed DEF IInv
    <2>2. QED
      BY <2>1, <1>1, <1>4 DEF Gentle, Renewing
  <1>13. QED
    BY <1>1, <1>6, <1>7, <1>8, <1>9, <1>10, <1>11, <1>12, GentleKeeps DEF IInv

LEMMA CommitAndTakeKeeps == ASSUME IInv, CommitAndTake PROVE IInv'
  <1>1. /\ pc.owner = "slow" /\ ~exiting /\ cold.producer = call.run
        /\ held' = [held EXCEPT !.owner = [buf |-> cold.buf, base |-> cold.base, len |-> hot.cursor - Start(cold.buf)]]
        /\ UNCHANGED <<hot, cold, live, mem, registered, exiting, arming, call, reader, run, enabled,
                       ticks, gone, ofRun, armedFor>>
    BY DEF CommitAndTake, IInv, Mutex
  <1>2. pc'.owner = "ship" /\ pc'.ender = pc.ender /\ pc' \in [owner : OwnerPlaces, ender : EnderPlaces]
    BY OwnerGoes DEF CommitAndTake, OwnerPlaces
  <1>3. ~Ending /\ held.ender = NoBatch /\ call.run \in 1..Runs
    BY <1>1, PushAlone DEF InCallback
  <1>4. Settled /\ cold.buf # 0 /\ cold.buf \in live
    <2>1. Settled
      BY <1>1, <1>3 DEF Settled, Renewing, Ending
    <2>2. cold.producer # 0
      BY <1>1, <1>3
    <2>3. QED
      BY <2>1, <2>2, <1>1 DEF IInv, Armed, Owned
  <1>5. /\ Start(cold.buf) \in Nat /\ hot.end = End(cold.buf) /\ cold.buf \in 1..Buffers
        /\ hot.cursor \in Start(cold.buf)..End(cold.buf) /\ End(cold.buf) = Start(cold.buf) + BatchN
        /\ HotRange = Start(cold.buf)..(hot.cursor - 1) /\ hot.base = cold.base /\ Even /\ hot.end # 0
    BY <1>4, SettledBatch
  <1> DEFINE taken == [buf |-> cold.buf, base |-> cold.base, len |-> hot.cursor - Start(cold.buf)]
  <1>6. /\ held'["owner"] = taken /\ held'["ender"] = NoBatch
        /\ held' \in [Actors -> [buf : 0..Buffers, base : 0..MaxTicks, len : 0..BatchN]]
    <2>1. held \in [Actors -> [buf : 0..Buffers, base : 0..MaxTicks, len : 0..BatchN]]
      BY DEF IInv, TypeOK
    <2>2. cold \in [producer : 0..Runs, buf : 0..Buffers, base : 0..MaxTicks]
      BY DEF IInv, TypeOK
    <2>3. hot.cursor - Start(cold.buf) \in 0..BatchN
      BY <1>5, Sizes
    <2>4. QED
      BY <2>1, <2>2, <2>3, <1>1, <1>3 DEF Actors
  <1>7. TypeOK'
    <2>1. TypeOK
      BY DEF IInv
    <2>2. QED
      BY <2>1, <1>1, <1>2, <1>6 DEF TypeOK, OwnerPlaces, EnderPlaces
  <1>8. Mutex'
    BY <1>1, <1>2 DEF IInv, Mutex, Ending, Reading
  <1>9. Called'
    BY <1>1, <1>2 DEF IInv, Called, InCallback
  <1>10. Armed'
    BY <1>1, <1>2 DEF IInv, Armed, Settled, Renewing, Even, InBuffer, Actors
  <1>11. Owned'
    <2>1. \A p \in Actors : held'[p] = NoBatch \/ held'[p].buf \in live'
      BY <1>1, <1>4, <1>6 DEF Actors
    <2>2. held'.owner = taken /\ held'.ender = NoBatch
      BY <1>6
    <2>3. QED
      BY <1>1, <1>2, <2>1, <2>2 DEF IInv, Owned
  <1>12. Contents'
    <2>1. HotRange' = HotRange /\ (\A a : TickAt(a)' = TickAt(a)) /\ (Even' <=> Even) /\ Top' = Top
      BY <1>1, <1>2 DEF HotRange, TickAt, Even, Top, InCallback
    <2>2. \A a \in HotRange : cold.base + mem[a].delta \in 1..ticks
      BY <1>1, <1>5 DEF IInv, Contents, TickAt
    <2>3. Start(taken.buf) + taken.len = hot.cursor
      BY <1>5
    <2>4. ASSUME NEW p \in Actors, NEW a \in Start(held'[p].buf)..(Start(held'[p].buf) + held'[p].len - 1)
          PROVE  held'[p].base + mem[a].delta \in 1..ticks
      <3>1. CASE p = "owner"
        <4>1. a \in HotRange
          BY <3>1, <1>5, <1>6, <2>3, <2>4
        <4>2. held'[p].base = cold.base
          BY <3>1, <1>6
        <4>3. QED
          BY <4>1, <4>2, <2>2
      <3>2. CASE p = "ender"
        <4>1. Start(held'[p].buf)..(Start(held'[p].buf) + held'[p].len - 1) = {}
          BY <3>2, <1>6, NoBuffer DEF NoBatch
        <4>2. QED
          BY <4>1, <2>4
      <3>3. QED
        BY <3>1, <3>2 DEF Actors
    <2>5. QED
      BY <1>1, <1>2, <2>1, <2>4 DEF IInv, Contents
  <1>13. Gentle
    <2>1. ticks \in Nat
      BY Typed DEF IInv
    <2>2. QED
      BY <2>1, <1>1, <1>2, QuietGentle DEF Renewing
  <1>14. QED
    BY <1>1, <1>7, <1>8, <1>9, <1>10, <1>11, <1>12, <1>13, GentleKeeps DEF IInv

\* What is pushed is ticks the thread has read.
LEMMA PushedTicks ==
  ASSUME IInv, NEW p \in Actors, Pushed(held[p])
  PROVE  gone' \in SUBSET (1..MaxTicks) /\ gone \subseteq gone'
  <1>1. TicksIn(held[p].buf, held[p].base, held[p].len) \subseteq 1..ticks
    BY DEF IInv, Contents, TicksIn
  <1>2. ticks \in Nat /\ ticks <= MaxTicks
    BY Typed DEF IInv
  <1>3. 1..ticks \subseteq 1..MaxTicks
    BY <1>2, Sizes
  <1>4. gone \in SUBSET (1..MaxTicks)
    BY DEF IInv, TypeOK
  <1>5. QED
    BY <1>1, <1>3, <1>4 DEF Pushed

LEMMA ShipKeeps == ASSUME IInv, Ship PROVE IInv'
  <1>1. PICK b \in (1..Buffers \ live) \cup {cold.buf} :
          live' = live \cup {b} /\ cold' = [cold EXCEPT !.buf = b, !.base = call.tick]
    BY DEF Ship
  <1>2. /\ pc.owner = "ship" /\ ~exiting /\ Pushed(held.owner) /\ held' = [held EXCEPT !.owner = NoBatch]
        /\ UNCHANGED <<hot, mem, registered, exiting, arming, call, reader, run, enabled, ticks, ofRun, armedFor>>
    BY DEF Ship, IInv, Mutex
  <1>3. pc'.owner = "renew" /\ pc'.ender = pc.ender /\ pc' \in [owner : OwnerPlaces, ender : EnderPlaces]
    BY OwnerGoes DEF Ship, OwnerPlaces
  <1>4. /\ ~Ending /\ held.ender = NoBatch /\ call.run \in 1..Runs
        /\ call.tick = ticks /\ ticks \in 1..MaxTicks /\ ofRun[ticks] = call.run
    BY <1>2, PushAlone DEF InCallback
  <1>5. /\ held.owner = [buf |-> cold.buf, base |-> cold.base, len |-> hot.cursor - Start(cold.buf)]
        /\ cold.producer = call.run
    BY <1>2 DEF IInv, Owned, Called
  <1>6. Settled /\ cold.buf # 0 /\ cold.buf \in live
    <2>1. Settled
      BY <1>2, <1>4 DEF Settled, Renewing, Ending
    <2>2. cold.producer # 0
      BY <1>4, <1>5
    <2>3. QED
      BY <2>1, <2>2, <1>2 DEF IInv, Armed, Owned
  <1>7. /\ Start(cold.buf) \in Nat /\ cold.buf \in 1..Buffers /\ hot.queue = cold.producer /\ armedFor = cold.producer
        /\ hot.cursor \in Start(cold.buf)..End(cold.buf) /\ End(cold.buf) = Start(cold.buf) + BatchN
        /\ HotRange = Start(cold.buf)..(hot.cursor - 1) /\ hot.base = cold.base
    BY <1>6, SettledBatch
  <1>8. \A a \in HotRange : TickAt(a) \in gone'
    <2>1. Start(cold.buf) + (hot.cursor - Start(cold.buf)) - 1 = hot.cursor - 1
      BY <1>7
    <2>2. TicksIn(held.owner.buf, held.owner.base, held.owner.len) = {TickAt(a) : a \in HotRange}
      BY <2>1, <1>5, <1>7 DEF TicksIn, TickAt
    <2>3. QED
      BY <2>2, <1>2 DEF Pushed
  <1>9. gone' \in SUBSET (1..MaxTicks) /\ gone \subseteq gone'
    BY <1>2, PushedTicks DEF Actors
  <1>10. cold'.producer = cold.producer /\ cold'.buf = b /\ cold'.base = ticks /\ b \in 1..Buffers /\ b # 0
         /\ cold' \in [producer : 0..Runs, buf : 0..Buffers, base : 0..MaxTicks]
    <2>1. cold \in [producer : 0..Runs, buf : 0..Buffers, base : 0..MaxTicks]
      BY DEF IInv, TypeOK
    <2>2. b \in 1..Buffers /\ b \in 0..Buffers /\ b # 0 /\ ticks \in 0..MaxTicks
      BY <1>1, <1>4, <1>7, Sizes
    <2>3. QED
      BY <2>1, <2>2, <1>1, <1>4
  <1>11. /\ held'["owner"] = NoBatch /\ held'["ender"] = NoBatch
         /\ held' \in [Actors -> [buf : 0..Buffers, base : 0..MaxTicks, len : 0..BatchN]]
    <2>1. held \in [Actors -> [buf : 0..Buffers, base : 0..MaxTicks, len : 0..BatchN]]
      BY DEF IInv, TypeOK
    <2>2. NoBatch \in [buf : 0..Buffers, base : 0..MaxTicks, len : 0..BatchN]
      BY Sizes DEF NoBatch
    <2>3. QED
      BY <2>1, <2>2, <1>2, <1>4 DEF Actors
  <1>12. TypeOK'
    <2>1. TypeOK
      BY DEF IInv
    <2>2. live' \in SUBSET (1..Buffers)
      BY <2>1, <1>1, <1>10 DEF TypeOK
    <2>3. QED
      BY <2>1, <2>2, <1>2, <1>3, <1>9, <1>10, <1>11 DEF TypeOK, OwnerPlaces, EnderPlaces
  <1>13. Mutex'
    BY <1>2, <1>3, <1>10 DEF IInv, Mutex, Ending, Reading
  <1>14. Called'
    BY <1>2, <1>3, <1>10 DEF IInv, Called, InCallback
  <1>15. Armed'
    <2>1. pc.ender \notin {"renew", "arm"} /\ cold.producer # 0
      BY <1>4, <1>5 DEF Ending
    <2>2. QED
      BY <2>1, <1>2, <1>3, <1>7, <1>10 DEF IInv, Armed, Settled, Renewing, Even, InBuffer, Actors
  <1>16. Owned'
    <2>1. held'.owner = NoBatch /\ held'.ender = NoBatch /\ live \subseteq live' /\ b \in live'
      BY <1>1, <1>11
    <2>2. \A p \in Actors : held'[p] = NoBatch
      BY <1>11 DEF Actors
    <2>3. cold'.base \in 1..ticks /\ ofRun[cold'.base] = cold'.producer
      BY <1>4, <1>5, <1>10
    <2>4. hot.end # 0 /\ armedFor = cold.producer /\ pc.owner # "exited" => \E c \in live : hot.end = End(c)
      BY DEF IInv, Owned
    <2>5. QED
      BY <1>2, <1>3, <1>10, <2>1, <2>2, <2>3, <2>4 DEF Owned
  <1>17. Contents'
    <2>1. HotRange' = HotRange /\ (\A a : TickAt(a)' = TickAt(a)) /\ (Even' <=> Even) /\ Top' = Top
      BY <1>2, <1>3 DEF HotRange, TickAt, Even, Top, InCallback
    <2>2. \A p \in Actors : Start(held'[p].buf)..(Start(held'[p].buf) + held'[p].len - 1) = {}
      BY <1>11, NoBuffer DEF Actors, NoBatch
    <2>3. QED
      BY <1>2, <1>3, <1>8, <1>10, <2>1, <2>2 DEF IInv, Contents
  <1>18. Gentle
    <2>1. hot.epoch \in Nat /\ hot.cursor \in Nat /\ ticks \in Nat
      BY Typed DEF IInv
    <2>2. QED
      BY <2>1, <1>1, <1>2, <1>8, <1>9, <1>10 DEF Gentle
  <1>19. QED
    BY <1>2, <1>12, <1>13, <1>14, <1>15, <1>16, <1>17, <1>18, GentleKeeps DEF IInv

LEMMA SlowWriteKeeps == ASSUME IInv, SlowWrite PROVE IInv'
  <1>1. /\ pc.owner = "slowwrite" /\ ~exiting
        /\ mem' = [mem EXCEPT ![hot.cursor] = [delta |-> 0, code |-> call.tick]]
        /\ call' = [call EXCEPT !.at = hot.cursor]
        /\ UNCHANGED <<hot, cold, live, registered, exiting, arming, held, reader, run, enabled,
                       ticks, gone, ofRun, armedFor>>
    BY DEF SlowWrite, IInv, Mutex
  <1>2. pc'.owner = "written" /\ pc'.ender = pc.ender /\ pc' \in [owner : OwnerPlaces, ender : EnderPlaces]
    BY OwnerGoes DEF SlowWrite, OwnerPlaces
  <1>3. /\ ~Ending /\ held.ender = NoBatch /\ held.owner = NoBatch
        /\ call.tick = ticks /\ ticks \in 1..MaxTicks /\ call.run \in 1..Runs
    BY <1>1, PushAlone DEF InCallback
  <1>4. hot.cursor = Start(cold.buf) /\ cold.producer = call.run /\ cold.base = ticks
    BY <1>1 DEF IInv, Called
  <1>5. Settled /\ cold.buf # 0
    <2>1. Settled
      BY <1>1, <1>3 DEF Settled, Renewing, Ending
    <2>2. cold.producer # 0
      BY <1>3, <1>4
    <2>3. QED
      BY <2>1, <2>2 DEF IInv, Armed
  <1>6. /\ Start(cold.buf) \in Nat /\ End(cold.buf) = Start(cold.buf) + BatchN /\ hot.end = End(cold.buf)
        /\ hot.cursor \in Start(cold.buf)..End(cold.buf) /\ cold.buf \in 1..Buffers
        /\ HotRange = Start(cold.buf)..(hot.cursor - 1) /\ hot.base = cold.base /\ hot.queue = cold.producer
    BY <1>5, SettledBatch
  <1>7. hot.cursor \in Slots /\ hot.cursor < hot.end /\ HotRange = {}
    <2>1. hot.cursor \in Start(cold.buf)..(End(cold.buf) - 1) /\ hot.cursor < hot.end
      BY <1>4, <1>6, Sizes
    <2>2. HotRange = {}
      BY <1>4, <1>6
    <2>3. QED
      BY <2>1, <2>2, <1>6, BufferFacts
  <1>8. /\ mem'[hot.cursor] = [delta |-> ticks - hot.base, code |-> ticks]
        /\ call'.at = hot.cursor /\ call'.run = call.run /\ call'.tick = call.tick
        /\ call' \in [run : 0..Runs, tick : 0..MaxTicks, at : Address, delta : -MaxTicks..MaxTicks]
    <2>1. mem \in [Slots -> Events]
      BY DEF IInv, TypeOK
    <2>2. ticks - hot.base = 0
      BY <1>3, <1>4, <1>6
    <2>3. call \in [run : 0..Runs, tick : 0..MaxTicks, at : Address, delta : -MaxTicks..MaxTicks]
      BY DEF IInv, TypeOK
    <2>4. hot.cursor \in Address
      BY DEF IInv, TypeOK
    <2>5. QED
      BY <2>1, <2>2, <2>3, <2>4, <1>1, <1>3, <1>7
  <1>9. TypeOK'
    <2>1. [delta |-> 0, code |-> call.tick] \in Events
      BY <1>3, Sizes DEF Events
    <2>2. mem' \in [Slots -> Events]
      BY <2>1, <1>1 DEF IInv, TypeOK
    <2>3. TypeOK
      BY DEF IInv
    <2>4. QED
      BY <2>2, <2>3, <1>1, <1>2, <1>8 DEF TypeOK, OwnerPlaces, EnderPlaces
  <1>10. Mutex'
    BY <1>1, <1>2 DEF IInv, Mutex, Ending, Reading
  <1>11. Called'
    BY <1>1, <1>2, <1>4, <1>6, <1>7, <1>8 DEF IInv, Called, InCallback
  <1>12. Armed'
    BY <1>1, <1>2 DEF IInv, Armed, Settled, Renewing, Even, InBuffer, Actors
  <1>13. Owned'
    BY <1>1, <1>2 DEF IInv, Owned
  <1>14. HotRange' = {}
    BY <1>1, <1>7 DEF HotRange
  <1>15. Contents'
    <2>1. Even' <=> Even
      BY <1>1 DEF Even
    <2>2. \A p \in Actors : Start(held[p].buf)..(Start(held[p].buf) + held[p].len - 1) = {}
      BY <1>3, NothingHeld DEF Actors
    <2>3. QED
      BY <1>1, <1>2, <1>14, <2>1, <2>2 DEF IInv, Contents
  <1>16. Gentle
    <2>1. hot.epoch \in Nat /\ hot.cursor \in Nat /\ ticks \in Nat
      BY Typed DEF IInv
    <2>2. QED
      BY <2>1, <1>1, <1>2, <1>7 DEF Gentle, Renewing
  <1>17. QED
    BY <1>1, <1>9, <1>10, <1>11, <1>12, <1>13, <1>15, <1>16, GentleKeeps DEF IInv

---------------------------------------------------------------------------
(* arm.                                                                     *)

\* One actor moves, the other stays.
LEMMA ActorGoes ==
  ASSUME IInv, NEW p \in Actors, NEW to \in OwnerPlaces \cap EnderPlaces, Goto(p, to)
  PROVE  /\ pc' \in [owner : OwnerPlaces, ender : EnderPlaces]
         /\ \/ p = "owner" /\ pc[p] = pc.owner /\ pc'.owner = to /\ pc'.ender = pc.ender
            \/ p = "ender" /\ pc[p] = pc.ender /\ pc'.ender = to /\ pc'.owner = pc.owner
  <1>1. CASE p = "owner"
    BY <1>1, OwnerGoes
  <1>2. CASE p = "ender"
    BY <1>2, EnderGoes
  <1>3. QED
    BY <1>1, <1>2 DEF Actors

LEMMA OwnArm ==
  ASSUME IInv, pc.owner \in {"renew", "arm"}
  PROVE  /\ ~Ending /\ pc.ender \notin {"renew", "arm", "push"} /\ cold.buf \in 1..Buffers /\ cold.buf \in live
         /\ hot.queue = cold.producer /\ hot.base \in Nat
         /\ ~exiting => cold.base = ticks
  <1>1. ~Ending
    BY DEF IInv, Mutex
  <1>2. cold.buf # 0 /\ hot.queue = cold.producer
    BY DEF IInv, Armed, Actors
  <1>3. cold.buf \in 0..Buffers /\ hot.base \in Nat
    BY Typed DEF IInv
  <1>4. cold.buf \in live
    BY <1>2 DEF IInv, Owned
  <1>5. ~exiting => cold.base = ticks
    BY DEF IInv, Called
  <1>6. QED
    BY <1>1, <1>2, <1>3, <1>4, <1>5, Sizes DEF Ending

LEMMA EnderArm ==
  ASSUME IInv, pc.ender \in {"renew", "arm"}
  PROVE  /\ Ending /\ ~Reading /\ pc.owner \in {"idle", "entered"} /\ ~exiting
         /\ cold.buf \in 1..Buffers /\ cold.buf \in live /\ hot.queue = cold.producer
  <1>1. Ending
    BY DEF Ending
  <1>2. hot.queue = cold.producer
    BY DEF IInv, Armed, Actors
  <1>3. QED
    BY <1>1, <1>2, FlushAlone

\* Whoever arms is alone with it; the batch it arms is its own and allocated.
LEMMA ArmAlone ==
  ASSUME IInv, NEW p \in Actors, pc[p] \in {"renew", "arm"}
  PROVE  /\ cold.buf \in 1..Buffers /\ cold.buf \in live /\ hot.queue = cold.producer /\ pc.owner # "exited"
         /\ \/ /\ p = "owner" /\ pc[p] = pc.owner /\ ~Ending /\ pc.ender \notin {"renew", "arm", "push"}
               /\ pc.owner \in Renewing
               /\ ~exiting => cold.base = ticks
            \/ /\ p = "ender" /\ pc[p] = pc.ender /\ Ending /\ ~Reading /\ pc.owner \in {"idle", "entered"} /\ ~exiting
  <1>1. CASE p = "owner"
    <2>1. pc.owner \in {"renew", "arm"} /\ pc[p] = pc.owner
      BY <1>1
    <2>2. QED
      BY <1>1, <2>1, OwnArm DEF Renewing
  <1>2. CASE p = "ender"
    <2>1. pc.ender \in {"renew", "arm"} /\ pc[p] = pc.ender
      BY <1>2
    <2>2. QED
      BY <1>2, <2>1, EnderArm
  <1>3. QED
    BY <1>1, <1>2 DEF Actors

LEMMA ArmBeginsKeeps ==
  ASSUME IInv, NEW p \in Actors, pc[p] = "renew", ArmBegins(hot.epoch),
         arming' = [arming EXCEPT ![p] = Words], Goto(p, "arm"), UNCHANGED armedFor,
         UNCHANGED <<cold, live, mem, registered, exiting, held, call, reader, run, enabled, ticks, gone, ofRun>>
  PROVE  IInv'
  <1>1. /\ cold.buf \in 1..Buffers /\ cold.buf # 0 /\ hot.queue = cold.producer /\ pc.owner # "exited"
        /\ \/ /\ p = "owner" /\ pc.owner = "renew" /\ ~Ending /\ pc.ender \notin {"renew", "arm", "push"}
           \/ /\ p = "ender" /\ pc.ender = "renew" /\ ~Reading /\ pc.owner \in {"idle", "entered"}
    BY ArmAlone, Sizes
  <1>2. /\ pc' \in [owner : OwnerPlaces, ender : EnderPlaces]
        /\ \/ p = "owner" /\ pc.owner = "renew" /\ pc'.owner = "arm" /\ pc'.ender = pc.ender
           \/ p = "ender" /\ pc.ender = "renew" /\ pc'.ender = "arm" /\ pc'.owner = pc.owner
    <2>1. "arm" \in OwnerPlaces \cap EnderPlaces
      BY DEF OwnerPlaces, EnderPlaces
    <2>2. QED
      BY <2>1, ActorGoes, Zenon
  <1>3. /\ hot'.cursor = hot.cursor /\ hot'.end = hot.end /\ hot'.base = hot.base /\ hot'.queue = hot.queue
        /\ hot'.epoch = hot.epoch + 1 /\ hot.epoch \in Nat
        /\ hot' \in [cursor : Address, end : Address, base : 0..MaxTicks, queue : 0..Runs, epoch : Nat]
    <2>1. hot \in [cursor : Address, end : Address, base : 0..MaxTicks, queue : 0..Runs, epoch : Nat]
      BY DEF IInv, TypeOK
    <2>2. QED
      BY <2>1 DEF ArmBegins
  <1>4. arming'[p] = Words /\ arming' \in [Actors -> SUBSET Words]
    BY DEF IInv, TypeOK
  <1>5. Even /\ ~Even'
    <2>1. Even
      BY <1>1 DEF IInv, Armed
    <2>2. QED
      BY <2>1, <1>3 DEF Even
  <1>6. TypeOK'
    <2>1. TypeOK
      BY DEF IInv
    <2>2. QED
      BY <2>1, <1>2, <1>3, <1>4 DEF TypeOK, OwnerPlaces, EnderPlaces
  <1>7. Mutex'
    BY <1>2 DEF IInv, Mutex, Reading, Ending
  <1>8. Called'
    BY <1>2, <1>3 DEF IInv, Called, InCallback
  <1>9. Armed'
    <2>1. \A q \in Actors : pc'[q] = "arm" => arming'[q] = Words
      BY <1>1, <1>2, <1>4 DEF Actors
    <2>2. ~Settled' /\ ~(pc'.owner # "arm" /\ pc'.ender # "arm")
      BY <1>2 DEF Settled, Renewing
    <2>3. /\ cold'.buf = 0 <=> cold'.producer = 0
          /\ armedFor' <= cold'.producer
          /\ hot'.end = 0 \/ \E b \in 1..Buffers : hot'.end = End(b)
      BY <1>3 DEF IInv, Armed
    <2>4. pc'.owner \in {"register", "init"} => hot'.queue = armedFor' /\ armedFor' < cold'.producer
      BY <1>2, <1>3 DEF IInv, Armed
    <2>5. armedFor' # cold'.producer => pc'.owner \in Renewing /\ ~exiting'
      BY <1>1, <1>2 DEF IInv, Armed, Renewing
    <2>6. \A q \in Actors : pc'[q] \in {"renew", "arm"} => cold'.buf # 0 /\ hot'.queue = cold'.producer
      BY <1>1, <1>3
    <2>7. \A q \in Actors : pc'[q] \in {"renew", "arm"} /\ (q = "ender" \/ exiting') =>
            hot'.end \in {End(cold'.buf), End(held'[q].buf)}
      <3>1. \A q \in Actors : pc'[q] \in {"renew", "arm"} => pc[q] \in {"renew", "arm"}
        BY <1>1, <1>2 DEF Actors
      <3>2. QED
        BY <3>1, <1>3 DEF IInv, Armed
    <2>8. QED
      BY <1>5, <2>1, <2>2, <2>3, <2>4, <2>5, <2>6, <2>7 DEF Armed, Words
  <1>10. Owned'
    BY <1>2, <1>3 DEF IInv, Owned
  <1>11. Contents'
    BY <1>1, <1>2, <1>5 DEF IInv, Contents
  <1>12. View' /\ Had' /\ TailIsCoherent' /\ NothingIsHidden'
    <2>1. CASE p = "owner"
      <3>1. hot.cursor \in Nat /\ ticks \in Nat
        BY Typed DEF IInv
      <3>2. Gentle
        BY <2>1, <3>1, <1>1, <1>3 DEF Gentle, Renewing
      <3>3. QED
        BY <3>2, <1>6, GentleKeeps
    <2>2. CASE p # "owner"
      BY <2>2, <1>1, NobodyReads DEF IInv
    <2>3. QED
      BY <2>1, <2>2
  <1>13. QED
    BY <1>6, <1>7, <1>8, <1>9, <1>10, <1>11, <1>12 DEF IInv

LEMMA ArmStoreKeeps ==
  ASSUME IInv, NEW p \in Actors, pc[p] = "arm", ArmStore(p), UNCHANGED <<pc, armedFor>>,
         UNCHANGED <<cold, live, mem, registered, exiting, held, call, reader, run, enabled, ticks, gone, ofRun>>
  PROVE  IInv'
  <1>1. /\ cold.buf \in 1..Buffers /\ cold.buf \in live /\ pc.owner # "exited"
        /\ \/ /\ p = "owner" /\ pc.owner = "arm" /\ ~Ending /\ pc.ender \notin {"renew", "arm", "push"}
           \/ /\ p = "ender" /\ pc.ender = "arm" /\ ~Reading /\ pc.owner \in {"idle", "entered"}
    BY ArmAlone
  <1>2. PICK w \in arming[p] :
          /\ arming' = [arming EXCEPT ![p] = @ \ {w}]
          /\ hot' = CASE w = "base"   -> [hot EXCEPT !.base = cold.base]
                      [] w = "cursor" -> [hot EXCEPT !.cursor = Start(cold.buf)]
                      [] w = "end"    -> [hot EXCEPT !.end = End(cold.buf)]
    BY DEF ArmStore
  <1>3. arming \in [Actors -> SUBSET Words] /\ w \in Words
    BY <1>2 DEF IInv, TypeOK
  <1>4. /\ Start(cold.buf) \in Address /\ End(cold.buf) \in Address
    <2>1. /\ Start(cold.buf) \in Nat /\ End(cold.buf) \in Nat /\ End(cold.buf) = Start(cold.buf) + BatchN
          /\ End(cold.buf) <= End(Buffers) /\ End(Buffers) \in Nat
      BY <1>1, BufferFacts, Sizes
    <2>2. QED
      BY <2>1, Sizes DEF Address
  <1>5. /\ hot'.queue = hot.queue /\ hot'.epoch = hot.epoch
        /\ hot'.base = (IF w = "base" THEN cold.base ELSE hot.base)
        /\ hot'.cursor = (IF w = "cursor" THEN Start(cold.buf) ELSE hot.cursor)
        /\ hot'.end = (IF w = "end" THEN End(cold.buf) ELSE hot.end)
        /\ hot' \in [cursor : Address, end : Address, base : 0..MaxTicks, queue : 0..Runs, epoch : Nat]
    <2>1. /\ hot \in [cursor : Address, end : Address, base : 0..MaxTicks, queue : 0..Runs, epoch : Nat]
          /\ cold \in [producer : 0..Runs, buf : 0..Buffers, base : 0..MaxTicks]
      BY DEF IInv, TypeOK
    <2>2. cold.base \in 0..MaxTicks
      BY <2>1
    <2>3. CASE w = "base"
      <3>1. hot' = [hot EXCEPT !.base = cold.base]
        BY <2>3, <1>2
      <3>2. QED
        BY <3>1, <2>1, <2>2, <2>3
    <2>4. CASE w = "cursor"
      <3>1. hot' = [hot EXCEPT !.cursor = Start(cold.buf)]
        BY <2>4, <1>2
      <3>2. QED
        BY <3>1, <2>1, <2>4, <1>4
    <2>5. CASE w = "end"
      <3>1. hot' = [hot EXCEPT !.end = End(cold.buf)]
        BY <2>5, <1>2
      <3>2. QED
        BY <3>1, <2>1, <2>5, <1>4
    <2>6. QED
      BY <2>3, <2>4, <2>5, <1>3 DEF Words
  <1>6. ~Even /\ ~Even'
    BY <1>1, <1>5 DEF IInv, Armed, Even
  <1>7. TypeOK'
    <2>1. arming' \in [Actors -> SUBSET Words]
      BY <1>2, <1>3
    <2>2. TypeOK
      BY DEF IInv
    <2>3. hot' \in [cursor : Address, end : Address, base : 0..MaxTicks, queue : 0..Runs, epoch : Nat]
      BY <1>5
    <2>4. pc' \in [owner : OwnerPlaces, ender : EnderPlaces]
      BY Places
    <2>5. QED
      BY <2>1, <2>2, <2>3, <2>4 DEF TypeOK, OwnerPlaces, EnderPlaces
  <1>8. Mutex'
    BY DEF IInv, Mutex, Reading, Ending
  <1>9. Called'
    BY <1>1, <1>5 DEF IInv, Called, InCallback
  <1>10. Armed'
    <2>1. /\ "base" \in arming[p] \/ hot.base = cold.base
          /\ "cursor" \in arming[p] \/ hot.cursor = Start(cold.buf)
          /\ "end" \in arming[p] \/ hot.end = End(cold.buf)
      BY DEF IInv, Armed
    <2>2. /\ "base" \in arming'[p] \/ hot'.base = cold'.base
          /\ "cursor" \in arming'[p] \/ hot'.cursor = Start(cold'.buf)
          /\ "end" \in arming'[p] \/ hot'.end = End(cold'.buf)
      BY <2>1, <1>2, <1>3, <1>5
    <2>3. \A q \in Actors : pc'[q] = "arm" => q = p
      BY <1>1 DEF Actors
    <2>4. /\ cold'.buf = 0 <=> cold'.producer = 0
          /\ ~Settled'
          /\ Even' <=> pc'.owner # "arm" /\ pc'.ender # "arm"
      BY <1>1, <1>6 DEF IInv, Armed, Settled, Renewing
    <2>5. hot'.end = 0 \/ \E b \in 1..Buffers : hot'.end = End(b)
      BY <1>1, <1>5 DEF IInv, Armed
    <2>6. /\ \A q \in Actors : pc'[q] \in {"renew", "arm"} => cold'.buf # 0 /\ hot'.queue = cold'.producer
          /\ pc'.owner \in {"register", "init"} => hot'.queue = armedFor' /\ armedFor' < cold'.producer
          /\ armedFor' <= cold'.producer
          /\ armedFor' # cold'.producer => pc'.owner \in Renewing /\ ~exiting'
      BY <1>5 DEF IInv, Armed
    <2>7. \A q \in Actors : pc'[q] \in {"renew", "arm"} /\ (q = "ender" \/ exiting') =>
            hot'.end \in {End(cold'.buf), End(held'[q].buf)}
      BY <1>5 DEF IInv, Armed
    <2>8. QED
      BY <1>6, <2>2, <2>3, <2>4, <2>5, <2>6, <2>7 DEF Armed
  <1>11. Owned'
    <2>1. hot'.end # 0 /\ armedFor' = cold'.producer /\ pc'.owner # "exited" => \E b \in live' : hot'.end = End(b)
      BY <1>1, <1>5 DEF IInv, Owned
    <2>2. QED
      BY <2>1, <1>1 DEF IInv, Owned
  <1>12. Contents'
    BY <1>1, <1>6 DEF IInv, Contents
  <1>13. View' /\ Had' /\ TailIsCoherent' /\ NothingIsHidden'
    <2>1. CASE p = "owner"
      <3>1. ticks \in Nat /\ hot.epoch \in Nat
        BY Typed DEF IInv
      <3>2. Gentle
        BY <2>1, <3>1, <1>1, <1>5, <1>6 DEF Gentle, Renewing
      <3>3. QED
        BY <3>2, <1>7, GentleKeeps
    <2>2. CASE p # "owner"
      BY <2>2, <1>1, NobodyReads DEF IInv
    <2>3. QED
      BY <2>1, <2>2
  <1>14. QED
    BY <1>7, <1>8, <1>9, <1>10, <1>11, <1>12, <1>13 DEF IInv

LEMMA ArmEndsKeeps ==
  ASSUME IInv, NEW p \in Actors, pc[p] = "arm", ArmEnds(p), armedFor' = cold.producer,
         Goto(p, IF p = "owner" /\ ~exiting THEN "slowwrite" ELSE "push"),
         UNCHANGED <<cold, live, mem, registered, exiting, held, call, reader, run, enabled, ticks, gone, ofRun>>
  PROVE  IInv'
  <1>1. /\ cold.buf \in 1..Buffers /\ cold.buf # 0 /\ cold.buf \in live /\ hot.queue = cold.producer
        /\ \/ /\ p = "owner" /\ pc.owner = "arm" /\ ~Ending /\ pc.ender \notin {"renew", "arm", "push"}
              /\ ~exiting => cold.base = ticks
           \/ /\ p = "ender" /\ pc.ender = "arm" /\ ~Reading /\ pc.owner \in {"idle", "entered"} /\ ~exiting
    BY ArmAlone, Sizes
  <1>2. /\ pc' \in [owner : OwnerPlaces, ender : EnderPlaces]
        /\ \/ /\ p = "owner" /\ pc.owner = "arm" /\ pc'.ender = pc.ender
              /\ pc'.owner = IF exiting THEN "push" ELSE "slowwrite"
           \/ p = "ender" /\ pc.ender = "arm" /\ pc'.ender = "push" /\ pc'.owner = pc.owner
    <2>1. CASE p = "owner"
      <3>1. (IF p = "owner" /\ ~exiting THEN "slowwrite" ELSE "push") \in OwnerPlaces
        BY DEF OwnerPlaces
      <3>2. QED
        BY <2>1, <3>1, <1>1, OwnerGoes
    <2>2. CASE p = "ender"
      <3>1. Goto("ender", "push") /\ "push" \in EnderPlaces
        BY <2>2 DEF EnderPlaces
      <3>2. QED
        BY <2>2, <3>1, <1>1, EnderGoes
    <2>3. QED
      BY <2>1, <2>2 DEF Actors
  <1>3. /\ arming[p] = {} /\ arming' = arming
        /\ hot.base = cold.base /\ hot.cursor = Start(cold.buf) /\ hot.end = End(cold.buf)
    BY DEF ArmEnds, IInv, Armed
  <1>4. /\ hot'.cursor = hot.cursor /\ hot'.end = hot.end /\ hot'.base = hot.base /\ hot'.queue = hot.queue
        /\ hot'.epoch = hot.epoch + 1 /\ hot.epoch \in Nat
        /\ hot' \in [cursor : Address, end : Address, base : 0..MaxTicks, queue : 0..Runs, epoch : Nat]
    <2>1. hot \in [cursor : Address, end : Address, base : 0..MaxTicks, queue : 0..Runs, epoch : Nat]
      BY DEF IInv, TypeOK
    <2>2. QED
      BY <2>1 DEF ArmEnds
  <1>5. Even'
    <2>1. ~Even
      BY <1>1 DEF IInv, Armed
    <2>2. QED
      BY <2>1, <1>4 DEF Even
  <1>6. InBuffer(cold.buf)' /\ Start(cold.buf) \in Nat /\ End(cold.buf) = Start(cold.buf) + BatchN
    <2>1. Start(cold.buf) \in Nat /\ End(cold.buf) = Start(cold.buf) + BatchN
      BY <1>1, BufferFacts
    <2>2. QED
      BY <2>1, <1>3, <1>4, Sizes DEF InBuffer
  <1>7. TypeOK'
    <2>1. TypeOK
      BY DEF IInv
    <2>2. armedFor' \in 0..Runs
      BY <2>1 DEF TypeOK
    <2>3. QED
      BY <2>1, <2>2, <1>2, <1>3, <1>4 DEF TypeOK, OwnerPlaces, EnderPlaces
  <1>8. Mutex'
    BY <1>1, <1>2 DEF IInv, Mutex, Reading, Ending
  <1>9. Called'
    BY <1>1, <1>2, <1>3, <1>4 DEF IInv, Called, InCallback
  <1>10. Armed'
    <2>1. /\ pc'.owner # "arm" /\ pc'.ender # "arm" /\ pc'.owner \notin {"register", "init", "renew"}
          /\ pc'.ender # "renew"
      BY <1>1, <1>2
    <2>2. \A q \in Actors : pc'[q] \notin {"renew", "arm"}
      BY <2>1 DEF Actors
    <2>3. cold.producer <= cold.producer /\ cold.producer # 0
      BY <1>1, Typed, SMTT(30) DEF IInv, Armed
    <2>4. \E b \in 1..Buffers : InBuffer(b)'
      BY <1>1, <1>6
    <2>5. \E b \in 1..Buffers : hot'.end = End(b)
      BY <1>1, <1>3, <1>4
    <2>6. hot'.end = End(cold'.buf) /\ hot'.cursor \in Start(cold'.buf)..End(cold'.buf)
      BY <1>6 DEF InBuffer
    <2>7. hot'.queue = cold'.producer /\ hot'.base = cold'.base
      BY <1>1, <1>3, <1>4
    <2>8. QED
      BY <1>1, <1>5, <2>1, <2>2, <2>3, <2>4, <2>5, <2>6, <2>7 DEF Armed, InBuffer
  <1>11. Owned'
    <2>1. \E b \in live' : hot'.end = End(b)
      BY <1>1, <1>3, <1>4
    <2>2. QED
      BY <2>1, <1>1, <1>2, <1>4 DEF IInv, Owned
  <1>12. Contents'
    <2>1. HotRange' = {}
      <3>1. hot'.end - BatchN = Start(cold.buf) /\ hot'.cursor = Start(cold.buf)
        BY <1>3, <1>4, <1>6, Sizes
      <3>2. QED
        BY <3>1, <1>6 DEF HotRange
    <2>2. cold.base \in 1..ticks /\ ofRun[cold.base] = cold.producer
      BY <1>1 DEF IInv, Owned
    <2>3. QED
      BY <2>1, <2>2, <1>2, <1>3, <1>4 DEF IInv, Contents
  <1>13. View' /\ Had' /\ TailIsCoherent' /\ NothingIsHidden'
    <2>1. CASE p = "owner"
      <3>1. ticks \in Nat
        BY Typed DEF IInv
      <3>2. Gentle
        BY <2>1, <3>1, <1>1, <1>4 DEF Gentle, Renewing
      <3>3. QED
        BY <3>2, <1>7, GentleKeeps
    <2>2. CASE p # "owner"
      BY <2>2, <1>1, NobodyReads DEF IInv
    <2>3. QED
      BY <2>1, <2>2
  <1>14. QED
    BY <1>7, <1>8, <1>9, <1>10, <1>11, <1>12, <1>13 DEF IInv

LEMMA ArmOfKeeps == ASSUME IInv, NEW p \in Actors, ArmOf(p) PROVE IInv'
  <1>1. UNCHANGED <<cold, live, mem, registered, exiting, held, call, reader, run, enabled, ticks, gone, ofRun>>
    BY DEF ArmOf
  <1>2. \/ /\ pc[p] = "renew" /\ ArmBegins(hot.epoch)
           /\ arming' = [arming EXCEPT ![p] = Words] /\ Goto(p, "arm") /\ UNCHANGED armedFor
        \/ pc[p] = "arm" /\ ArmStore(p) /\ UNCHANGED <<pc, armedFor>>
        \/ /\ pc[p] = "arm" /\ ArmEnds(p) /\ armedFor' = cold.producer
           /\ Goto(p, IF p = "owner" /\ ~exiting THEN "slowwrite" ELSE "push")
    BY DEF ArmOf, Arm
  <1>3. QED
    BY <1>1, <1>2, ArmBeginsKeeps, ArmStoreKeeps, ArmEndsKeeps

---------------------------------------------------------------------------
(* The flush and the exit.                                                  *)

\* Who flushes is alone with it, and nobody is about to arm before it has.
LEMMA FlushPlace ==
  ASSUME IInv, NEW p \in Actors, pc[p] \in {"commit", "push"}
  PROVE  /\ ~Reading /\ Settled
         /\ \/ p = "owner" /\ pc[p] = pc.owner /\ exiting /\ ~registered /\ ~Ending /\ held.ender = NoBatch
            \/ /\ p = "ender" /\ pc[p] = pc.ender /\ Ending /\ registered /\ ~exiting /\ held.owner = NoBatch
               /\ pc.owner \in {"idle", "entered"} /\ cold.buf # 0
  <1>1. CASE p = "owner"
    <2>1. exiting /\ pc.owner \in {"commit", "push"} /\ pc[p] = pc.owner
      BY <1>1 DEF IInv, Mutex
    <2>2. ~registered /\ ~Reading /\ ~Ending /\ held.ender = NoBatch
      BY <2>1, ExitAlone
    <2>3. QED
      BY <1>1, <2>1, <2>2 DEF Settled, Renewing, Ending
  <1>2. CASE p = "ender"
    <2>1. pc.ender \in {"commit", "push"} /\ Ending
      BY <1>2 DEF Ending
    <2>2. /\ registered /\ ~Reading /\ ~exiting /\ pc.owner \in {"idle", "entered"} /\ held.owner = NoBatch
          /\ cold.buf \in 1..Buffers
      BY <2>1, FlushAlone
    <2>3. QED
      BY <1>2, <2>1, <2>2, Sizes DEF Settled, Renewing
  <1>3. QED
    BY <1>1, <1>2 DEF Actors

LEMMA FlushCommitKeeps == ASSUME IInv, NEW p \in Actors, FlushCommit(p) PROVE IInv'
  <1> DEFINE len == hot.cursor - Start(cold.buf)
             taken == [buf |-> cold.buf, base |-> cold.base, len |-> len]
  <1>1. /\ pc[p] = "commit" /\ Goto(p, "renew")
        /\ UNCHANGED <<hot, mem, registered, exiting, arming, call, reader, run, enabled, ticks, gone, ofRun, armedFor>>
    BY DEF FlushCommit
  <1>2. /\ ~Reading /\ Settled
        /\ \/ p = "owner" /\ pc.owner = "commit" /\ exiting /\ ~registered /\ ~Ending /\ held.ender = NoBatch
           \/ /\ p = "ender" /\ pc.ender = "commit" /\ Ending /\ registered /\ ~exiting /\ held.owner = NoBatch
              /\ pc.owner \in {"idle", "entered"} /\ cold.buf # 0
    BY <1>1, FlushPlace
  <1>3. /\ pc' \in [owner : OwnerPlaces, ender : EnderPlaces]
        /\ \/ p = "owner" /\ pc.owner = "commit" /\ pc'.owner = "renew" /\ pc'.ender = pc.ender
           \/ p = "ender" /\ pc.ender = "commit" /\ pc'.ender = "renew" /\ pc'.owner = pc.owner
    <2>1. "renew" \in OwnerPlaces \cap EnderPlaces
      BY DEF OwnerPlaces, EnderPlaces
    <2>2. QED
      BY <2>1, <1>1, <1>2, ActorGoes
  <1>4. cold.buf # 0 /\ cold.buf \in live /\ pc.owner # "exited"
    <2>1. cold.buf # 0
      BY <1>2 DEF IInv, Mutex
    <2>2. QED
      BY <2>1, <1>2 DEF IInv, Owned
  <1>5. /\ hot.queue = cold.producer /\ hot.base = cold.base /\ armedFor = cold.producer
        /\ cold.buf \in 1..Buffers /\ Start(cold.buf) \in Nat /\ End(cold.buf) = Start(cold.buf) + BatchN
        /\ hot.cursor \in Start(cold.buf)..End(cold.buf) /\ hot.end # 0 /\ Even
        /\ HotRange = Start(cold.buf)..(hot.cursor - 1)
    BY <1>2, <1>4, SettledBatch
  \* The batch that is taken goes, and another one comes; an empty one stays.
  <1>6. /\ cold'.producer = cold.producer /\ cold'.base = cold.base /\ cold'.buf \in 1..Buffers /\ cold'.buf \in live'
        /\ cold' \in [producer : 0..Runs, buf : 0..Buffers, base : 0..MaxTicks]
        /\ live \subseteq live' /\ live' \in SUBSET (1..Buffers)
        /\ held' = held \/ (held' = [held EXCEPT ![p] = taken] /\ cold'.buf # cold.buf)
    <2>1. /\ cold \in [producer : 0..Runs, buf : 0..Buffers, base : 0..MaxTicks] /\ live \in SUBSET (1..Buffers)
      BY DEF IInv, TypeOK
    <2>2. CASE len = 0
      <3>1. held' = held /\ live' = live /\ cold' = cold
        BY <2>2 DEF FlushCommit
      <3>2. QED
        BY <3>1, <2>1, <1>4, <1>5
    <2>3. CASE len # 0
      <3>1. PICK b \in 1..Buffers \ live : live' = live \cup {b} /\ cold' = [cold EXCEPT !.buf = b]
        BY <2>3 DEF FlushCommit
      <3>2. held' = [held EXCEPT ![p] = taken]
        BY <2>3 DEF FlushCommit
      <3>3. b # cold.buf /\ b \in 0..Buffers
        BY <3>1, <1>4, Sizes
      <3>4. QED
        BY <3>1, <3>2, <3>3, <2>1
    <2>4. QED
      BY <2>2, <2>3
  <1>7. /\ held' \in [Actors -> [buf : 0..Buffers, base : 0..MaxTicks, len : 0..BatchN]]
        /\ \A q \in Actors : q # p => held'[q] = NoBatch
        /\ held'[p] = held[p] \/ (held'[p] = taken /\ cold'.buf # cold.buf)
    <2>1. held \in [Actors -> [buf : 0..Buffers, base : 0..MaxTicks, len : 0..BatchN]]
      BY DEF IInv, TypeOK
    <2>2. taken \in [buf : 0..Buffers, base : 0..MaxTicks, len : 0..BatchN]
      <3>1. cold \in [producer : 0..Runs, buf : 0..Buffers, base : 0..MaxTicks]
        BY DEF IInv, TypeOK
      <3>2. len \in 0..BatchN
        BY <1>5, Sizes
      <3>3. QED
        BY <3>1, <3>2
    <2>3. \A q \in Actors : q # p => held[q] = NoBatch
      BY <1>2 DEF Actors
    <2>4. QED
      BY <2>1, <2>2, <2>3, <1>6
  <1>8. held[p] = NoBatch
    BY <1>2 DEF IInv, Owned, NoBatch
  <1>9. TypeOK'
    <2>1. TypeOK
      BY DEF IInv
    <2>2. QED
      BY <2>1, <1>1, <1>3, <1>6, <1>7 DEF TypeOK, OwnerPlaces, EnderPlaces
  <1>10. Mutex'
    <2>1. cold'.buf # 0
      BY <1>6, Sizes
    <2>2. QED
      BY <2>1, <1>1, <1>2, <1>3 DEF IInv, Mutex, Reading, Ending
  <1>11. Called'
    BY <1>1, <1>2, <1>3, <1>6 DEF IInv, Called, InCallback
  <1>12. Armed'
    <2>1. cold.producer # 0 /\ cold'.buf # 0
      BY <1>4, <1>6, Sizes DEF IInv, Armed
    <2>2. ~Settled' /\ pc'.owner # "arm" /\ pc'.ender # "arm" /\ pc'.owner \notin {"register", "init"}
      BY <1>2, <1>3 DEF Settled, Renewing, Ending
    <2>3. \A q \in Actors : pc'[q] # "arm"
      BY <2>2 DEF Actors
    <2>4. /\ Even' => (hot'.end = 0 /\ hot'.cursor = 0) \/ \E b \in 1..Buffers : InBuffer(b)'
          /\ hot'.end = 0 \/ \E b \in 1..Buffers : hot'.end = End(b)
      BY <1>1 DEF IInv, Armed, Even, InBuffer
    <2>5. Even' /\ hot'.queue = cold'.producer /\ armedFor' = cold'.producer
      BY <1>1, <1>5, <1>6 DEF Even
    <2>6. armedFor' <= cold'.producer
      BY <1>1, <1>6 DEF IInv, Armed
    \* Hot describes the batch that is measured: it stays, or it is taken.
    <2>7. \A q \in Actors : pc'[q] \in {"renew", "arm"} => hot'.end \in {End(cold'.buf), End(held'[q].buf)}
      <3>1. ASSUME NEW q \in Actors, pc'[q] \in {"renew", "arm"} PROVE q = p
        BY <3>1, <1>2, <1>3 DEF Actors, Ending
      <3>2. hot'.end = End(cold.buf)
        BY <1>1, <1>2, <1>4, SettledBatch
      <3>3. cold'.buf = cold.buf \/ held'[p].buf = cold.buf
        <4>1. CASE len = 0
          BY <4>1 DEF FlushCommit
        <4>2. CASE len # 0
          <5>1. held' = [held EXCEPT ![p] = taken]
            BY <4>2 DEF FlushCommit
          <5>2. held \in [Actors -> [buf : 0..Buffers, base : 0..MaxTicks, len : 0..BatchN]]
            BY DEF IInv, TypeOK
          <5>3. QED
            BY <5>1, <5>2
        <4>3. QED
          BY <4>1, <4>2
      <3>4. QED
        BY <3>1, <3>2, <3>3
    <2>8. QED
      BY <2>1, <2>2, <2>3, <2>4, <2>5, <2>6, <2>7, <1>6 DEF Armed
  <1>13. Owned'
    <2>1. cold'.base \in 1..ticks /\ ofRun[cold'.base] = cold'.producer
      BY <1>4, <1>6 DEF IInv, Owned
    <2>2. \A q \in Actors : held'[q] = NoBatch \/ held'[q].buf \in live'
      BY <1>4, <1>6, <1>7, <1>8
    <2>3. held'.owner # NoBatch => exiting /\ pc'.owner = "renew" /\ held'.owner.buf # cold'.buf
      BY <1>2, <1>3, <1>7, <1>8 DEF Actors
    <2>4. held'.ender # NoBatch => pc'.ender = "renew" /\ held'.ender.buf # cold'.buf
      BY <1>2, <1>3, <1>7, <1>8 DEF Actors
    <2>5. pc'.owner \notin {"ship", "register", "init"}
      BY <1>2, <1>3
    <2>6. hot.end # 0 /\ armedFor = cold.producer /\ pc.owner # "exited" => \E b \in live : hot.end = End(b)
      BY DEF IInv, Owned
    <2>7. QED
      BY <2>1, <2>2, <2>3, <2>4, <2>5, <2>6, <1>1, <1>4, <1>6 DEF Owned
  <1>14. Contents'
    <2>1. HotRange' = HotRange /\ (\A a : TickAt(a)' = TickAt(a)) /\ (Even' <=> Even) /\ Top' = Top
      BY <1>1, <1>2, <1>3 DEF HotRange, TickAt, Even, Top, InCallback
    <2>2. \A a \in HotRange : cold.base + mem[a].delta \in 1..ticks
      BY <1>4, <1>5 DEF IInv, Contents, TickAt
    <2>3. Start(taken.buf) + taken.len = hot.cursor
      BY <1>5
    <2>4. ASSUME NEW q \in Actors, NEW a \in Start(held'[q].buf)..(Start(held'[q].buf) + held'[q].len - 1)
          PROVE  held'[q].base + mem[a].delta \in 1..ticks
      <3>1. CASE held'[q] = NoBatch
        <4>1. Start(held'[q].buf)..(Start(held'[q].buf) + held'[q].len - 1) = {}
          BY <3>1, NoBuffer DEF NoBatch
        <4>2. QED
          BY <4>1, <2>4
      <3>2. CASE held'[q] # NoBatch
        <4>1. held'[q] = taken
          BY <3>2, <1>7, <1>8
        <4>2. a \in HotRange
          BY <4>1, <2>3, <2>4, <1>5
        <4>3. held'[q].base = cold.base
          BY <4>1
        <4>4. QED
          BY <4>2, <4>3, <2>2
      <3>3. QED
        BY <3>1, <3>2
    <2>5. pc'.owner = "renew" => exiting
      BY <1>2, <1>3
    <2>6. QED
      BY <1>1, <1>3, <1>4, <1>6, <2>1, <2>4, <2>5 DEF IInv, Contents
  <1>15. View' /\ Had' /\ TailIsCoherent' /\ NothingIsHidden'
    BY <1>1, <1>2, NobodyReads DEF IInv
  <1>16. QED
    BY <1>1, <1>9, <1>10, <1>11, <1>12, <1>13, <1>14, <1>15 DEF IInv

LEMMA FlushPushKeeps == ASSUME IInv, NEW p \in Actors, FlushPush(p) PROVE IInv'
  <1>1. /\ pc[p] = "push" /\ Pushed(held[p]) /\ held' = [held EXCEPT ![p] = NoBatch]
        /\ Goto(p, IF p = "owner" THEN "exited" ELSE "flushed")
        /\ UNCHANGED <<hot, cold, mem, registered, exiting, arming, call, reader, run, enabled, ticks, ofRun, armedFor>>
    BY DEF FlushPush
  <1>2. PICK freed \in {{}, {held[p].buf}} : live' = live \ (freed \cup (IF p = "owner" THEN {cold.buf} ELSE {}))
    BY DEF FlushPush
  <1>3. /\ ~Reading /\ Settled
        /\ \/ p = "owner" /\ pc.owner = "push" /\ exiting /\ ~registered /\ ~Ending /\ held.ender = NoBatch
           \/ /\ p = "ender" /\ pc.ender = "push" /\ Ending /\ registered /\ ~exiting /\ held.owner = NoBatch
              /\ pc.owner \in {"idle", "entered"} /\ cold.buf # 0
    BY <1>1, FlushPlace
  <1>4. /\ pc' \in [owner : OwnerPlaces, ender : EnderPlaces]
        /\ \/ p = "owner" /\ pc.owner = "push" /\ pc'.owner = "exited" /\ pc'.ender = pc.ender
           \/ p = "ender" /\ pc.ender = "push" /\ pc'.ender = "flushed" /\ pc'.owner = pc.owner
    <2>1. CASE p = "owner"
      <3>1. Goto("owner", "exited") /\ "exited" \in OwnerPlaces
        BY <2>1, <1>1 DEF OwnerPlaces
      <3>2. QED
        BY <2>1, <3>1, <1>3, OwnerGoes
    <2>2. CASE p = "ender"
      <3>1. Goto("ender", "flushed") /\ "flushed" \in EnderPlaces
        BY <2>2, <1>1 DEF EnderPlaces
      <3>2. QED
        BY <2>2, <3>1, <1>3, EnderGoes
    <2>3. QED
      BY <2>1, <2>2 DEF Actors
  <1>5. gone' \in SUBSET (1..MaxTicks) /\ gone \subseteq gone'
    BY <1>1, PushedTicks
  <1>6. \A q \in Actors : held'[q] = NoBatch
    <2>1. held \in [Actors -> [buf : 0..Buffers, base : 0..MaxTicks, len : 0..BatchN]]
      BY DEF IInv, TypeOK
    <2>2. QED
      BY <2>1, <1>1, <1>3 DEF Actors
  <1>7. held' \in [Actors -> [buf : 0..Buffers, base : 0..MaxTicks, len : 0..BatchN]]
    <2>1. NoBatch \in [buf : 0..Buffers, base : 0..MaxTicks, len : 0..BatchN]
      BY Sizes DEF NoBatch
    <2>2. QED
      BY <2>1, <1>1 DEF IInv, TypeOK
  <1>8. TypeOK'
    <2>1. TypeOK
      BY DEF IInv
    <2>2. live' \in SUBSET (1..Buffers)
      BY <2>1, <1>2 DEF TypeOK
    <2>3. QED
      BY <2>1, <2>2, <1>1, <1>4, <1>5, <1>7 DEF TypeOK, OwnerPlaces, EnderPlaces
  <1>9. Mutex'
    BY <1>1, <1>3, <1>4 DEF IInv, Mutex, Reading, Ending
  <1>10. Called'
    BY <1>1, <1>3, <1>4 DEF IInv, Called, InCallback
  <1>11. Armed'
    <2>1. Settled' /\ pc'.owner \notin {"arm", "renew", "register", "init"} /\ pc'.ender \notin {"renew", "arm"}
      BY <1>3, <1>4 DEF Settled, Renewing, Ending
    <2>2. \A q \in Actors : pc'[q] \notin {"renew", "arm"}
      BY <2>1 DEF Actors
    <2>3. Even' /\ armedFor' = cold'.producer
      BY <1>1, <1>3 DEF IInv, Armed, Settled, Renewing, Even
    <2>4. QED
      BY <2>1, <2>2, <2>3, <1>1, <1>3 DEF IInv, Armed, Even, InBuffer
  <1>12. Owned'
    <2>1. CASE p = "owner"
      BY <2>1, <1>1, <1>3, <1>4, <1>6 DEF IInv, Owned, Ending, Actors
    <2>2. CASE p = "ender"
      <3>1. held.ender = NoBatch \/ held.ender.buf # cold.buf
        BY DEF IInv, Owned
      <3>2. cold.buf \in live /\ cold.buf # 0
        BY <2>2, <1>3 DEF IInv, Owned
      <3>3. cold.buf \in live'
        BY <2>2, <3>1, <3>2, <1>2 DEF NoBatch
      <3>4. hot.end = End(cold.buf)
        BY <3>2, <1>3, SettledBatch
      <3>5. held'.owner = NoBatch /\ held'.ender = NoBatch
        BY <1>6 DEF Actors
      <3>6. pc'.owner \notin {"ship", "exited", "register", "init"}
        BY <2>2, <1>3, <1>4
      <3>7. cold.base \in 1..ticks /\ ofRun[cold.base] = cold.producer
        BY <3>2 DEF IInv, Owned
      <3>8. QED
        BY <1>1, <1>6, <3>3, <3>4, <3>5, <3>6, <3>7 DEF Owned
    <2>3. QED
      BY <2>1, <2>2 DEF Actors
  <1>13. Contents'
    <2>1. HotRange' = HotRange /\ (\A a : TickAt(a)' = TickAt(a)) /\ (Even' <=> Even) /\ Top' = Top
      BY <1>1, <1>3, <1>4 DEF HotRange, TickAt, Even, Top, InCallback
    <2>2. \A q \in Actors : Start(held'[q].buf)..(Start(held'[q].buf) + held'[q].len - 1) = {}
      BY <1>6, NoBuffer DEF NoBatch
    <2>3. pc'.owner # "renew" /\ (pc'.owner # "exited" => pc.owner # "exited")
      BY <1>3, <1>4
    <2>4. QED
      BY <1>1, <2>1, <2>2, <2>3 DEF IInv, Contents
  <1>14. View' /\ Had' /\ TailIsCoherent' /\ NothingIsHidden'
    BY <1>1, <1>3, NobodyReads DEF IInv
  <1>15. QED
    BY <1>1, <1>8, <1>9, <1>10, <1>11, <1>12, <1>13, <1>14 DEF IInv

LEMMA ExitKeeps == ASSUME IInv, Exit PROVE IInv'
  <1>1. /\ pc.owner = "idle" /\ ~Reading /\ ~Ending /\ registered' = FALSE /\ exiting' = TRUE /\ ~exiting
        /\ Goto("owner", IF cold.buf = 0 THEN "exited" ELSE "commit")
        /\ UNCHANGED <<hot, cold, live, mem, arming, held, call, reader, run, enabled, ticks, gone, ofRun, armedFor>>
    BY DEF Exit, RecordersFree, Reading, IInv, Mutex
  <1>2. /\ pc' \in [owner : OwnerPlaces, ender : EnderPlaces] /\ pc'.ender = pc.ender
        /\ pc'.owner = IF cold.buf = 0 THEN "exited" ELSE "commit"
    <2>1. (IF cold.buf = 0 THEN "exited" ELSE "commit") \in OwnerPlaces
      BY DEF OwnerPlaces
    <2>2. QED
      BY <2>1, <1>1, OwnerGoes
  <1>3. TypeOK'
    <2>1. TypeOK
      BY DEF IInv
    <2>2. QED
      BY <2>1, <1>1, <1>2 DEF TypeOK, OwnerPlaces, EnderPlaces
  <1>4. Mutex'
    BY <1>1, <1>2 DEF IInv, Mutex, Reading, Ending
  <1>5. Called'
    BY <1>1, <1>2 DEF IInv, Called, InCallback
  <1>6. Armed'
    BY <1>1, <1>2 DEF IInv, Armed, Settled, Renewing, Even, InBuffer, Actors
  <1>7. Owned'
    BY <1>1, <1>2 DEF IInv, Owned
  <1>8. Contents'
    BY <1>1, <1>2 DEF IInv, Contents, Even, HotRange, TickAt, Top, InCallback
  <1>9. View' /\ Had' /\ TailIsCoherent' /\ NothingIsHidden'
    BY <1>1, NobodyReads DEF IInv
  <1>10. QED
    BY <1>1, <1>3, <1>4, <1>5, <1>6, <1>7, <1>8, <1>9 DEF IInv

---------------------------------------------------------------------------
(* Tracer::end, the next run, and what others do to memory.                 *)

LEMMA DisableKeeps == ASSUME IInv, Disable PROVE IInv'
  <1>1. /\ enabled' = FALSE
        /\ UNCHANGED <<hot, cold, live, mem, registered, exiting, pc, arming, held, call, reader, run,
                       ticks, gone, ofRun, armedFor>>
    BY DEF Disable
  <1>2. TypeOK'
    <2>1. TypeOK /\ pc' \in [owner : OwnerPlaces, ender : EnderPlaces]
      BY <1>1, Places DEF IInv
    <2>2. QED
      BY <2>1, <1>1 DEF TypeOK, OwnerPlaces, EnderPlaces
  <1>3. Mutex' /\ Called' /\ Armed' /\ Owned' /\ Contents'
    <2>1. Mutex'
      BY <1>1 DEF IInv, Mutex, Reading, Ending
    <2>2. Called' /\ Owned'
      BY <1>1 DEF IInv, Called, Owned
    <2>3. Armed'
      BY <1>1 DEF IInv, Armed, Settled, Even, InBuffer
    <2>4. Contents'
      BY <1>1 DEF IInv, Contents, Even, HotRange, TickAt, Top
    <2>5. QED
      BY <2>1, <2>2, <2>3, <2>4
  <1>4. Gentle
    <2>1. ticks \in Nat
      BY Typed DEF IInv
    <2>2. QED
      BY <2>1, <1>1, QuietGentle
  <1>5. QED
    BY <1>1, <1>2, <1>3, <1>4, GentleKeeps DEF IInv

LEMMA BeginFlushKeeps == ASSUME IInv, BeginFlush PROVE IInv'
  <1>1. /\ ~enabled /\ pc.ender = "off" /\ ~Pushing /\ ~Reading
        /\ Goto("ender", IF registered THEN "commit" ELSE "flushed")
        /\ UNCHANGED <<hot, cold, live, mem, registered, exiting, arming, held, call, reader, run,
                       enabled, ticks, gone, ofRun, armedFor>>
    BY DEF BeginFlush, MayEnd, Reading, IInv
  <1>2. /\ pc' \in [owner : OwnerPlaces, ender : EnderPlaces] /\ pc'.owner = pc.owner
        /\ pc'.ender = IF registered THEN "commit" ELSE "flushed"
    <2>1. (IF registered THEN "commit" ELSE "flushed") \in EnderPlaces
      BY DEF EnderPlaces
    <2>2. QED
      BY <2>1, <1>1, EnderGoes
  <1>3. registered => pc.owner \in {"idle", "entered"}
    <2>1. registered => ~exiting
      BY DEF IInv, Mutex
    <2>2. registered => pc.owner \notin {"commit", "push", "exited"}
      BY <2>1 DEF IInv, Mutex
    <2>3. pc.owner \in OwnerPlaces
      BY Places
    <2>4. QED
      BY <2>1, <2>2, <2>3, <1>1 DEF Pushing, OwnerPlaces
  <1>4. TypeOK'
    <2>1. TypeOK
      BY DEF IInv
    <2>2. QED
      BY <2>1, <1>1, <1>2 DEF TypeOK, OwnerPlaces, EnderPlaces
  <1>5. Mutex'
    BY <1>1, <1>2, <1>3 DEF IInv, Mutex, Reading, Ending
  <1>6. Called'
    BY <1>1, <1>2 DEF IInv, Called, InCallback
  <1>7. Armed'
    BY <1>1, <1>2 DEF IInv, Armed, Settled, Renewing, Even, InBuffer, Actors
  <1>8. Owned'
    BY <1>1, <1>2 DEF IInv, Owned
  <1>9. Contents'
    BY <1>1, <1>2 DEF IInv, Contents, Even, HotRange, TickAt, Top, InCallback
  <1>10. View' /\ Had' /\ TailIsCoherent' /\ NothingIsHidden'
    BY <1>1, NobodyReads DEF IInv
  <1>11. QED
    BY <1>1, <1>4, <1>5, <1>6, <1>7, <1>8, <1>9, <1>10 DEF IInv

LEMMA NextRunKeeps == ASSUME IInv, NextRun PROVE IInv'
  <1>1. /\ pc.ender = "flushed" /\ run < Runs /\ ~Reading /\ run' = run + 1 /\ enabled' = TRUE
        /\ UNCHANGED <<hot, cold, live, mem, registered, exiting, arming, held, call, reader, ticks, gone, ofRun, armedFor>>
    BY DEF NextRun, Reading
  <1>2. /\ pc' \in [owner : OwnerPlaces, ender : EnderPlaces] /\ pc'.owner = pc.owner /\ pc'.ender = "off"
    BY EnderGoes DEF NextRun, EnderPlaces
  <1>3. TypeOK'
    <2>1. TypeOK
      BY DEF IInv
    <2>2. run' \in 1..Runs
      BY <2>1, <1>1, Sizes DEF TypeOK
    <2>3. QED
      BY <2>1, <2>2, <1>1, <1>2 DEF TypeOK, OwnerPlaces, EnderPlaces
  <1>4. Mutex'
    BY <1>1, <1>2 DEF IInv, Mutex, Reading, Ending
  <1>5. Called'
    <2>1. run \in Nat /\ call.run \in Nat
      BY Typed DEF IInv
    <2>2. call.run <= run'
      BY <2>1, <1>1 DEF IInv, Called
    <2>3. QED
      BY <2>2, <1>1, <1>2 DEF IInv, Called
  <1>6. Armed'
    BY <1>1, <1>2 DEF IInv, Armed, Settled, Renewing, Even, InBuffer, Actors
  <1>7. Owned'
    BY <1>1, <1>2 DEF IInv, Owned
  <1>8. Contents'
    BY <1>1, <1>2 DEF IInv, Contents, Even, HotRange, TickAt, Top, InCallback
  <1>9. View' /\ Had' /\ TailIsCoherent' /\ NothingIsHidden'
    BY <1>1, NobodyReads DEF IInv
  <1>10. QED
    BY <1>1, <1>3, <1>4, <1>5, <1>6, <1>7, <1>8, <1>9 DEF IInv

\* The recorder evicts the batch Hot describes only while its owner has pushed it and
\* has yet to arm the next.
LEMMA EvictsArmed ==
  ASSUME IInv, NEW b \in live \ {cold.buf, held.owner.buf, held.ender.buf}, hot.end = End(b)
  PROVE  pc.owner \in {"renew", "arm"} /\ ~exiting /\ cold.producer # 0
  <1>1. b \in 1..Buffers /\ cold.buf \in 0..Buffers /\ \A p \in Actors : held[p].buf \in 0..Buffers
    <2>1. live \in SUBSET (1..Buffers)
      BY DEF IInv, TypeOK
    <2>2. QED
      BY <2>1, Typed DEF IInv
  <1>2. End(b) \in Nat /\ End(b) # 0 /\ End(b) # End(0)
    <2>1. End(0) = BatchN
      BY NoBuffer, Sizes DEF End
    <2>2. QED
      BY <2>1, <1>1, BufferFacts, Sizes
  <1>3. \A c \in 0..Buffers : hot.end = End(c) => c = b
    <2>1. ASSUME NEW c \in 0..Buffers, hot.end = End(c) PROVE c = b
      <3>1. c # 0
        BY <2>1, <1>2
      <3>2. c \in 1..Buffers
        BY <3>1, Sizes
      <3>3. QED
        BY <3>2, <2>1, <1>1, EndsDiffer
    <2>2. QED
      BY <2>1
  <1>4. \A p \in Actors : hot.end \notin {End(cold.buf), End(held[p].buf)}
    BY <1>1, <1>3 DEF Actors
  <1>5. ~Settled
    BY <1>2, <1>4 DEF IInv, Armed, InBuffer, Actors
  <1>6. pc.ender \notin {"renew", "arm"} /\ (exiting => pc.owner \notin {"renew", "arm"})
    BY <1>4 DEF IInv, Armed, Actors
  <1>7. pc.owner \notin {"register", "init"}
    BY <1>2 DEF IInv, Owned
  <1>8. pc.owner \in {"renew", "arm"} /\ ~exiting
    BY <1>5, <1>6, <1>7 DEF Settled, Renewing
  <1>9. cold.producer # 0
    BY <1>8 DEF IInv, Armed, Actors
  <1>10. QED
    BY <1>8, <1>9

LEMMA EvictKeeps == ASSUME IInv, Evict PROVE IInv'
  <1>1. PICK b \in live \ {cold.buf, held.owner.buf, held.ender.buf} :
          live' = live \ {b} /\ armedFor' = IF hot.end = End(b) THEN 0 ELSE armedFor
    BY DEF Evict
  <1>2. /\ ~Reading
        /\ UNCHANGED <<hot, cold, mem, registered, exiting, pc, arming, held, call, reader, run,
                       enabled, ticks, gone, ofRun>>
    BY DEF Evict, Reading
  \* What the batch Hot describes was armed for is forgotten, or nothing is.
  <1>3. \/ armedFor' = armedFor /\ hot.end # End(b)
        \/ armedFor' = 0 /\ pc.owner \in {"renew", "arm"} /\ ~exiting /\ cold.producer # 0
    BY <1>1, EvictsArmed
  <1>4. TypeOK'
    <2>1. TypeOK /\ pc' \in [owner : OwnerPlaces, ender : EnderPlaces]
      BY <1>2, Places DEF IInv
    <2>2. live' \in SUBSET (1..Buffers)
      BY <2>1, <1>1 DEF TypeOK
    <2>3. armedFor' \in 0..Runs
      <3>1. armedFor \in 0..Runs
        BY <2>1 DEF TypeOK
      <3>2. 0 \in 0..Runs
        BY Sizes
      <3>3. QED
        BY <3>1, <3>2, <1>3
    <2>4. QED
      BY <2>1, <2>2, <2>3, <1>2 DEF TypeOK, OwnerPlaces, EnderPlaces
  <1>5. Mutex'
    BY <1>2 DEF IInv, Mutex, Reading, Ending
  <1>6. Called'
    BY <1>2 DEF IInv, Called
  <1>7. Armed'
    <2>1. armedFor' <= cold.producer /\ (armedFor' # cold.producer => pc.owner \in Renewing /\ ~exiting)
      <3>1. cold.producer \in Nat
        BY Typed DEF IInv
      <3>2. armedFor <= cold.producer /\ (armedFor # cold.producer => pc.owner \in Renewing /\ ~exiting)
        BY DEF IInv, Armed
      <3>3. QED
        BY <3>1, <3>2, <1>3 DEF Renewing
    <2>2. pc.owner \in {"register", "init"} => hot.queue = armedFor' /\ armedFor' < cold.producer
      BY <1>3 DEF IInv, Armed
    <2>3. QED
      BY <2>1, <2>2, <1>2 DEF IInv, Armed, Settled, Even, InBuffer
  <1>8. Owned'
    <2>1. \A p \in Actors : held[p] = NoBatch \/ held[p].buf \in live'
      BY <1>1 DEF IInv, Owned, Actors
    <2>2. hot.end # 0 /\ armedFor' = cold.producer /\ pc.owner # "exited" => \E c \in live' : hot.end = End(c)
      BY <1>1, <1>3 DEF IInv, Owned
    <2>3. cold.buf # 0 /\ pc.owner # "exited" => cold.buf \in live'
      BY <1>1 DEF IInv, Owned
    <2>4. QED
      BY <2>1, <2>2, <2>3, <1>1, <1>2 DEF IInv, Owned
  <1>9. Contents'
    <2>1. HotRange' = HotRange /\ (\A a : TickAt(a)' = TickAt(a)) /\ (Even' <=> Even) /\ Top' = Top
      BY <1>2 DEF HotRange, TickAt, Even, Top
    <2>2. QED
      BY <2>1, <1>2, <1>3 DEF IInv, Contents
  <1>10. View' /\ Had' /\ TailIsCoherent' /\ NothingIsHidden'
    BY <1>2, NobodyReads DEF IInv
  <1>11. QED
    BY <1>2, <1>4, <1>5, <1>6, <1>7, <1>8, <1>9, <1>10 DEF IInv

\* A slot is in one buffer only.
LEMMA SlotsApart ==
  ASSUME NEW b \in 1..Buffers, NEW c \in 1..Buffers, b # c, NEW a \in Start(c)..(End(c) - 1)
  PROVE  a \notin Start(b)..(End(b) - 1)
  <1>1. /\ Start(b) \in Nat /\ End(b) \in Nat /\ Start(c) \in Nat /\ End(c) \in Nat
    BY BufferFacts
  <1>2. QED
    BY <1>1, BuffersApart

LEMMA OverwriteKeeps == ASSUME IInv, Overwrite PROVE IInv'
  <1>1. PICK b \in 1..Buffers \ live :
          mem' = [a \in Slots |-> IF a \in Start(b)..(End(b) - 1) THEN Foreign ELSE mem[a]]
    BY DEF Overwrite
  <1>2. UNCHANGED <<hot, cold, live, registered, exiting, pc, arming, held, call, reader, run,
                   enabled, ticks, gone, ofRun, armedFor>>
    BY DEF Overwrite
  <1>3. /\ live \in SUBSET (1..Buffers) /\ mem \in [Slots -> Events] /\ Foreign \in Events
    <2>1. live \in SUBSET (1..Buffers)
      BY DEF IInv, TypeOK
    <2>2. mem \in [Slots -> Events]
      BY DEF IInv, TypeOK
    <2>3. Foreign \in Events
      <3>1. 0 \in -MaxTicks..MaxTicks /\ 0 \in 0..MaxTicks
        BY Sizes
      <3>2. QED
        BY <3>1 DEF Events, Foreign
    <2>4. QED
      BY <2>1, <2>2, <2>3
  \* A batch that is allocated stays as it is.
  <1>4. ASSUME NEW c \in live, NEW a \in Start(c)..(End(c) - 1) PROVE mem'[a] = mem[a]
    <2>1. c \in 1..Buffers /\ c # b
      BY <1>1, <1>3
    <2>2. a \in Slots
      BY <2>1, BufferFacts
    <2>3. a \notin Start(b)..(End(b) - 1)
      BY <2>1, SlotsApart
    <2>4. QED
      BY <2>2, <2>3, <1>1
  <1>5. ASSUME Even, hot.end # 0, armedFor = cold.producer, pc.owner # "exited", NEW a \in HotRange
        PROVE  mem'[a] = mem[a]
    <2>1. PICK c \in live : hot.end = End(c)
      BY <1>5 DEF IInv, Owned
    <2>2. c \in 1..Buffers /\ End(c) \in Nat /\ End(c) = Start(c) + BatchN /\ Start(c) \in Nat
      BY <2>1, <1>3, BufferFacts
    <2>3. hot.cursor \in Nat /\ hot.cursor <= hot.end
      BY <1>5, HotBatch
    <2>4. a \in Start(c)..(End(c) - 1)
      BY <2>1, <2>2, <2>3, <1>5, Sizes DEF HotRange
    <2>5. QED
      BY <2>1, <2>4, <1>4
  <1>6. TypeOK'
    <2>1. mem' \in [Slots -> Events]
      BY <1>1, <1>3
    <2>2. TypeOK /\ pc' \in [owner : OwnerPlaces, ender : EnderPlaces]
      BY <1>2, Places DEF IInv
    <2>3. QED
      BY <2>1, <2>2, <1>2 DEF TypeOK, OwnerPlaces, EnderPlaces
  <1>7. Mutex'
    BY <1>2 DEF IInv, Mutex, Reading, Ending
  <1>8. Called'
    <2>1. pc.owner = "written" => mem'[call.at] = mem[call.at]
      <3>1. SUFFICES ASSUME pc.owner = "written" PROVE mem'[call.at] = mem[call.at]
        OBVIOUS
      <3>2. ~exiting
        BY <3>1 DEF IInv, Mutex
      <3>3. ~Ending /\ call.run \in 1..Runs
        BY <3>1, <3>2, PushAlone DEF InCallback
      <3>4. Settled
        BY <3>1, <3>3 DEF Settled, Renewing, Ending
      <3>5. call.at = hot.cursor /\ call.at < hot.end /\ hot.queue = call.run
        BY <3>1 DEF IInv, Called
      <3>6. cold.buf # 0
        BY <3>3, <3>4, <3>5 DEF IInv, Armed
      <3>7. /\ hot.end = End(cold.buf) /\ hot.cursor \in Start(cold.buf)..End(cold.buf)
            /\ Start(cold.buf) \in Nat /\ End(cold.buf) \in Nat
        BY <3>4, <3>6, SettledBatch
      <3>8. hot.cursor \in Start(cold.buf)..(End(cold.buf) - 1) /\ cold.buf \in live
        BY <3>1, <3>5, <3>6, <3>7 DEF IInv, Owned
      <3>9. QED
        BY <3>5, <3>8, <1>4
    <2>2. QED
      BY <2>1, <1>2 DEF IInv, Called
  <1>9. Armed'
    BY <1>2 DEF IInv, Armed, Settled, Even, InBuffer
  <1>10. Owned'
    BY <1>2 DEF IInv, Owned
  <1>11. Contents'
    <2>1. HotRange' = HotRange /\ (Even' <=> Even) /\ Top' = Top
      BY <1>2 DEF HotRange, Even, Top
    <2>2. ASSUME hot.end # 0, Even, pc.owner # "exited", NEW a \in HotRange
          PROVE  /\ TickAt(a)' \in 1..ticks /\ (armedFor # 0 => ofRun[TickAt(a)'] = armedFor)
                 /\ armedFor = cold.producer =>
                      TickAt(a)' = mem'[a].code /\ mem'[a].code = Top + 1 - (hot.cursor - a)
      <3>1. /\ TickAt(a) \in 1..ticks /\ (armedFor # 0 => ofRun[TickAt(a)] = armedFor)
            /\ armedFor = cold.producer =>
                 TickAt(a) = mem[a].code /\ mem[a].code = Top + 1 - (hot.cursor - a)
        BY <2>2 DEF IInv, Contents
      <3>2. CASE armedFor = cold.producer
        <4>1. mem'[a] = mem[a]
          BY <3>2, <2>2, <1>5
        <4>2. TickAt(a)' = TickAt(a)
          BY <4>1, <1>2 DEF TickAt
        <4>3. QED
          BY <3>1, <4>1, <4>2
      <3>3. CASE armedFor # cold.producer
        <4>1. a \in Slots
          BY <2>2, HotBatch
        <4>2. mem'[a] = mem[a] \/ mem'[a] = Foreign
          BY <4>1, <1>1
        <4>3. hot.base \in 1..ticks /\ (armedFor # 0 => ofRun[hot.base] = armedFor)
          BY <2>2 DEF IInv, Contents
        <4>4. TickAt(a)' = TickAt(a) \/ TickAt(a)' = hot.base
          <5>1. ticks \in Nat
            BY Typed DEF IInv
          <5>2. hot.base + 0 = hot.base
            BY <4>3, <5>1
          <5>3. QED
            BY <4>2, <5>2, <1>2 DEF TickAt, Foreign
        <4>5. QED
          BY <3>1, <3>3, <4>3, <4>4
      <3>4. QED
        BY <3>2, <3>3
    <2>3. pc.owner = "renew" /\ ~exiting /\ armedFor = cold.producer /\ hot.end # 0 =>
            \A a \in HotRange : TickAt(a)' \in gone
      <3>1. SUFFICES ASSUME pc.owner = "renew", ~exiting, armedFor = cold.producer, hot.end # 0, NEW a \in HotRange
                     PROVE  TickAt(a)' \in gone
        OBVIOUS
      <3>2. ~Ending
        BY <3>1, PushAlone DEF InCallback
      <3>3. Even
        BY <3>1, <3>2 DEF IInv, Armed, Ending
      <3>4. mem'[a] = mem[a]
        BY <3>1, <3>3, <1>5
      <3>5. TickAt(a)' = TickAt(a)
        BY <3>4, <1>2 DEF TickAt
      <3>6. TickAt(a) \in gone
        BY <3>1 DEF IInv, Contents
      <3>7. QED
        BY <3>5, <3>6
    <2>4. ASSUME NEW p \in Actors, NEW a \in Start(held[p].buf)..(Start(held[p].buf) + held[p].len - 1)
          PROVE  held[p].base + mem'[a].delta \in 1..ticks
      <3>1. held[p] # NoBatch
        BY <2>4, NothingHeld
      <3>2. held[p].buf \in live
        BY <3>1 DEF IInv, Owned
      <3>3. held[p].len \in 0..BatchN
        BY DEF IInv, TypeOK
      <3>4. held[p].buf \in 1..Buffers
        BY <3>2, <1>3
      <3>5. Start(held[p].buf) \in Nat /\ End(held[p].buf) = Start(held[p].buf) + BatchN
        BY <3>4, BufferFacts
      <3>6. a \in Start(held[p].buf)..(End(held[p].buf) - 1)
        BY <3>3, <3>5, <2>4, Sizes
      <3>7. mem'[a] = mem[a]
        BY <3>2, <3>6, <1>4
      <3>8. QED
        BY <3>7, <2>4 DEF IInv, Contents
    <2>5. QED
      BY <2>1, <2>2, <2>3, <2>4, <1>2 DEF IInv, Contents
  <1>12. View' /\ Had' /\ TailIsCoherent' /\ NothingIsHidden'
    <2>1. CASE Reading
      <3>1. hot.epoch \in Nat /\ hot.cursor \in Nat /\ ticks \in Nat
        BY Typed DEF IInv
      <3>2. pc.owner # "exited"
        BY <2>1, ReadUnderWay
      <3>3. ASSUME Even, hot.end # 0, armedFor = cold.producer, NEW a \in HotRange PROVE mem'[a] = mem[a]
        BY <3>2, <3>3, <1>5
      <3>4. Gentle
        BY <3>1, <3>3, <1>2 DEF Gentle
      <3>5. QED
        BY <3>4, <1>6, GentleKeeps
    <2>2. CASE ~Reading
      BY <2>2, <1>2, NobodyReads DEF IInv
    <2>3. QED
      BY <2>1, <2>2
  <1>13. QED
    BY <1>2, <1>6, <1>7, <1>8, <1>9, <1>10, <1>11, <1>12 DEF IInv

---------------------------------------------------------------------------
(* What holds.                                                              *)

LEMMA NextKeeps == IInv /\ [Next]_vars => IInv'
  <1> SUFFICES ASSUME IInv, [Next]_vars PROVE IInv'
    OBVIOUS
  <1>1. CASE Owner
    BY <1>1, EnterCallbackKeeps, LookKeeps, WriteSlotKeeps, StoreCursorKeeps, InitProducerKeeps, RegisterCurrentKeeps,
       StoreQueueIdKeeps, CommitAndTakeKeeps, ShipKeeps, SlowWriteKeeps, ExitKeeps DEF Owner
  <1>2. CASE Ender
    BY <1>2, DisableKeeps, BeginFlushKeeps, NextRunKeeps DEF Ender
  <1>3. ASSUME NEW p \in Actors, Flush(p) PROVE IInv'
    BY <1>3, FlushCommitKeeps, ArmOfKeeps, FlushPushKeeps DEF Flush
  <1>4. CASE Evict
    BY <1>4, EvictKeeps
  <1>5. CASE Overwrite
    BY <1>5, OverwriteKeeps
  <1>6. CASE Reader
    BY <1>6, ReaderKeeps
  <1>7. CASE UNCHANGED vars
    <2>1. TypeOK'
      <3>1. TypeOK /\ pc' \in [owner : OwnerPlaces, ender : EnderPlaces]
        BY <1>7, Places DEF IInv, vars
      <3>2. QED
        BY <3>1, <1>7 DEF vars, TypeOK, OwnerPlaces, EnderPlaces
    <2>2. Mutex' /\ Called' /\ Owned'
      BY <1>7 DEF vars, IInv, Mutex, Called, Owned, Reading, Ending
    <2>3. Armed'
      BY <1>7 DEF vars, IInv, Armed, Settled, Even, InBuffer
    <2>4. Contents'
      BY <1>7 DEF vars, IInv, Contents, Even, HotRange, TickAt, Top
    <2>5. Gentle
      <3>1. ticks \in Nat
        BY Typed DEF IInv
      <3>2. QED
        BY <3>1, <1>7, QuietGentle DEF vars
    <2>6. QED
      BY <2>1, <2>2, <2>3, <2>4, <2>5, GentleKeeps DEF IInv
  <1>8. QED
    BY <1>1, <1>2, <1>3, <1>4, <1>5, <1>6, <1>7 DEF Next, Terminated

\* Whoever measures a batch finds Hot armed for it.
LEMMA Measured == IInv => ArmedForItsBatch
  <1> SUFFICES ASSUME IInv, pc.owner = "commit" \/ pc.ender = "commit" \/ (pc.owner = "slow" /\ cold.producer = call.run)
               PROVE  hot.end = End(cold.buf) /\ hot.cursor \in Start(cold.buf)..End(cold.buf)
    BY DEF ArmedForItsBatch
  <1>1. CASE pc.owner = "commit"
    <2>1. exiting /\ cold.buf # 0
      BY <1>1 DEF IInv, Mutex
    <2>2. Settled
      BY <1>1, <2>1, ExitAlone DEF Settled, Renewing, Ending
    <2>3. QED
      BY <2>1, <2>2, SettledBatch
  <1>2. CASE pc.ender = "commit"
    <2>1. Ending
      BY <1>2 DEF Ending
    <2>2. pc.owner \in {"idle", "entered"} /\ cold.buf # 0
      BY <2>1 DEF IInv, Mutex
    <2>3. Settled
      BY <1>2, <2>2 DEF Settled, Renewing
    <2>4. QED
      BY <2>2, <2>3, SettledBatch
  <1>3. CASE pc.owner = "slow" /\ cold.producer = call.run
    <2>1. ~exiting
      BY <1>3 DEF IInv, Mutex
    <2>2. ~Ending /\ call.run \in 1..Runs
      BY <1>3, <2>1, PushAlone DEF InCallback
    <2>3. Settled
      BY <1>3, <2>2 DEF Settled, Renewing, Ending
    <2>4. cold.buf # 0
      BY <1>3, <2>2 DEF IInv, Armed
    <2>5. QED
      BY <2>3, <2>4, SettledBatch
  <1>4. QED
    BY <1>1, <1>2, <1>3

\* The inductive invariant holds of every behaviour in which callbacks and Tracer::end
\* exclude each other, whichever batch the recorder evicts.
THEOREM Inductive == Spec /\ Gil => []IInv
  <1>1. Init /\ Gil => IInv
    BY InitInvariant
  <1>2. IInv /\ [Next]_vars => IInv'
    BY NextKeeps
  <1>3. QED
    BY <1>1, <1>2, PTL DEF Spec

\* The words of Hot and Cold, the slots and what the reader holds keep their types:
\* every delta fits its word, every length is within the batch.
THEOREM TypeCorrect == Spec /\ Gil => []TypeOK
  <1>1. IInv => TypeOK
    BY DEF IInv
  <1>2. QED
    BY <1>1, Inductive, PTL

\* commit finds Hot armed for the batch it measures, whoever calls it and whatever was
\* flushed, evicted or renewed before (the debug assertions at tls.rs:59-66).
THEOREM BatchesAreArmed == Spec /\ Gil => []ArmedForItsBatch
  BY Measured, Inductive, PTL

\* A tail the recorder reads is a run of consecutive events of one batch of its own run,
\* each decoded with the base it was written against, but where the batch Hot described
\* was freed before the read looked at queue_id: of all that a push, a flush, an exit or
\* the next run does under a read, the epoch lets nothing else through.
THEOREM TailsAreCoherent == Spec /\ Gil => []TailIsCoherent
  <1>1. IInv => TailIsCoherent
    BY DEF IInv
  <1>2. QED
    BY <1>1, Inductive, PTL

\* An event that only the batch held when read_tail began is in its tail or has gone into
\* the ring by the time it returns, also when it returns nothing.
THEOREM ReadsHideNothing == Spec /\ Gil => []NothingIsHidden
  <1>1. IInv => NothingIsHidden
    BY DEF IInv
  <1>2. QED
    BY <1>1, Inductive, PTL

\* read_tail loads slots of allocated memory only, with the same exception: nothing frees
\* a batch under a read that has found Hot armed for it.
THEOREM SlotsReadAreLive == Spec /\ Gil => []ReadsAreLive
  <1>1. IInv => ReadsAreLive
    BY DEF IInv, View, ReadsAreLive
  <1>2. QED
    BY <1>1, Inductive, PTL

\* A read that is about to look at queue_id, and will find its own run there, would be
\* orphaned only while the owner, inside a push of that run, has stored the queue_id or
\* shipped its batch and has yet to finish arming the next.
OrphansAreRenewals ==
    reader.pc = "queue" /\ hot.queue = run /\ armedFor # run =>
        pc.owner \in {"renew", "arm"} /\ ~exiting /\ cold.producer = run

\* The exception of the two theorems above is that window and nothing else: no flush, no
\* exit and no finished push leaves Hot naming a batch that is gone while a read goes on.
THEOREM OrphansOnlyWhileRenewing == Spec /\ Gil => []OrphansAreRenewals
  <1>1. IInv => OrphansAreRenewals
    <2> SUFFICES ASSUME IInv, reader.pc = "queue", hot.queue = run, armedFor # run
                 PROVE  pc.owner \in {"renew", "arm"} /\ ~exiting /\ cold.producer = run
      BY DEF OrphansAreRenewals
    <2>1. ~Ending /\ ~exiting
      BY ReadUnderWay DEF Reading
    <2>2. pc.owner \notin {"register", "init"}
      BY DEF IInv, Armed
    <2>3. ~Settled
      <3>1. SUFFICES ASSUME Settled PROVE FALSE
        OBVIOUS
      <3>2. hot.queue = cold.producer
        BY <3>1 DEF IInv, Armed
      <3>3. armedFor = cold.producer
        BY <3>1 DEF IInv, Armed, Settled
      <3>4. QED
        BY <3>2, <3>3
    <2>4. pc.owner \in {"renew", "arm"}
      BY <2>1, <2>2, <2>3 DEF Settled, Renewing, Ending
    <2>5. hot.queue = cold.producer
      BY <2>4 DEF IInv, Armed, Actors
    <2>6. QED
      BY <2>1, <2>4, <2>5
  <1>2. QED
    BY <1>1, Inductive, PTL

=============================================================================
