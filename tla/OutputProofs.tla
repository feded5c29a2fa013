---------------------------- MODULE OutputProofs ----------------------------
(***************************************************************************)
(* What is proved of Output and of the packing it rests on, for every      *)
(* number of processes, batches and runs: that words and sequences give    *)
(* back what was packed, who holds the lock, and what stands in the files. *)
(* Of the exporters it is proved that what they hand over is a sequence of *)
(* entries (by induction over the batch), for JSON of which types, and     *)
(* that a reader of the file gets every process' events back; of pprof,    *)
(* that a profile holds the time spent in each stack.                      *)
(***************************************************************************)
EXTENDS Output, SequenceLemmas, FiniteSetTheorems

---------------------------------------------------------------------------
(* Packing and slots.                                                       *)

LEMMA Division ==
  ASSUME NEW m \in Nat \ {0}, NEW low \in 0 .. (m - 1), NEW high \in Kinds
  PROVE  /\ low % m = low
         /\ (high * m + low) % m = low
         /\ (high * m + low) \div m = high
  <1>1. high \in {1, 2, 3, 4, 5, 6}
    BY DEF Kinds
  <1>2. low % m = low
    BY SMT
  <1>3. (high * m + low) % m = low
    BY <1>1, SMT
  <1>4. (high * m + low) \div m = high
    BY <1>1, SMT
  <1>5. QED
    BY <1>2, <1>3, <1>4

LEMMA CodeIds24 == CodeIdMax + 1 \in Nat \ {0} /\ (CodeIdMax + 1) - 1 = CodeIdMax
  BY SMT DEF CodeIdMax

\* An event's word gives back the code id and the kind that were packed into it
\* (PackedEvent::new, code_id, kind), for every id the interner may give.
THEOREM PackingIsExact ==
  ASSUME NEW code \in 0 .. CodeIdMax, NEW kind \in Kinds
  PROVE  /\ CodeIdOf(PackCodeKind(code, kind)) = code
         /\ KindOf(PackCodeKind(code, kind)) = kind
  <1> DEFINE m == CodeIdMax + 1
  <1>1. m \in Nat \ {0} /\ m - 1 = CodeIdMax
    BY CodeIds24
  <1> HIDE DEF m
  <1>2. code \in 0 .. (m - 1)
    BY <1>1
  <1>3. code % m = code /\ (kind * m + code) % m = code /\ (kind * m + code) \div m = kind
    BY <1>1, <1>2, Division
  <1>4. PackCodeKind(code, kind) = kind * m + code
    BY <1>3 DEF PackCodeKind, m
  <1>5. CodeIdOf(PackCodeKind(code, kind)) = code
    BY <1>3, <1>4 DEF CodeIdOf, m
  <1>6. PackCodeKind(code, kind) \div (CodeIdMax + 1) = kind
    BY <1>3, <1>4 DEF m
  <1>7. QED
    BY <1>5, <1>6 DEF KindOf, FromU8

LEMMA SlotsApart ==
  ASSUME NEW p \in Nat, NEW q \in Nat, p < q
  PROVE  p * SequencesPerSlot + SequencesPerSlot <= q * SequencesPerSlot
  <1>1. SequencesPerSlot \in Nat
    BY SlotAssumption
  <1>2. PICK n \in Nat : q = p + 1 + n
    <2>1. q - p - 1 \in Nat /\ q = p + 1 + (q - p - 1)
      OBVIOUS
    <2>2. QED
      BY <2>1
  <1>3. q * SequencesPerSlot = p * SequencesPerSlot + SequencesPerSlot + n * SequencesPerSlot
    BY <1>1, <1>2
  <1>4. n * SequencesPerSlot \in Nat /\ p * SequencesPerSlot \in Nat /\ q * SequencesPerSlot \in Nat
    BY <1>1
  <1>5. QED
    BY <1>1, <1>3, <1>4

\* The sequences a process writes packets in.
SequencesOf(slot) == {ProcessSequenceId(slot)} \cup {SequenceId(slot, index) : index \in 0 .. (SequencesPerSlot - 2)}

\* While no process has more threads than its slot has room for, which only a
\* debug_assert of ProtoExporter checks, no two processes share a sequence: a
\* reader never takes one's names or track for another's.
THEOREM SequencesApart ==
  ASSUME NEW p \in Procs, NEW q \in Procs, p # q
  PROVE  SequencesOf(Slot(p)) \cap SequencesOf(Slot(q)) = {}
  <1>1. Slot(p) \in Nat /\ Slot(q) \in Nat /\ Slot(p) # Slot(q)
    BY OutputAssumption DEF Slot, Procs
  <1>2. \A s \in Nat : \A id \in SequencesOf(s) :
          /\ id \in Nat
          /\ s * SequencesPerSlot < id /\ id <= s * SequencesPerSlot + SequencesPerSlot
    <2> TAKE s \in Nat
    <2>1. s * SequencesPerSlot \in Nat /\ SequencesPerSlot \in Nat /\ SequencesPerSlot >= 2
      BY SlotAssumption
    <2>2. QED
      BY <2>1 DEF SequencesOf, SequenceId, ProcessSequenceId
  <1>3. \A s \in Nat : s * SequencesPerSlot \in Nat
    BY SlotAssumption
  <1>4. CASE Slot(p) < Slot(q)
    BY <1>1, <1>2, <1>3, <1>4, SlotsApart, SlotAssumption
  <1>5. CASE Slot(q) < Slot(p)
    BY <1>1, <1>2, <1>3, <1>5, SlotsApart, SlotAssumption
  <1>6. QED
    BY <1>1, <1>4, <1>5

---------------------------------------------------------------------------
(* The lock of a file.                                                      *)

PCs == {"unborn", "start", "idle", "commit", "write", "closed", "failed", "dead"}

Shape ==
    /\ format \in Formats /\ runs \in 0 .. MaxRuns /\ batches \in 0 .. MaxBatches
    /\ faults \in 0 .. MaxFaults /\ unsettled \in BOOLEAN
    /\ pc \in [Procs -> PCs] /\ then \in [Procs -> {"idle", "closed", "failed"}]
    /\ lock \in [Procs -> Procs \cup {NoOne}] /\ opened \in [Procs -> SUBSET Procs]
    /\ DOMAIN pending = Procs

\* What is pending is pending for a commit.
Pending == \A p \in Procs : pending[p] # <<>> => pc[p] \in {"commit", "write"}

\* The processes that live have their own description open, and children the
\* root's, and nobody else.
Descriptions ==
    \A p \in Procs :
        /\ \A q \in opened[p] : pc[q] \notin {"unborn", "dead"}
        /\ \A q \in opened[p] : q = p \/ (p = Root /\ q \in Kids)
        /\ pc[p] \in {"idle", "commit", "write"} => p \in opened[p]

\* The lock of a file is its writer's, or was when that was killed.
Locked ==
    \A p \in Procs, path \in Procs : lock[path] = p =>
        path = Path(p) /\ (pc[p] = "write" \/ (pc[p] = "dead" /\ opened[p] # {}))

OneWriter == \A p \in Procs : pc[p] = "write" => lock[Path(p)] = p

IInv == Shape /\ Pending /\ Descriptions /\ Locked /\ OneWriter

LEMMA PathIsOne == \A p \in Procs : Path(p) \in Procs
  BY DEF Path, Procs

LEMMA TypesFollow ==
  ASSUME IInv
  PROVE  TypeOK
  BY DEF IInv, Shape, Pending, Descriptions, TypeOK, PCs, Alive

\* A process goes on outside of a write, and opens nothing and locks nothing.
LEMMA Outside ==
  ASSUME IInv, Shape', NEW p \in Procs, NEW to \in PCs \ {"unborn", "write", "dead"},
         pc' = [pc EXCEPT ![p] = to], pc[p] \notin {"write", "dead"},
         to \in {"idle", "commit"} => pc[p] \in {"idle", "commit"},
         format' = format, lock' = lock, opened' = opened,
         \A q \in Procs \ {p} : pending'[q] = pending[q], pending'[p] # <<>> => to = "commit"
  PROVE  IInv'
  <1> USE DEF IInv, Shape
  <1>1. Pending'
    BY DEF Pending
  <1>2. Descriptions'
    BY DEF Descriptions
  <1>3. Locked'
    BY DEF Locked, Path
  <1>4. OneWriter'
    BY DEF OneWriter, Path
  <1>5. QED
    BY <1>1, <1>2, <1>3, <1>4

\* A process is done with its commit.
LEMMA Leaves ==
  ASSUME IInv, Shape', NEW p \in Procs, NEW to \in {"idle", "closed", "failed"},
         pc[p] \in {"commit", "write"}, pc' = [pc EXCEPT ![p] = to], format' = format,
         Unlock(p) \/ (pc[p] = "commit" /\ lock' = lock),
         opened' = IF to # "idle" THEN [opened EXCEPT ![p] = @ \ {p}] ELSE opened,
         \A q \in Procs \ {p} : pending'[q] = pending[q], pending'[p] = <<>>
  PROVE  IInv'
  <1> USE DEF IInv, Shape
  <1>1. Pending'
    BY DEF Pending
  <1>2. Descriptions'
    BY DEF Descriptions
  <1>3. Locked'
    <2>1. NoOne \notin Procs
      BY OutputAssumption
    <2>2. QED
      BY <2>1, PathIsOne DEF Locked, Path, Unlock
  <1>4. OneWriter'
    BY PathIsOne DEF OneWriter, Path, Unlock
  <1>5. QED
    BY <1>1, <1>2, <1>3, <1>4

LEMMA AdvertiseKeeps ==
  ASSUME IInv, Advertise
  PROVE  IInv'
  <1>1. Root \in Procs
    BY DEF Procs
  <1>2. Shape'
    BY <1>1, OutputAssumption DEF IInv, Shape, Advertise, PCs
  <1> USE <1>1, <1>2 DEF IInv, Shape, Advertise
  <1>3. Pending' /\ Descriptions'
    BY DEF Pending, Descriptions
  <1>4. Locked' /\ OneWriter'
    BY DEF Locked, OneWriter, Path
  <1>5. QED
    BY <1>3, <1>4

LEMMA LaunchKeeps ==
  ASSUME IInv, NEW c \in Kids, NEW forked \in BOOLEAN, Launch(c, forked)
  PROVE  IInv'
  <1>1. c \in Procs /\ Root \in Procs /\ c # Root
    BY OutputAssumption DEF Procs
  <1>2. unsettled' \in BOOLEAN
    BY Zenon DEF Launch
  <1>3. opened' \in [Procs -> SUBSET Procs] /\ pc' \in [Procs -> PCs]
    BY <1>1 DEF IInv, Shape, Launch, PCs
  <1>4. Shape'
    BY <1>2, <1>3 DEF IInv, Shape, Launch
  <1>5. /\ format' = format /\ lock' = lock /\ pending' = pending /\ pc[c] = "unborn"
        /\ pc' = [pc EXCEPT ![c] = "start"]
        /\ opened' = opened \/ opened' = [opened EXCEPT ![Root] = @ \cup {c}]
    BY DEF Launch
  <1> USE DEF IInv, Shape
  <1>6. Pending'
    BY <1>1, <1>5 DEF Pending
  <1>7. Descriptions'
    BY <1>1, <1>5 DEF Descriptions
  <1>8. Locked'
    BY <1>1, <1>5 DEF Locked, Path
  <1>9. OneWriter'
    BY <1>1, <1>5 DEF OneWriter, Path
  <1>10. QED
    BY <1>4, <1>6, <1>7, <1>8, <1>9

LEMMA NothingToCommit ==
  ASSUME NEW p, NEW entries, entries = <<>>
  PROVE  Items(p, entries) = <<>>
  BY DEF Items

LEMMA OpenKeeps ==
  ASSUME IInv, NEW p \in Procs, Open(p)
  PROVE  IInv'
  <1> DEFINE x == NewExporter(format, p)
             to == IF x.out = <<>> THEN "idle" ELSE "commit"
  <1>1. unsettled' \in BOOLEAN
    BY Zenon DEF Open
  <1>2. /\ format' = format /\ lock' = lock /\ runs' = runs /\ batches' = batches /\ faults' = faults
        /\ pc[p] = "start" /\ pc' = [pc EXCEPT ![p] = to] /\ opened' = [opened EXCEPT ![p] = {p}]
        /\ then' = [then EXCEPT ![p] = "idle"]
        /\ pending' = [pending EXCEPT ![p] = Items(p, x.out)]
    BY DEF Open
  <1>3. x.out = <<>> => Items(p, x.out) = <<>>
    BY NothingToCommit
  <1> HIDE DEF x
  <1>4. Shape'
    BY <1>1, <1>2 DEF IInv, Shape, PCs
  <1> USE DEF IInv, Shape
  <1>5. Pending'
    BY <1>2, <1>3 DEF Pending
  <1>6. Descriptions'
    BY <1>2 DEF Descriptions
  <1>7. Locked'
    BY <1>2 DEF Locked, Path
  <1>8. OneWriter'
    BY <1>2 DEF OneWriter, Path
  <1>9. QED
    BY <1>4, <1>5, <1>6, <1>7, <1>8

LEMMA WriteBatchKeeps ==
  ASSUME IInv, NEW p \in Procs, NEW b \in Batches, WriteBatch(p, b)
  PROVE  IInv'
  <1>1. PICK out :
          /\ pending' = [pending EXCEPT ![p] = Items(p, out)]
          /\ pc' = [pc EXCEPT ![p] = IF out = <<>> THEN "idle" ELSE "commit"]
    BY DEF WriteBatch
  <1>2. /\ format' = format /\ lock' = lock /\ opened' = opened /\ runs' = runs /\ faults' = faults
        /\ unsettled' = unsettled /\ pc[p] = "idle" /\ then' = [then EXCEPT ![p] = "idle"]
        /\ batches < MaxBatches /\ batches' = batches + 1
    BY DEF WriteBatch
  <1> DEFINE to == IF out = <<>> THEN "idle" ELSE "commit"
  <1>3. out = <<>> => Items(p, out) = <<>>
    BY NothingToCommit
  <1>4. Shape'
    BY <1>1, <1>2, OutputAssumption DEF IInv, Shape, PCs
  <1>5. to \in PCs \ {"unborn", "write", "dead"} /\ to \in {"idle", "commit"}
    BY DEF PCs
  <1>6. /\ \A q \in Procs \ {p} : pending'[q] = pending[q]
        /\ pending'[p] # <<>> => to = "commit"
    BY <1>1, <1>3 DEF IInv, Shape
  <1>7. QED
    BY <1>1, <1>2, <1>4, <1>5, <1>6, Outside

LEMMA FinishKeeps ==
  ASSUME IInv, NEW p \in Procs, NEW dropped \in Losses, Finish(p, dropped)
  PROVE  IInv'
  <1>1. PICK items : pending' = [pending EXCEPT ![p] = items]
    BY DEF Finish
  <1>2. /\ format' = format /\ lock' = lock /\ opened' = opened /\ runs' = runs /\ faults' = faults
        /\ batches' = batches /\ unsettled' = unsettled /\ pc[p] = "idle"
        /\ pc' = [pc EXCEPT ![p] = "commit"] /\ then' = [then EXCEPT ![p] = "closed"]
    BY DEF Finish
  <1>3. Shape' /\ \A q \in Procs \ {p} : pending'[q] = pending[q]
    BY <1>1, <1>2 DEF IInv, Shape, PCs
  <1>4. QED
    BY <1>2, <1>3, Outside DEF PCs

LEMMA CommitNothingKeeps ==
  ASSUME IInv, NEW p \in Procs, CommitNothing(p)
  PROVE  IInv'
  <1>1. then[p] \in {"idle", "closed", "failed"}
    BY DEF IInv, Shape
  <1>2. Shape'
    BY <1>1 DEF IInv, Shape, PCs, CommitNothing, Done
  <1>3. QED
    BY <1>1, <1>2, Leaves DEF CommitNothing, Done

LEMMA AcquireKeeps ==
  ASSUME IInv, NEW p \in Procs, Acquire(p)
  PROVE  IInv'
  <1>1. /\ format' = format /\ opened' = opened /\ pending' = pending /\ runs' = runs
        /\ then' = then /\ batches' = batches /\ faults' = faults /\ unsettled' = unsettled
        /\ pc[p] = "commit" /\ lock[Path(p)] = NoOne
        /\ lock' = [lock EXCEPT ![Path(p)] = p] /\ pc' = [pc EXCEPT ![p] = "write"]
    BY DEF Acquire
  <1>2. Path(p) \in Procs /\ NoOne \notin Procs
    BY PathIsOne, OutputAssumption
  <1>3. Shape'
    BY <1>1, <1>2 DEF IInv, Shape, PCs
  <1> USE DEF IInv, Shape
  <1>4. Pending' /\ Descriptions'
    BY <1>1 DEF Pending, Descriptions
  <1>5. Locked'
    BY <1>1, <1>2 DEF Locked, Path
  <1>6. OneWriter'
    BY <1>1, <1>2 DEF OneWriter, Path
  <1>7. QED
    BY <1>3, <1>4, <1>5, <1>6

LEMMA AcquireFailsKeeps ==
  ASSUME IInv, NEW p \in Procs, AcquireFails(p)
  PROVE  IInv'
  <1>1. /\ format' = format /\ lock' = lock /\ runs' = runs /\ batches' = batches
        /\ unsettled' = unsettled /\ pc[p] = "commit" /\ faults' \in 0 .. MaxFaults
        /\ then' = [then EXCEPT ![p] = "failed"]
    BY OutputAssumption DEF AcquireFails, Fault, IInv, Shape
  <1>2. CASE then[p] # "failed"
    <2>1. pc' = pc /\ opened' = opened /\ pending' = pending
      BY <1>2 DEF AcquireFails
    <2>2. Shape'
      BY <1>1, <2>1 DEF IInv, Shape
    <2>3. QED
      BY <1>1, <2>1, <2>2 DEF IInv, Pending, Descriptions, Locked, OneWriter, Path
  <1>3. CASE then[p] = "failed"
    <2>1. /\ pc' = [pc EXCEPT ![p] = "failed"] /\ opened' = [opened EXCEPT ![p] = @ \ {p}]
          /\ pending' = [pending EXCEPT ![p] = <<>>]
      BY <1>3 DEF AcquireFails, Done
    <2>2. Shape'
      BY <1>1, <2>1 DEF IInv, Shape, PCs
    <2>3. (\A q \in Procs \ {p} : pending'[q] = pending[q]) /\ pending'[p] = <<>>
      BY <2>1 DEF IInv, Shape
    <2>4. QED
      BY <1>1, <2>1, <2>2, <2>3, Leaves
  <1>4. QED
    BY <1>2, <1>3

LEMMA WritePartKeeps ==
  ASSUME IInv, NEW p \in Procs, NEW n, WritePart(p, n)
  PROVE  IInv'
  <1>1. PICK rest : pending' = [pending EXCEPT ![p] = rest]
    BY DEF WritePart
  <1>2. /\ format' = format /\ lock' = lock /\ opened' = opened /\ pc' = pc /\ then' = then
        /\ runs' = runs /\ batches' = batches /\ faults' = faults /\ unsettled' = unsettled
        /\ pc[p] = "write"
    BY DEF WritePart
  <1>3. Shape'
    BY <1>1, <1>2 DEF IInv, Shape
  <1>4. Pending'
    BY <1>1, <1>2 DEF IInv, Shape, Pending
  <1>5. QED
    BY <1>2, <1>3, <1>4 DEF IInv, Descriptions, Locked, OneWriter, Path

LEMMA WriteRestKeeps ==
  ASSUME IInv, NEW p \in Procs, WriteRest(p)
  PROVE  IInv'
  <1>1. then[p] \in {"idle", "closed", "failed"} /\ Path(p) \in Procs
    BY PathIsOne DEF IInv, Shape
  <1>2. /\ format' = format /\ then' = then /\ runs' = runs /\ batches' = batches
        /\ faults' = faults /\ unsettled' = unsettled /\ pc[p] = "write"
        /\ pending' = [pending EXCEPT ![p] = <<>>] /\ Unlock(p) /\ Done(p)
    BY DEF WriteRest
  <1>3. Shape'
    BY <1>1, <1>2 DEF IInv, Shape, PCs, Unlock, Done
  <1>4. (\A q \in Procs \ {p} : pending'[q] = pending[q]) /\ pending'[p] = <<>>
    BY <1>2 DEF IInv, Shape
  <1>5. QED
    BY <1>1, <1>2, <1>3, <1>4, Leaves DEF Done

LEMMA WriteFailsKeeps ==
  ASSUME IInv, NEW p \in Procs, WriteFails(p)
  PROVE  IInv'
  <1>1. /\ format' = format /\ then' = then /\ runs' = runs /\ batches' = batches
        /\ unsettled' = unsettled /\ pc[p] = "write" /\ Unlock(p) /\ faults' \in 0 .. MaxFaults
        /\ pending' = [pending EXCEPT ![p] = <<>>]
        /\ pc' = [pc EXCEPT ![p] = "failed"] /\ opened' = [opened EXCEPT ![p] = @ \ {p}]
    BY OutputAssumption DEF WriteFails, Fault, IInv, Shape
  <1>2. Shape'
    BY <1>1, PathIsOne DEF IInv, Shape, PCs, Unlock
  <1>3. (\A q \in Procs \ {p} : pending'[q] = pending[q]) /\ pending'[p] = <<>>
    BY <1>1 DEF IInv, Shape
  <1>4. QED
    BY <1>1, <1>2, <1>3, Leaves

LEMMA KillKeeps ==
  ASSUME IInv, NEW p \in Procs, Kill(p)
  PROVE  IInv'
  <1>1. /\ format' = format /\ then' = then /\ runs' = runs /\ batches' = batches
        /\ unsettled' = unsettled /\ faults' \in 0 .. MaxFaults
        /\ pc[p] \in {"start", "idle", "commit", "write"} /\ pc' = [pc EXCEPT ![p] = "dead"]
        /\ pending' = [pending EXCEPT ![p] = <<>>]
        /\ opened' = [q \in Procs |-> opened[q] \ {p}]
        /\ lock' = [path \in Procs |->
                      IF lock[path] # NoOne /\ opened'[lock[path]] = {} THEN NoOne ELSE lock[path]]
    BY OutputAssumption DEF Kill, Fault, IInv, Shape
  <1>2. Shape'
    BY <1>1 DEF IInv, Shape, PCs
  <1> USE OutputAssumption DEF IInv, Shape
  <1>3. Pending' /\ Descriptions'
    BY <1>1 DEF Pending, Descriptions
  <1>4. Locked'
    <2> SUFFICES ASSUME NEW q \in Procs, NEW path \in Procs, lock'[path] = q
                 PROVE  path = Path(q)' /\ (pc'[q] = "write" \/ (pc'[q] = "dead" /\ opened'[q] # {}))
      BY DEF Locked
    <2>1. lock[path] = q /\ opened'[q] # {} /\ Path(q)' = Path(q)
      BY <1>1 DEF Path
    <2>2. path = Path(q) /\ (pc[q] = "write" \/ (pc[q] = "dead" /\ opened[q] # {}))
      BY <2>1 DEF Locked
    <2>3. pc'[q] = "dead" \/ pc'[q] = pc[q]
      BY <1>1
    <2>4. QED
      BY <2>1, <2>2, <2>3
  <1>5. OneWriter'
    <2> SUFFICES ASSUME NEW q \in Procs, pc'[q] = "write" PROVE lock'[Path(q)'] = q
      BY DEF OneWriter
    <2>1. Path(q)' = Path(q) /\ Path(q) \in Procs /\ q # NoOne
      BY <1>1, PathIsOne DEF Path
    <2>2. q # p /\ pc[q] = "write" /\ lock[Path(q)] = q /\ q \in opened'[q]
      BY <1>1 DEF OneWriter, Descriptions
    <2>3. QED
      BY <1>1, <2>1, <2>2
  <1>6. QED
    BY <1>2, <1>3, <1>4, <1>5

LEMMA Invariant == Spec => []IInv
  <1>1. Init => IInv
    <2> SUFFICES ASSUME Init PROVE IInv
      OBVIOUS
    <2>1. Shape
      <3>1. /\ format \in Formats /\ runs \in 0 .. MaxRuns /\ batches \in 0 .. MaxBatches
            /\ faults \in 0 .. MaxFaults
        BY OutputAssumption DEF Init
      <3>2. unsettled \in BOOLEAN
        BY Zenon DEF Init
      <3>3. /\ pc \in [Procs -> PCs] /\ then \in [Procs -> {"idle", "closed", "failed"}]
            /\ lock \in [Procs -> Procs \cup {NoOne}] /\ opened \in [Procs -> SUBSET Procs]
            /\ DOMAIN pending = Procs
        BY DEF Init, PCs
      <3>4. QED
        BY <3>1, <3>2, <3>3 DEF Shape
    <2>2. Pending /\ Descriptions /\ Locked /\ OneWriter
      BY OutputAssumption DEF Init, Pending, Descriptions, Locked, OneWriter
    <2>3. QED
      BY <2>1, <2>2 DEF IInv
  <1>2. IInv /\ [Next]_vars => IInv'
    <2>1. IInv /\ UNCHANGED vars => IInv'
      BY DEF vars, IInv, Shape, Pending, Descriptions, Locked, OneWriter, Path
    <2>2. QED
      BY <2>1, AdvertiseKeeps, LaunchKeeps, OpenKeeps, WriteBatchKeeps, FinishKeeps,
         CommitNothingKeeps, AcquireKeeps, AcquireFailsKeeps, WritePartKeeps, WriteRestKeeps,
         WriteFailsKeeps, KillKeeps DEF Next
  <1>3. QED
    BY <1>1, <1>2, PTL DEF Spec

\* For any number of processes: only a process that lives has a description of
\* the file open, what a commit has to append is pending only during the commit,
\* and the lock is nobody's or a process'.
THEOREM TypeCorrect == Spec => []TypeOK
  BY Invariant, TypesFollow, PTL

\* For any number of processes, and wherever one is killed, fails to lock or to
\* write: only a process that was killed leaves its file locked, and only while
\* a child it forked lives (SharedFile::commit unlocks on every path).
THEOREM LockReleased == Spec => []LockIsReleased
  <1>1. ASSUME IInv PROVE LockIsReleased
    <2> SUFFICES ASSUME NEW p \in Procs, lock[Path(p)] = p, pc[p] # "write"
                 PROVE  pc[p] = "dead" /\ \E c \in Kids : c \in opened[p] /\ Alive(c)
      BY DEF LockIsReleased
    <2>1. pc[p] = "dead" /\ opened[p] # {}
      BY <1>1, PathIsOne DEF IInv, Locked
    <2>2. PICK c \in opened[p] : TRUE
      BY <2>1
    <2>3. pc[c] \notin {"unborn", "dead"} /\ (c = p \/ c \in Kids)
      BY <1>1 DEF IInv, Descriptions
    <2>4. QED
      BY <2>1, <2>2, <2>3 DEF Alive
  <1>2. QED
    BY <1>1, Invariant, PTL

\* No two processes are ever in the middle of appending to the same file.
THEOREM WritersExclude ==
  Spec => [](\A p, q \in Procs : pc[p] = "write" /\ pc[q] = "write" /\ Path(p) = Path(q) => p = q)
  <1>1. IInv => \A p, q \in Procs : pc[p] = "write" /\ pc[q] = "write" /\ Path(p) = Path(q) => p = q
    BY DEF IInv, OneWriter
  <1>2. QED
    BY <1>1, Invariant, PTL

---------------------------------------------------------------------------
(* What the exporters hand over is a sequence of entries.                   *)

Buffers(x) == "out" \in DOMAIN x /\ IsSequence(x.out)

LEMMA StartsWithSequence == \A f \in Formats, p \in Procs : Buffers(NewExporter(f, p))
  <1> TAKE f \in Formats, p \in Procs
  <1>1. f \in {"protobuf", "json", "pprof"}
    BY OutputAssumption
  <1>2. Buffers(NewProto(Slot(p), Pid(p)))
    BY SeqEmpty DEF Buffers, NewProto
  <1>3. Buffers(NewJson(Pid(p), p # Root))
    BY SeqEmpty, SeqOne DEF Buffers, NewJson
  <1>4. Buffers(NewPprof)
    BY SeqEmpty DEF Buffers, NewPprof
  <1>5. QED
    BY <1>1, <1>2, <1>3, <1>4 DEF NewExporter

LEMMA PacketBuffered ==
  ASSUME NEW x, Buffers(x), NEW packet
  PROVE  Buffers(WritePacket(x, packet))
  BY SeqAppend DEF Buffers, WritePacket

LEMMA ProcessBuffered ==
  ASSUME NEW x, Buffers(x)
  PROVE  Buffers(EnsureProcess(x))
  <1> DEFINE packet == [type |-> "process", seq |-> ProcessSequenceId(x.slot), pid |-> x.pid]
             written == WritePacket(x, packet)
  <1>1. Buffers(written)
    BY PacketBuffered
  <1> HIDE DEF written
  <1>2. Buffers([written EXCEPT !.emitted = TRUE])
    BY <1>1 DEF Buffers
  <1>3. QED
    BY <1>2 DEF EnsureProcess, written

LEMMA SequenceBuffered ==
  ASSUME NEW x, Buffers(x), NEW tid
  PROVE  Buffers(EnsureSequence(x, tid))
  <1> DEFINE index == Cardinality(DOMAIN x.sequences)
             id == SequenceId(x.slot, index)
             written == WritePacket(x, [type |-> "thread", seq |-> id, pid |-> x.pid, tid |-> tid,
                                        track |-> <<x.pid, 1 + 1 + index>>])
             sequences == With(written.sequences, tid, [id |-> id, iids |-> <<>>])
  <1>1. Buffers(written)
    BY PacketBuffered
  <1>2. EnsureSequence(x, tid) = IF tid \in DOMAIN x.sequences THEN x ELSE [written EXCEPT !.sequences = sequences]
    BY DEF EnsureSequence
  <1> HIDE DEF written, sequences
  <1>3. Buffers([written EXCEPT !.sequences = sequences])
    BY <1>1 DEF Buffers
  <1>4. QED
    BY <1>2, <1>3

LEMMA NameBuffered ==
  ASSUME NEW x, Buffers(x), NEW tid, NEW code
  PROVE  Buffers(CodeIid(x, tid, code))
  <1> DEFINE seq == x.sequences[tid]
             written == WritePacket(x, [type |-> "name", seq |-> seq.id, iid |-> Len(seq.iids) + 1, code |-> code])
             more == [written EXCEPT !.sequences[tid].iids = Append(@, code)]
  <1>1. Buffers(written)
    BY PacketBuffered
  <1>2. CodeIid(x, tid, code) = IF code \in ToSet(seq.iids) THEN x ELSE more
    BY DEF CodeIid
  <1>3. Buffers(more)
    <2> HIDE DEF written
    <2> QED
      BY <1>1 DEF Buffers
  <1>4. QED
    BY <1>2, <1>3

LEMMA TemplateBuffered ==
  ASSUME NEW x, Buffers(x), NEW tid, NEW code, NEW opens
  PROVE  Buffers(Template(x, tid, code, opens))
  <1> DEFINE key == TemplateKey(tid, code, opens)
             named == IF opens THEN CodeIid(x, tid, code) ELSE x
             templates == With(named.templates, key,
                               [seq |-> named.sequences[tid].id,
                                iid |-> IF opens THEN IidOf(named, tid, code) ELSE 0])
  <1>1. Buffers(named)
    BY NameBuffered
  <1>2. Template(x, tid, code, opens) =
          IF key \in DOMAIN x.templates THEN x ELSE [named EXCEPT !.templates = templates]
    BY DEF Template
  <1> HIDE DEF named, templates
  <1>3. Buffers([named EXCEPT !.templates = templates])
    BY <1>1 DEF Buffers
  <1>4. QED
    BY <1>2, <1>3

LEMMA EventBuffered ==
  ASSUME NEW acc, Buffers(acc.x), IsSequence(acc.buf), NEW ev
  PROVE  Buffers(PushProto(acc, ev).x) /\ IsSequence(PushProto(acc, ev).buf)
  <1> DEFINE code == CodeIdOf(ev.word)
             opens == OpensSlice(KindOf(ev.word))
             x == Template(EnsureSequence(acc.x, ev.tid), ev.tid, code, opens)
             template == x.templates[TemplateKey(ev.tid, code, opens)]
             event == [type |-> "event", seq |-> template.seq, opens |-> opens, iid |-> template.iid, ts |-> ev.ts]
  <1>1. PushProto(acc, ev) = [x |-> x, buf |-> Append(acc.buf, event)]
    BY DEF PushProto
  <1>2. Buffers(x)
    BY SequenceBuffered, TemplateBuffered
  <1> HIDE DEF x, event
  <1>3. QED
    BY <1>1, <1>2, SeqAppend

\* The recursive function of ProtoWriteBatch is one: it has a value for each
\* number of events.
ProtoFolds(x, events, size, g) ==
    g = [n \in 0 .. size |->
            IF n = 0 THEN [x |-> EnsureProcess(x), buf |-> <<>>] ELSE PushProto(g[n - 1], events[n])]

LEMMA ProtoFoldExists ==
  ASSUME NEW x, NEW events, NEW size \in Nat
  PROVE  \E g : ProtoFolds(x, events, size, g)
  <1> DEFINE start == [x |-> EnsureProcess(x), buf |-> <<>>]
             T == {n \in 0 .. size : \E g : ProtoFolds(x, events, n, g)}
  <1>1. 0 \in T
    <2> DEFINE g == [n \in 0 .. 0 |-> start]
    <2>1. ProtoFolds(x, events, 0, g)
      <3>1. g = [n \in 0 .. 0 |-> IF n = 0 THEN start ELSE PushProto(g[n - 1], events[n])]
        OBVIOUS
      <3>2. QED
        BY <3>1 DEF ProtoFolds
    <2> HIDE DEF g
    <2>2. QED
      BY <2>1
  <1>2. ASSUME NEW n \in 1 .. size, n - 1 \in T PROVE n \in T
    <2>1. PICK g : ProtoFolds(x, events, n - 1, g)
      BY <1>2
    <2> HIDE DEF start
    <2>2. g = [i \in 0 .. (n - 1) |-> IF i = 0 THEN start ELSE PushProto(g[i - 1], events[i])]
      BY <2>1 DEF ProtoFolds, start
    <2> DEFINE h == [i \in 0 .. n |-> IF i < n THEN g[i] ELSE PushProto(g[n - 1], events[n])]
    <2>3. ASSUME NEW i \in 0 .. n PROVE h[i] = IF i = 0 THEN start ELSE PushProto(h[i - 1], events[i])
      <3>1. CASE i = 0
        BY <2>2, <3>1
      <3>2. CASE i # 0 /\ i < n
        <4>1. g[i] = PushProto(g[i - 1], events[i])
          BY <2>2, <3>2
        <4>2. h[i] = g[i] /\ h[i - 1] = g[i - 1]
          BY <3>2
        <4> HIDE DEF h
        <4>3. QED
          BY <3>2, <4>1, <4>2
      <3>3. CASE i = n
        <4>1. h[i] = PushProto(g[n - 1], events[n]) /\ h[i - 1] = g[i - 1]
          BY <3>3
        <4> HIDE DEF h
        <4>2. QED
          BY <3>3, <4>1
      <3>4. QED
        BY <3>1, <3>2, <3>3
    <2>4. h = [i \in 0 .. n |-> IF i = 0 THEN start ELSE PushProto(h[i - 1], events[i])]
      BY <2>3
    <2> HIDE DEF h
    <2>5. ProtoFolds(x, events, n, h)
      BY <2>4 DEF ProtoFolds, start
    <2>6. QED
      BY <2>5
  <1>3. size \in T
    <2> HIDE DEF T
    <2>1. T \subseteq Nat
      BY DEF T
    <2>2. QED
      BY <1>1, <1>2, <2>1, NatSteps
  <1>4. QED
    BY <1>3

LEMMA ProtoBuffered ==
  ASSUME NEW x, Buffers(x), NEW events, IsSequence(events)
  PROVE  Buffers(ProtoWriteBatch(x, events))
  <1> DEFINE g == CHOOSE g : ProtoFolds(x, events, Len(events), g)
             start == [x |-> EnsureProcess(x), buf |-> <<>>]
  <1>1. Len(events) \in Nat
    BY SeqFacts
  <1>2. ProtoFolds(x, events, Len(events), g)
    BY <1>1, ProtoFoldExists
  <1>3. ProtoWriteBatch(x, events) = [g[Len(events)].x EXCEPT !.out = @ \o g[Len(events)].buf]
    BY DEF ProtoWriteBatch, ProtoFolds
  <1> HIDE DEF g, start
  <1>4. /\ g[0] = start
        /\ \A n \in 1 .. Len(events) : g[n] = PushProto(g[n - 1], events[n])
    BY <1>1, <1>2 DEF ProtoFolds, start
  <1> DEFINE T == {n \in Nat : Buffers(g[n].x) /\ IsSequence(g[n].buf)}
  <1>5. 0 \in T
    BY <1>4, ProcessBuffered, SeqEmpty DEF start
  <1>6. \A n \in 1 .. Len(events) : n - 1 \in T => n \in T
    BY <1>4, EventBuffered
  <1>7. Len(events) \in T
    <2> HIDE DEF T
    <2>1. T \subseteq Nat
      BY DEF T
    <2>2. QED
      BY <1>1, <1>5, <1>6, <2>1, NatSteps
  <1>8. QED
    BY <1>3, <1>7, SeqConcat DEF Buffers

\* The same for a profile, whose events leave the buffer alone.
PprofFolds(x, events, size, g) ==
    g = [n \in 0 .. size |-> IF n = 0 THEN x ELSE FoldEvent(g[n - 1], events[n])]

LEMMA PprofFoldExists ==
  ASSUME NEW x, NEW events, NEW size \in Nat
  PROVE  \E g : PprofFolds(x, events, size, g)
  <1> DEFINE T == {n \in 0 .. size : \E g : PprofFolds(x, events, n, g)}
  <1>1. 0 \in T
    <2> DEFINE g == [n \in 0 .. 0 |-> x]
    <2>1. PprofFolds(x, events, 0, g)
      <3>1. g = [n \in 0 .. 0 |-> IF n = 0 THEN x ELSE FoldEvent(g[n - 1], events[n])]
        OBVIOUS
      <3>2. QED
        BY <3>1 DEF PprofFolds
    <2> HIDE DEF g
    <2>2. QED
      BY <2>1
  <1>2. ASSUME NEW n \in 1 .. size, n - 1 \in T PROVE n \in T
    <2>1. PICK g : PprofFolds(x, events, n - 1, g)
      BY <1>2
    <2>2. g = [i \in 0 .. (n - 1) |-> IF i = 0 THEN x ELSE FoldEvent(g[i - 1], events[i])]
      BY <2>1 DEF PprofFolds
    <2> DEFINE h == [i \in 0 .. n |-> IF i < n THEN g[i] ELSE FoldEvent(g[n - 1], events[n])]
    <2>3. ASSUME NEW i \in 0 .. n PROVE h[i] = IF i = 0 THEN x ELSE FoldEvent(h[i - 1], events[i])
      <3>1. CASE i = 0
        BY <2>2, <3>1
      <3>2. CASE i # 0 /\ i < n
        <4>1. g[i] = FoldEvent(g[i - 1], events[i])
          BY <2>2, <3>2
        <4>2. h[i] = g[i] /\ h[i - 1] = g[i - 1]
          BY <3>2
        <4> HIDE DEF h
        <4>3. QED
          BY <3>2, <4>1, <4>2
      <3>3. CASE i = n
        <4>1. h[i] = FoldEvent(g[n - 1], events[n]) /\ h[i - 1] = g[i - 1]
          BY <3>3
        <4> HIDE DEF h
        <4>2. QED
          BY <3>3, <4>1
      <3>4. QED
        BY <3>1, <3>2, <3>3
    <2>4. h = [i \in 0 .. n |-> IF i = 0 THEN x ELSE FoldEvent(h[i - 1], events[i])]
      BY <2>3
    <2> HIDE DEF h
    <2>5. PprofFolds(x, events, n, h)
      BY <2>4 DEF PprofFolds
    <2>6. QED
      BY <2>5
  <1>3. size \in T
    <2> HIDE DEF T
    <2>1. T \subseteq Nat
      BY DEF T
    <2>2. QED
      BY <1>1, <1>2, <2>1, NatSteps
  <1>4. QED
    BY <1>3

LEMMA FoldBuffered ==
  ASSUME NEW x, Buffers(x), NEW ev
  PROVE  Buffers(FoldEvent(x, ev))
  <1> DEFINE fold == IF ev.tid \in DOMAIN x.folds THEN x.folds[ev.tid] ELSE [stack |-> <<>>, last |-> ev.ts]
             elapsed == IF ev.ts > fold.last THEN ev.ts - fold.last ELSE 0
             self == Charge(x.self, fold.stack, elapsed)
             folds == With(x.folds, ev.tid, [stack |-> Moved(fold.stack, ev), last |-> ev.ts])
  <1>1. FoldEvent(x, ev) = [x EXCEPT !.self = self, !.folds = folds]
    BY DEF FoldEvent
  <1> HIDE DEF self, folds
  <1>2. QED
    BY <1>1 DEF Buffers

LEMMA PprofBuffered ==
  ASSUME NEW x, Buffers(x), NEW events, IsSequence(events)
  PROVE  Buffers(PprofWriteBatch(x, events))
  <1> DEFINE g == CHOOSE g : PprofFolds(x, events, Len(events), g)
             T == {n \in Nat : Buffers(g[n])}
  <1>1. Len(events) \in Nat
    BY SeqFacts
  <1>2. PprofFolds(x, events, Len(events), g)
    BY <1>1, PprofFoldExists
  <1>3. PprofWriteBatch(x, events) = g[Len(events)]
    BY DEF PprofWriteBatch, PprofFolds
  <1> HIDE DEF g
  <1>4. g[0] = x /\ \A n \in 1 .. Len(events) : g[n] = FoldEvent(g[n - 1], events[n])
    BY <1>1, <1>2 DEF PprofFolds
  <1>5. 0 \in T
    BY <1>4
  <1>6. \A n \in 1 .. Len(events) : n - 1 \in T => n \in T
    BY <1>4, FoldBuffered
  <1>7. Len(events) \in T
    <2> HIDE DEF T
    <2>1. T \subseteq Nat
      BY DEF T
    <2>2. QED
      BY <1>1, <1>5, <1>6, <2>1, NatSteps
  <1>8. QED
    BY <1>3, <1>7

LEMMA JsonBuffered ==
  ASSUME NEW x, Buffers(x), NEW events, IsSequence(events)
  PROVE  /\ Buffers(JsonWriteBatch(x, events))
         /\ x.out = <<>> => \A i \in DOMAIN JsonWriteBatch(x, events).out :
                              JsonWriteBatch(x, events).out[i].type = "event"
  <1> DEFINE entries == [i \in DOMAIN events |-> JsonEvent(x, events[i])]
             y == [x EXCEPT !.out = @ \o entries]
  <1>1. entries = [i \in DOMAIN events |-> entries[i]]
    OBVIOUS
  <1>2. \A i \in DOMAIN entries : entries[i].type = "event"
    BY DEF JsonEvent
  <1>3. y = JsonWriteBatch(x, events)
    BY DEF JsonWriteBatch
  <1> HIDE DEF entries
  <1>4. IsSequence(entries) /\ IsSequence(x.out) /\ "out" \in DOMAIN x
    BY <1>1, SeqLike DEF Buffers
  <1>5. "out" \in DOMAIN y /\ y.out = x.out \o entries /\ IsSequence(y.out)
    BY <1>4, SeqConcat
  <1>6. ASSUME x.out = <<>>, NEW i \in DOMAIN y.out PROVE y.out[i].type = "event"
    <2>1. Len(x.out) = 0 /\ DOMAIN y.out = 1 .. Len(y.out) /\ Len(y.out) \in Nat
      BY <1>5, <1>6, SeqEmpty, SeqFacts
    <2>2. ~(i <= Len(x.out))
      BY <2>1
    <2>3. i - Len(x.out) \in DOMAIN entries /\ y.out[i] = entries[i - Len(x.out)]
      BY <1>4, <1>5, <2>2, SeqConcat
    <2>4. QED
      BY <1>2, <2>3
  <1> HIDE DEF y
  <1>7. QED
    BY <1>3, <1>5, <1>6 DEF Buffers

LEMMA SetListed ==
  ASSUME NEW S, IsFiniteSet(S)
  PROVE  IsSequence(SetToSeq(S)) /\ \A i \in DOMAIN SetToSeq(S) : SetToSeq(S)[i] \in S
  <1> DEFINE size == Cardinality(S)
  <1>1. size \in Nat /\ ExistsBijection(1 .. size, S)
    BY FS_CardinalityType
  <1>2. \E f \in [1 .. size -> S] : IsInjective(f)
    BY <1>1 DEF ExistsBijection, Bijection, Injection
  <1>3. SetToSeq(S) \in [1 .. size -> S]
    BY <1>2 DEF SetToSeq
  <1> HIDE DEF size
  <1>4. SetToSeq(S) \in Seq(S)
    BY <1>1, <1>3
  <1>5. QED
    BY <1>3, <1>4 DEF IsSequence

LEMMA JsonFinishBuffered ==
  ASSUME NEW x, Buffers(x), NEW names, IsFiniteSet(names), NEW dropped
  PROVE  /\ Buffers(JsonFinish(x, names, dropped))
         /\ x.out = <<>> => \A i \in DOMAIN JsonFinish(x, names, dropped).out :
                              JsonFinish(x, names, dropped).out[i].type \in {"thread_name", "dropped"}
  <1> DEFINE Threads == {[type |-> "thread_name", pid |-> x.pid, tid |-> tid] : tid \in names}
             counted == IF dropped = 0 THEN <<>>
                        ELSE <<[type |-> "dropped", pid |-> x.pid, count |-> dropped]>>
             named == SetToSeq(Threads)
             y == [x EXCEPT !.out = @ \o named \o counted]
  <1>1. y = JsonFinish(x, names, dropped)
    BY DEF JsonFinish
  <1>2. IsFiniteSet(Threads)
    <2> DEFINE f == [tid \in names |-> [type |-> "thread_name", pid |-> x.pid, tid |-> tid]]
    <2>1. f \in Surjection(names, Threads)
      BY DEF Surjection
    <2>2. QED
      BY <2>1, FS_Surjection
  <1>3. IsSequence(named) /\ \A i \in DOMAIN named : named[i].type = "thread_name"
    <2>1. \A e \in Threads : e.type = "thread_name"
      OBVIOUS
    <2> HIDE DEF Threads
    <2>2. QED
      BY <1>2, <2>1, SetListed
  <1>4. IsSequence(counted) /\ \A i \in DOMAIN counted : counted[i].type = "dropped"
    <2>1. CASE dropped = 0
      BY <2>1, SeqEmpty
    <2>2. CASE dropped # 0
      BY <2>2, SeqOne
    <2>3. QED
      BY <2>1, <2>2
  <1> HIDE DEF named, counted
  <1>5. IsSequence(x.out) /\ "out" \in DOMAIN x /\ IsSequence(x.out \o named)
    BY <1>3, SeqConcat DEF Buffers
  <1>6. "out" \in DOMAIN y /\ y.out = (x.out \o named) \o counted /\ IsSequence(y.out)
    BY <1>4, <1>5, SeqConcat
  <1>7. ASSUME x.out = <<>>, NEW i \in DOMAIN y.out PROVE y.out[i].type \in {"thread_name", "dropped"}
    <2>1. CASE i <= Len(x.out \o named)
      <3>1. i \in DOMAIN (x.out \o named) /\ y.out[i] = (x.out \o named)[i]
        BY <1>4, <1>5, <1>6, <1>7, <2>1, SeqConcat
      <3>2. Len(x.out) = 0 /\ i \in 1 .. Len(x.out \o named) /\ Len(x.out \o named) \in Nat
        BY <1>5, <1>7, <3>1, SeqEmpty, SeqFacts
      <3>3. i - Len(x.out) \in DOMAIN named /\ (x.out \o named)[i] = named[i - Len(x.out)]
        <4>1. ~(i <= Len(x.out))
          BY <3>2
        <4>2. QED
          BY <1>3, <1>5, <3>1, <4>1, SeqConcat
      <3>4. QED
        BY <1>3, <3>1, <3>3
    <2>2. CASE ~(i <= Len(x.out \o named))
      <3>1. i - Len(x.out \o named) \in DOMAIN counted /\ y.out[i] = counted[i - Len(x.out \o named)]
        BY <1>4, <1>5, <1>6, <1>7, <2>2, SeqConcat
      <3>2. QED
        BY <1>4, <3>1
    <2>3. QED
      BY <2>1, <2>2
  <1> HIDE DEF y
  <1>8. QED
    BY <1>1, <1>6, <1>7 DEF Buffers

LEMMA ProtoFinishBuffered ==
  ASSUME NEW x, Buffers(x), NEW dropped
  PROVE  Buffers(ProtoFinish(x, dropped))
  <1> DEFINE packet == [type |-> "dropped", seq |-> ProcessSequenceId(x.slot), pid |-> x.pid, count |-> dropped]
  <1>1. ProtoFinish(x, dropped) = IF dropped = 0 THEN x ELSE WritePacket(EnsureProcess(x), packet)
    BY DEF ProtoFinish
  <1> HIDE DEF packet
  <1>2. QED
    BY <1>1, ProcessBuffered, PacketBuffered

LEMMA PprofFinishBuffered ==
  ASSUME NEW x, Buffers(x), NEW dropped
  PROVE  Buffers(PprofFinish(x, dropped))
  <1> DEFINE entry == [type |-> "profile", dropped |-> dropped,
                       functions |-> UNION {ToSet(stack) : stack \in DOMAIN x.self},
                       samples |-> {[leafFirst |-> Reverse(stack), ns |-> x.self[stack]] : stack \in DOMAIN x.self}]
  <1>1. PprofFinish(x, dropped) = [x EXCEPT !.self = <<>>, !.out = Append(@, entry)]
    BY DEF PprofFinish
  <1> HIDE DEF entry
  <1>2. QED
    BY <1>1, SeqAppend DEF Buffers

---------------------------------------------------------------------------
(* What processes have to write, and what stands in the files.              *)

Working == {"idle", "commit", "write"}

\* What is buffered, pending and written, and what was given, are sequences, and
\* between commits an exporter has nothing buffered.
Listed ==
    /\ DOMAIN file = Procs /\ DOMAIN exporter = Procs /\ DOMAIN given = Procs /\ DOMAIN batch = Procs
    /\ \A p \in Procs :
         /\ IsSequence(file[p]) /\ IsSequence(pending[p]) /\ Buffers(exporter[p])
         /\ IsSequence(given[p]) /\ \A i \in DOMAIN given[p] : IsSequence(given[p][i])
         /\ IsSequence(batch[p]) /\ \A i \in DOMAIN batch[p] : IsSequence(batch[p][i])
         /\ pc[p] \in Working => exporter[p].out = <<>>

\* A file holds what the processes it belongs to wrote, and children begin once.
Placed ==
    \A path \in Procs : \A i \in DOMAIN file[path] :
        LET by == file[path][i].by
        IN by \in Procs /\ Path(by) = path /\ (by \in Kids => pc[by] \notin {"unborn", "start"})

\* Only the rest of an entry that is being written is less than whole.
Cut ==
    \A p \in Procs :
        /\ pc[p] = "write" => pending[p] # <<>>
        /\ \A i \in DOMAIN pending[p] :
             /\ pending[p][i].by = p
             /\ \/ pending[p][i].part = "whole"
                \/ pending[p][i].part = "tail" /\ i = 1 /\ pc[p] = "write"

\* A half stands at the end of its file while the other is pending, or its writer
\* has given up.
HalfIsLast(path, i) ==
    LET item == file[path][i]
    IN item.part # "whole" =>
         /\ item.part = "head"
         /\ \/ pc[item.by] \in {"failed", "dead", "start"}
            \/ /\ pc[item.by] = "write" /\ i = Len(file[path])
               /\ pending[item.by][1] = Item(item.by, item.entry, "tail")

\* A file that p adds to, from where p left off.
Continues(items, more, p) ==
    more[1].part = "tail" => items # <<>> /\ Last(items) = Item(p, more[1].entry, "head")

RestIsNext(p) == pc[p] = "write" => Continues(file[Path(p)], pending[p], p)

Halves ==
    ~unsettled => /\ \A path \in Procs : \A i \in DOMAIN file[path] : HalfIsLast(path, i)
                  /\ \A p \in Procs : RestIsNext(p)

\* The head of an array comes first: it is pending for an empty file, and nobody
\* else works as long as that is empty.
IsHead(item) == item.entry.type = "head"

Headed ==
    format = "json" /\ ~unsettled =>
        /\ \A i \in DOMAIN file[Root] : IsHead(file[Root][i]) <=> i = 1
        /\ \A p \in Procs : \A i \in DOMAIN pending[p] :
             IsHead(pending[p][i]) =>
                 p = Root /\ Len(pending[p]) = 1 /\ (pending[p][1].part = "whole" => file[Root] = <<>>)
        /\ file[Root] = <<>> =>
             /\ \A c \in Kids : pc[c] \notin Working \cup {"start"}
             /\ given[Root] = <<>> /\ pc[Root] # "idle"
             /\ pc[Root] \in {"commit", "write"} =>
                  pending[Root] # <<>> /\ IsHead(pending[Root][1]) /\ batch[Root] = <<>>

LEMMA ItemsListed ==
  ASSUME NEW p, NEW entries, IsSequence(entries), NEW items, items = Items(p, entries)
  PROVE  /\ IsSequence(items) /\ Len(items) = Len(entries) /\ DOMAIN items = DOMAIN entries
         /\ \A i \in DOMAIN items : items[i].by = p /\ items[i].part = "whole" /\ items[i].entry = entries[i]
  <1>1. items = [i \in DOMAIN entries |-> Item(p, entries[i], "whole")]
    BY DEF Items
  <1>2. items = [i \in DOMAIN entries |-> items[i]] /\ DOMAIN items = DOMAIN entries
    BY <1>1
  <1>3. \A i \in DOMAIN items : items[i].by = p /\ items[i].part = "whole" /\ items[i].entry = entries[i]
    BY <1>1 DEF Item
  <1>4. IsSequence(items) /\ Len(items) = Len(entries)
    BY <1>2, SeqLike
  <1>5. QED
    BY <1>2, <1>3, <1>4

---------------------------------------------------------------------------
(* What the steps do that fill an exporter's buffer.                        *)

\* p has entries of its exporter to commit, if there are any.
Fills(p, entries, done) ==
    /\ IsSequence(entries)
    /\ DOMAIN exporter' = Procs /\ Buffers(exporter'[p]) /\ exporter'[p].out = <<>>
    /\ \A q \in Procs \ {p} : exporter'[q] = exporter[q]
    /\ pending' = [pending EXCEPT ![p] = Items(p, entries)]
    /\ pc' = [pc EXCEPT ![p] = IF done THEN "idle" ELSE "commit"]
    /\ format' = format

LEMMA BufferTaken ==
  ASSUME NEW x, Buffers(x), Listed, NEW p \in Procs,
         exporter' = [exporter EXCEPT ![p] = [x EXCEPT !.out = <<>>]]
  PROVE  /\ DOMAIN exporter' = Procs /\ Buffers(exporter'[p]) /\ exporter'[p].out = <<>>
         /\ \A q \in Procs \ {p} : exporter'[q] = exporter[q]
  <1> DEFINE y == [x EXCEPT !.out = <<>>]
  <1>1. "out" \in DOMAIN y /\ y.out = <<>> /\ Buffers(y)
    BY SeqEmpty DEF Buffers
  <1>2. exporter' = [exporter EXCEPT ![p] = y]
    OBVIOUS
  <1> HIDE DEF y
  <1>3. QED
    BY <1>1, <1>2 DEF Listed

LEMMA OpenDoes ==
  ASSUME IInv, Listed, NEW p \in Procs, Open(p)
  PROVE  \E entries :
           /\ Fills(p, entries, entries = <<>>) /\ pc[p] = "start"
           /\ format = "json" => entries = IF p = Root THEN <<[type |-> "head"]>> ELSE <<>>
           /\ file' = IF StartsOver(p) THEN [file EXCEPT ![Path(p)] = <<>>] ELSE file
           /\ given' = [q \in Procs |-> IF q = p \/ (StartsOver(p) /\ Path(q) = Path(p)) THEN <<>> ELSE given[q]]
           /\ batch' = [batch EXCEPT ![p] = <<>>]
           /\ ~unsettled' => /\ ~unsettled
                             /\ p = Root => \A c \in Kids : pc[c] \in {"unborn", "closed", "failed", "dead"}
  <1> DEFINE x == NewExporter(format, p)
  <1>1. Buffers(x)
    BY StartsWithSequence DEF IInv, Shape
  <1>2. format = "json" => x.out = IF p = Root THEN <<[type |-> "head"]>> ELSE <<>>
    BY DEF NewExporter, NewJson
  <1>3. /\ exporter' = [exporter EXCEPT ![p] = [x EXCEPT !.out = <<>>]]
        /\ pending' = [pending EXCEPT ![p] = Items(p, x.out)]
        /\ pc' = [pc EXCEPT ![p] = IF x.out = <<>> THEN "idle" ELSE "commit"]
        /\ format' = format /\ pc[p] = "start"
        /\ file' = IF StartsOver(p) THEN [file EXCEPT ![Path(p)] = <<>>] ELSE file
        /\ given' = [q \in Procs |-> IF q = p \/ (StartsOver(p) /\ Path(q) = Path(p)) THEN <<>> ELSE given[q]]
        /\ batch' = [batch EXCEPT ![p] = <<>>]
        /\ unsettled' = (unsettled \/ (p = Root /\ \E c \in Kids : pc[c] \notin {"unborn", "closed", "failed", "dead"}))
    BY DEF Open
  <1> HIDE DEF x
  <1>4. Fills(p, x.out, x.out = <<>>)
    BY <1>1, <1>3, BufferTaken DEF Fills, Buffers
  <1>5. ~unsettled' => /\ ~unsettled
                       /\ p = Root => \A c \in Kids : pc[c] \in {"unborn", "closed", "failed", "dead"}
    BY <1>3
  <1>6. QED
    BY <1>2, <1>3, <1>4, <1>5

LEMMA WriteBatchDoes ==
  ASSUME IInv, Listed, NEW p \in Procs, NEW b \in Batches, WriteBatch(p, b)
  PROVE  \E entries :
           /\ Fills(p, entries, entries = <<>>) /\ pc[p] = "idle"
           /\ format = "json" => \A i \in DOMAIN entries : entries[i].type = "event"
           /\ file' = file /\ unsettled' = unsettled
           /\ \E events : /\ IsSequence(events)
                          /\ IF entries = <<>>
                             THEN given' = [given EXCEPT ![p] = Append(@, events)] /\ batch' = batch
                             ELSE batch' = [batch EXCEPT ![p] = <<events>>] /\ given' = given
  <1> DEFINE base == 3 * Len(given[p])
             events == [i \in DOMAIN b.packed |-> FromPacked(Clocks[p], base, b.tid, b.packed[i])]
             x == WriteEvents(p, events)
  <1>1. IsSequence(events)
    <2>1. IsSequence(b.packed)
      BY OutputAssumption DEF IsSequence
    <2>2. events = [i \in DOMAIN b.packed |-> events[i]]
      OBVIOUS
    <2> HIDE DEF events
    <2>3. QED
      BY <2>1, <2>2, SeqLike
  <1>2. /\ exporter' = [exporter EXCEPT ![p] = [x EXCEPT !.out = <<>>]]
        /\ pending' = [pending EXCEPT ![p] = Items(p, x.out)]
        /\ pc' = [pc EXCEPT ![p] = IF x.out = <<>> THEN "idle" ELSE "commit"]
        /\ format' = format /\ pc[p] = "idle" /\ file' = file /\ unsettled' = unsettled
        /\ IF x.out = <<>>
           THEN given' = [given EXCEPT ![p] = Append(@, events)] /\ batch' = batch
           ELSE batch' = [batch EXCEPT ![p] = <<events>>] /\ given' = given
    BY DEF WriteBatch
  <1> HIDE DEF events
  <1>3. Buffers(exporter[p]) /\ exporter[p].out = <<>>
    BY <1>2 DEF Listed, Working
  <1>4. format \in {"protobuf", "json", "pprof"}
    BY OutputAssumption DEF IInv, Shape
  <1>5. Buffers(x)
    BY <1>1, <1>3, <1>4, ProtoBuffered, JsonBuffered, PprofBuffered DEF WriteEvents
  <1>6. format = "json" => \A i \in DOMAIN x.out : x.out[i].type = "event"
    <2>1. format = "json" => x = JsonWriteBatch(exporter[p], events)
      BY DEF WriteEvents
    <2> HIDE DEF x
    <2>2. QED
      BY <1>1, <1>3, <2>1, JsonBuffered
  <1> HIDE DEF x
  <1>7. Fills(p, x.out, x.out = <<>>)
    BY <1>2, <1>5, BufferTaken DEF Fills, Buffers
  <1>8. QED
    BY <1>1, <1>2, <1>6, <1>7

\* The threads whose names are known.
LEMMA NamesFinite ==
  ASSUME Listed, NEW p \in Procs
  PROVE  IsFiniteSet({ev.tid : ev \in UNION {ToSet(b) : b \in ToSet(given[p])}})
  <1> DEFINE all == UNION {ToSet(b) : b \in ToSet(given[p])}
             names == {ev.tid : ev \in all}
  <1>1. \A s : IsSequence(s) => IsFiniteSet(ToSet(s))
    <2> SUFFICES ASSUME NEW s, IsSequence(s) PROVE IsFiniteSet(ToSet(s))
      OBVIOUS
    <2>1. Len(s) \in Nat /\ DOMAIN s = 1 .. Len(s) /\ s = [i \in DOMAIN s |-> s[i]]
      BY SeqFacts
    <2>2. s \in Surjection(1 .. Len(s), ToSet(s))
      BY <2>1 DEF Surjection, ToSet
    <2>3. QED
      <3>1. IsFiniteSet(1 .. Len(s))
        <4>1. 1 \in Int /\ Len(s) \in Int
          BY <2>1
        <4>2. QED
          BY <4>1, FS_Interval, Zenon
      <3>2. QED
        BY <2>2, <3>1, FS_Surjection
  <1> DEFINE Sets == {ToSet(b) : b \in ToSet(given[p])}
  <1>2. IsFiniteSet(ToSet(given[p])) /\ \A b \in ToSet(given[p]) : IsFiniteSet(ToSet(b))
    BY <1>1 DEF Listed, ToSet
  <1>3. IsFiniteSet(Sets)
    <2> DEFINE f == [b \in ToSet(given[p]) |-> ToSet(b)]
    <2>1. f \in Surjection(ToSet(given[p]), Sets)
      BY DEF Surjection
    <2>2. QED
      BY <1>2, <2>1, FS_Surjection
  <1>4. IsFiniteSet(all)
    BY <1>2, <1>3, FS_UNION
  <1> DEFINE g == [ev \in all |-> ev.tid]
  <1>5. g \in Surjection(all, names)
    BY DEF Surjection
  <1> HIDE DEF all, names, g
  <1>6. IsFiniteSet(names)
    BY <1>4, <1>5, FS_Surjection
  <1>7. QED
    BY <1>6 DEF names, all

LEMMA FinishDoes ==
  ASSUME IInv, Listed, NEW p \in Procs, NEW dropped \in Losses, Finish(p, dropped)
  PROVE  \E entries :
           /\ Fills(p, entries, FALSE) /\ pc[p] = "idle"
           /\ format = "json" => \A i \in DOMAIN entries : entries[i].type \in {"thread_name", "dropped"}
           /\ file' = file /\ unsettled' = unsettled /\ given' = given
           /\ batch' = [batch EXCEPT ![p] = <<>>]
  <1> DEFINE all == UNION {ToSet(b) : b \in ToSet(given[p])}
             names == {ev.tid : ev \in all}
             x == WriteEnd(p, names, dropped)
  <1>1. IsFiniteSet(names)
    BY NamesFinite
  <1>2. /\ exporter' = [exporter EXCEPT ![p] = [x EXCEPT !.out = <<>>]]
        /\ pending' = [pending EXCEPT ![p] = Items(p, x.out)]
        /\ pc' = [pc EXCEPT ![p] = "commit"]
        /\ format' = format /\ pc[p] = "idle" /\ file' = file /\ unsettled' = unsettled /\ given' = given
        /\ batch' = [batch EXCEPT ![p] = <<>>]
    BY DEF Finish
  <1> HIDE DEF names
  <1>3. Buffers(exporter[p]) /\ exporter[p].out = <<>>
    BY <1>2 DEF Listed, Working
  <1>4. format \in {"protobuf", "json", "pprof"}
    BY OutputAssumption DEF IInv, Shape
  <1>5. Buffers(x)
    BY <1>1, <1>3, <1>4, ProtoFinishBuffered, JsonFinishBuffered, PprofFinishBuffered DEF WriteEnd
  <1>6. format = "json" => \A i \in DOMAIN x.out : x.out[i].type \in {"thread_name", "dropped"}
    <2>1. format = "json" => x = JsonFinish(exporter[p], names, dropped)
      BY DEF WriteEnd
    <2> HIDE DEF x
    <2>2. QED
      BY <1>1, <1>3, <2>1, JsonFinishBuffered
  <1> HIDE DEF x
  <1>7. Fills(p, x.out, FALSE)
    BY <1>2, <1>5, BufferTaken DEF Fills, Buffers
  <1>8. QED
    BY <1>2, <1>6, <1>7

---------------------------------------------------------------------------
(* Sequences stay sequences.                                                *)

LEMMA ListedStays ==
  ASSUME Listed, exporter' = exporter, given' = given, batch' = batch, file' = file,
         \A q \in Procs : pending'[q] = pending[q] \/ pending'[q] = <<>>,
         \A q \in Procs : pc'[q] \in Working => pc[q] \in Working
  PROVE  Listed'
  BY SeqEmpty DEF Listed, Buffers

LEMMA FilledListed ==
  ASSUME IInv, Listed, NEW p \in Procs, NEW entries, NEW done, Fills(p, entries, done),
         DOMAIN file' = Procs, DOMAIN given' = Procs, DOMAIN batch' = Procs,
         \A q \in Procs : file'[q] = file[q] \/ file'[q] = <<>>,
         \A q \in Procs : given'[q] = given[q] \/ given'[q] = <<>>
                            \/ \E events : IsSequence(events) /\ given'[q] = Append(given[q], events),
         \A q \in Procs : batch'[q] = batch[q] \/ batch'[q] = <<>>
                            \/ \E events : IsSequence(events) /\ batch'[q] = <<events>>
  PROVE  Listed'
  <1>1. DOMAIN pc = Procs /\ DOMAIN pending = Procs
    BY DEF IInv, Shape
  <1>2. \A q \in Procs : IsSequence(file'[q]) /\ IsSequence(pending'[q])
    BY <1>1, SeqEmpty, ItemsListed DEF Listed, Fills
  <1>3. \A q \in Procs : Buffers(exporter'[q]) /\ (pc'[q] \in Working => exporter'[q].out = <<>>)
    BY <1>1 DEF Listed, Fills
  <1>4. \A q \in Procs : IsSequence(given'[q]) /\ \A i \in DOMAIN given'[q] : IsSequence(given'[q][i])
    <2> SUFFICES ASSUME NEW q \in Procs
                 PROVE  IsSequence(given'[q]) /\ \A i \in DOMAIN given'[q] : IsSequence(given'[q][i])
      OBVIOUS
    <2>1. IsSequence(given[q]) /\ \A i \in DOMAIN given[q] : IsSequence(given[q][i])
      BY DEF Listed
    <2>2. CASE given'[q] = given[q]
      BY <2>1, <2>2
    <2>3. CASE given'[q] = <<>>
      BY <2>3, SeqEmpty
    <2>4. ASSUME NEW events, IsSequence(events), given'[q] = Append(given[q], events)
          PROVE  IsSequence(given'[q]) /\ \A i \in DOMAIN given'[q] : IsSequence(given'[q][i])
      <3>1. /\ IsSequence(given'[q]) /\ Len(given'[q]) = Len(given[q]) + 1
            /\ given'[q][Len(given[q]) + 1] = events
            /\ \A i \in 1 .. Len(given[q]) : given'[q][i] = given[q][i]
        BY <2>1, <2>4, SeqAppend
      <3>2. DOMAIN given'[q] = 1 .. (Len(given[q]) + 1) /\ Len(given[q]) \in Nat /\ DOMAIN given[q] = 1 .. Len(given[q])
        BY <2>1, <3>1, SeqFacts
      <3>3. QED
        BY <2>1, <2>4, <3>1, <3>2
    <2>5. QED
      BY <2>2, <2>3, <2>4
  <1>5. \A q \in Procs : IsSequence(batch'[q]) /\ \A i \in DOMAIN batch'[q] : IsSequence(batch'[q][i])
    <2> SUFFICES ASSUME NEW q \in Procs
                 PROVE  IsSequence(batch'[q]) /\ \A i \in DOMAIN batch'[q] : IsSequence(batch'[q][i])
      OBVIOUS
    <2>1. CASE batch'[q] = batch[q]
      BY <2>1 DEF Listed
    <2>2. CASE batch'[q] = <<>>
      BY <2>2, SeqEmpty
    <2>3. ASSUME NEW events, IsSequence(events), batch'[q] = <<events>>
          PROVE  IsSequence(batch'[q]) /\ \A i \in DOMAIN batch'[q] : IsSequence(batch'[q][i])
      <3>1. IsSequence(batch'[q]) /\ DOMAIN batch'[q] = 1 .. 1 /\ batch'[q][1] = events
        BY <2>3, SeqOne
      <3>2. QED
        BY <2>3, <3>1
    <2>4. QED
      BY <2>1, <2>2, <2>3
  <1>6. DOMAIN exporter' = Procs
    BY DEF Fills
  <1>7. QED
    BY <1>2, <1>3, <1>4, <1>5, <1>6 DEF Listed

\* What WritePart and WriteRest append, and what they leave pending.
LEMMA PartDoes ==
  ASSUME IInv, Listed, Cut, NEW p \in Procs, NEW n \in 0 .. (Len(pending[p]) - 1), WritePart(p, n)
  PROVE  LET cut == pending[p][n + 1].entry
             more == SubSeq(pending[p], 1, n) \o <<Item(p, cut, "head")>>
         IN /\ IsSequence(more) /\ Len(more) = n + 1 /\ n \in Nat
            /\ more[n + 1] = Item(p, cut, "head")
            /\ \A i \in 1 .. n : more[i] = pending[p][i] /\ i \in DOMAIN pending[p]
            /\ file' = [file EXCEPT ![Path(p)] = @ \o more]
            /\ IsSequence(pending'[p]) /\ pending'[p] # <<>>
            /\ Len(pending'[p]) = Len(pending[p]) - n
            /\ pending'[p][1] = Item(p, cut, "tail")
            /\ \A i \in DOMAIN pending'[p] : i # 1 =>
                 n + i \in DOMAIN pending[p] /\ pending'[p][i] = pending[p][n + i]
            /\ \A q \in Procs \ {p} : pending'[q] = pending[q]
            /\ \A i \in DOMAIN pending[p] : pending[p][i].part = "whole"
            /\ n + 1 \in DOMAIN pending[p]
  <1> DEFINE cut == pending[p][n + 1].entry
             first == SubSeq(pending[p], 1, n)
             rest == SubSeq(pending[p], n + 2, Len(pending[p]))
             more == first \o <<Item(p, cut, "head")>>
             left == <<Item(p, cut, "tail")>> \o rest
  <1>1. /\ IsSequence(pending[p]) /\ Len(pending[p]) \in Nat /\ DOMAIN pending[p] = 1 .. Len(pending[p])
        /\ n \in Nat /\ n < Len(pending[p]) /\ IsSequence(file[Path(p)])
    BY SeqFacts, PathIsOne DEF Listed
  <1>2. /\ IsSequence(first) /\ Len(first) = n
        /\ \A i \in 1 .. n : i \in DOMAIN pending[p] /\ first[i] = pending[p][i]
    BY <1>1, SeqUpTo
  <1>3. /\ IsSequence(rest) /\ Len(rest) = Len(pending[p]) + 1 - (n + 2)
        /\ \A i \in DOMAIN rest : n + 2 + i - 1 \in DOMAIN pending[p] /\ rest[i] = pending[p][n + 2 + i - 1]
    <2>1. n + 2 \in Nat /\ n + 2 >= 1 /\ n + 2 <= Len(pending[p]) + 1
      BY <1>1
    <2>2. QED
      BY <1>1, <2>1, SeqFrom
  <1>4. /\ pc[p] = "write" /\ pending[p][1].part = "whole"
        /\ file' = [file EXCEPT ![Path(p)] = (@ \o first) \o <<Item(p, cut, "head")>>]
        /\ pending' = [pending EXCEPT ![p] = left]
    <2>1. pending[p] # <<>>
      BY <1>1, SeqFacts
    <2>2. Head(pending[p]) = pending[p][1]
      BY <1>1, <2>1, SeqTail
    <2>3. QED
      BY <2>2 DEF WritePart
  <1> HIDE DEF cut, first, rest
  <1>5. /\ IsSequence(more) /\ Len(more) = n + 1 /\ more[n + 1] = Item(p, cut, "head")
        /\ \A i \in 1 .. n : more[i] = first[i]
    <2>1. /\ IsSequence(more) /\ Len(more) = Len(first) + 1 /\ more[Len(first) + 1] = Item(p, cut, "head")
          /\ \A i \in 1 .. Len(first) : more[i] = first[i]
      <3>1. PICK e : e = Item(p, cut, "head")
        OBVIOUS
      <3>2. /\ IsSequence(first \o <<e>>) /\ Len(first \o <<e>>) = Len(first) + 1
            /\ (first \o <<e>>)[Len(first) + 1] = e /\ \A i \in 1 .. Len(first) : (first \o <<e>>)[i] = first[i]
        BY <1>2, SeqPush
      <3>3. QED
        BY <3>1, <3>2
    <2> HIDE DEF more
    <2>2. QED
      BY <1>2, <2>1
  <1>6. /\ IsSequence(left) /\ Len(left) = Len(rest) + 1 /\ left[1] = Item(p, cut, "tail")
        /\ \A i \in DOMAIN left : i # 1 => i - 1 \in DOMAIN rest /\ left[i] = rest[i - 1]
    BY <1>3, SeqCons
  <1>7. file' = [file EXCEPT ![Path(p)] = @ \o more]
    <2>1. (file[Path(p)] \o first) \o <<Item(p, cut, "head")>> = file[Path(p)] \o more
      <3> DEFINE one == <<Item(p, cut, "head")>>
      <3>1. IsSequence(one) /\ IsSequence(file[Path(p)]) /\ IsSequence(first)
        BY <1>1, <1>2, SeqOne
      <3> HIDE DEF one
      <3>2. \A s, t, u : IsSequence(s) /\ IsSequence(t) /\ IsSequence(u) => (s \o t) \o u = s \o (t \o u)
        BY SeqTwice
      <3>3. (file[Path(p)] \o first) \o one = file[Path(p)] \o (first \o one)
        <4>1. PICK f : f = file[Path(p)]
          OBVIOUS
        <4>2. IsSequence(f)
          BY <3>1, <4>1
        <4>3. (f \o first) \o one = f \o (first \o one)
          BY <3>1, <3>2, <4>2
        <4>4. QED
          BY <4>1, <4>3
      <3>4. QED
        BY <3>3 DEF one
    <2>2. QED
      BY <1>4, <2>1
  <1> HIDE DEF more, left
  <1>8. ASSUME NEW i \in DOMAIN left, i # 1
        PROVE  n + i \in DOMAIN pending[p] /\ left[i] = pending[p][n + i]
    <2>1. i \in Nat /\ n + 2 + (i - 1) - 1 = n + i
      BY <1>1, <1>6, SeqFacts
    <2>2. i - 1 \in DOMAIN rest /\ left[i] = rest[i - 1]
      BY <1>6, <1>8
    <2>3. n + 2 + (i - 1) - 1 \in DOMAIN pending[p] /\ rest[i - 1] = pending[p][n + 2 + (i - 1) - 1]
      BY <1>3, <2>2
    <2>4. QED
      BY <2>1, <2>2, <2>3
  <1>9. Len(left) = Len(pending[p]) - n /\ left # <<>>
    <2>1. Len(left) = Len(pending[p]) - n
      BY <1>1, <1>3, <1>6
    <2>2. QED
      BY <1>1, <2>1, SeqEmpty
  <1>10. \A i \in DOMAIN pending[p] : pending[p][i].part = "whole"
    BY <1>4 DEF Cut
  <1>11. /\ pending'[p] = left /\ \A q \in Procs \ {p} : pending'[q] = pending[q]
    BY <1>4 DEF IInv, Shape
  <1>12. n + 1 \in DOMAIN pending[p]
    BY <1>1
  <1>13. QED
    BY <1>1, <1>2, <1>5, <1>6, <1>7, <1>8, <1>9, <1>10, <1>11, <1>12 DEF cut, first, more

\* What was there, but for the half that becomes whole, and then what was pending.
Extended(new, items, more, p) ==
    /\ IsSequence(new) /\ new # <<>>
    /\ \A i \in DOMAIN new : (i \in DOMAIN items /\ new[i] = items[i]) \/ new[i].by = p
    /\ Continues(items, more, p) => \A i \in DOMAIN new :
         \/ /\ i \in DOMAIN items /\ new[i] = items[i]
            /\ more[1].part = "tail" => i < Len(items)
         \/ /\ new[i].by = p /\ new[i].part = "whole"
            /\ \E j \in DOMAIN more :
                 /\ new[i].entry = more[j].entry
                 /\ i = IF more[1].part = "tail" THEN Len(items) - 1 + j ELSE Len(items) + j

LEMMA AppendedDoes ==
  ASSUME NEW items, IsSequence(items), NEW more, IsSequence(more), more # <<>>, NEW p,
         \A i \in DOMAIN more : more[i].by = p /\ (more[i].part = "whole" \/ (more[i].part = "tail" /\ i = 1))
  PROVE  Extended(Appended(items, more), items, more, p)
  <1> DEFINE new == Appended(items, more)
  <1>1. /\ IsSequence(Tail(more)) /\ Len(Tail(more)) = Len(more) - 1 /\ Head(more) = more[1] /\ 1 \in DOMAIN more
        /\ \A i \in DOMAIN Tail(more) : i + 1 \in DOMAIN more /\ Tail(more)[i] = more[i + 1]
    BY SeqTail
  <1> DEFINE Joins == items # <<>> /\ more[1].part = "tail" /\ Last(items) = Item(more[1].by, more[1].entry, "head")
             entire == Item(more[1].by, more[1].entry, "whole")
  <1>2. new = IF Joins THEN (Front(items) \o <<entire>>) \o Tail(more) ELSE items \o more
    BY <1>1 DEF Appended
  <1>3. Continues(items, more, p) => (Joins <=> more[1].part = "tail")
    BY <1>1 DEF Continues, Item
  <1>4. entire.by = p /\ entire.part = "whole" /\ entire.entry = more[1].entry
    BY <1>1 DEF Item
  <1> HIDE DEF new, entire
  <1>5. CASE Joins
    <2> DEFINE front == Front(items) \o <<entire>>
               tail == Tail(more)
    <2>1. /\ IsSequence(Front(items)) /\ Len(Front(items)) = Len(items) - 1
          /\ \A i \in DOMAIN Front(items) : i \in DOMAIN items /\ i < Len(items) /\ Front(items)[i] = items[i]
      BY <1>5, SeqFront
    <2>2. /\ IsSequence(front) /\ Len(front) = Len(items) - 1 + 1 /\ front[Len(items) - 1 + 1] = entire
          /\ \A i \in 1 .. (Len(items) - 1) : front[i] = Front(items)[i]
      <3>1. /\ IsSequence(front) /\ Len(front) = Len(Front(items)) + 1 /\ front[Len(Front(items)) + 1] = entire
            /\ \A i \in 1 .. Len(Front(items)) : front[i] = Front(items)[i]
        BY <2>1, SeqPush
      <3> HIDE DEF front
      <3>2. QED
        BY <2>1, <3>1
    <2>3. Len(items) \in Nat /\ Len(items) >= 1 /\ DOMAIN Front(items) = 1 .. (Len(items) - 1)
      BY <1>5, <2>1, SeqFacts
    <2>4. Len(front) = Len(items) /\ front[Len(items)] = entire
      <3> HIDE DEF front
      <3>1. Len(items) - 1 + 1 = Len(items)
        BY <2>3
      <3>2. QED
        BY <2>2, <3>1
    <2>5. \A i \in DOMAIN front : \/ i \in DOMAIN items /\ i < Len(items) /\ front[i] = items[i]
                                  \/ i = Len(items) /\ front[i] = entire
      <3> HIDE DEF front
      <3>1. DOMAIN front = 1 .. Len(items)
        BY <2>2, <2>4, SeqFacts
      <3>2. \A i \in 1 .. Len(items) : i = Len(items) \/ i \in 1 .. (Len(items) - 1)
        BY <2>3
      <3>3. QED
        BY <2>1, <2>2, <2>3, <2>4, <3>1, <3>2
    <2> HIDE DEF front
    <2>6. IsSequence(tail) /\ Len(tail) \in Nat
      BY <1>1, SeqFacts
    <2> HIDE DEF tail
    <2>7. new = front \o tail
      BY <1>2, <1>5 DEF front, tail
    <2>8. /\ IsSequence(front \o tail) /\ Len(front \o tail) = Len(items) + Len(tail)
          /\ \A i \in DOMAIN (front \o tail) :
               IF i <= Len(items) THEN i \in DOMAIN front /\ (front \o tail)[i] = front[i]
               ELSE i - Len(items) \in DOMAIN tail /\ (front \o tail)[i] = tail[i - Len(items)]
      <3>1. /\ IsSequence(front \o tail) /\ Len(front \o tail) = Len(front) + Len(tail)
            /\ \A i \in DOMAIN (front \o tail) :
                 IF i <= Len(front) THEN i \in DOMAIN front /\ (front \o tail)[i] = front[i]
                 ELSE i - Len(front) \in DOMAIN tail /\ (front \o tail)[i] = tail[i - Len(front)]
        <4>1. \A s, t : IsSequence(s) /\ IsSequence(t) =>
                /\ IsSequence(s \o t) /\ Len(s \o t) = Len(s) + Len(t)
                /\ \A i \in DOMAIN (s \o t) :
                     IF i <= Len(s) THEN i \in DOMAIN s /\ (s \o t)[i] = s[i]
                     ELSE i - Len(s) \in DOMAIN t /\ (s \o t)[i] = t[i - Len(s)]
          BY SeqConcat
        <4>2. QED
          BY <2>2, <2>6, <4>1
      <3>2. QED
        BY <2>4, <3>1
    <2>9. new # <<>>
      <3>1. Len(new) >= 1
        BY <2>3, <2>6, <2>7, <2>8
      <3>2. QED
        BY <3>1, SeqEmpty
    <2>10. ASSUME NEW i \in DOMAIN new
           PROVE  \/ i \in DOMAIN items /\ new[i] = items[i] /\ i < Len(items)
                  \/ /\ new[i].by = p /\ new[i].part = "whole"
                     /\ \E j \in DOMAIN more : new[i].entry = more[j].entry /\ i = Len(items) - 1 + j
      <3>1. CASE i <= Len(items)
        <4>1. i \in DOMAIN front /\ new[i] = front[i]
          BY <2>7, <2>8, <2>10, <3>1
        <4>2. CASE i \in DOMAIN items /\ i < Len(items) /\ front[i] = items[i]
          BY <4>1, <4>2
        <4>3. CASE i = Len(items) /\ front[i] = entire
          <5>1. i = Len(items) - 1 + 1
            BY <2>3, <4>3
          <5>2. QED
            BY <1>1, <1>4, <4>1, <4>3, <5>1
        <4>4. QED
          BY <2>5, <4>1, <4>2, <4>3
      <3>2. CASE ~(i <= Len(items))
        <4>1. i - Len(items) \in DOMAIN tail /\ new[i] = tail[i - Len(items)]
          BY <2>7, <2>8, <2>10, <3>2
        <4> DEFINE j == i - Len(items)
        <4>2. j + 1 \in DOMAIN more /\ new[i] = more[j + 1]
          BY <1>1, <4>1 DEF tail
        <4>3. j + 1 # 1 /\ i = Len(items) - 1 + (j + 1)
          <5>1. i \in Nat
            BY <2>7, <2>8, <2>10, SeqFacts
          <5>2. QED
            BY <2>3, <3>2, <5>1
        <4>4. new[i].by = p /\ new[i].part = "whole"
          <5> HIDE DEF j
          <5>1. QED
            BY <4>2, <4>3
        <4>5. QED
          BY <4>2, <4>3, <4>4
      <3>3. QED
        BY <3>1, <3>2
    <2>11. more[1].part = "tail"
      BY <1>5
    <2>12. IsSequence(new)
      BY <2>7, <2>8
    <2>13. \A i \in DOMAIN new : (i \in DOMAIN items /\ new[i] = items[i]) \/ new[i].by = p
      BY <2>10
    <2>14. Continues(items, more, p) => \A i \in DOMAIN new :
             \/ /\ i \in DOMAIN items /\ new[i] = items[i]
                /\ more[1].part = "tail" => i < Len(items)
             \/ /\ new[i].by = p /\ new[i].part = "whole"
                /\ \E j \in DOMAIN more :
                     /\ new[i].entry = more[j].entry
                     /\ i = IF more[1].part = "tail" THEN Len(items) - 1 + j ELSE Len(items) + j
      BY <2>10, <2>11
    <2>15. QED
      BY <2>9, <2>12, <2>13, <2>14 DEF new, Extended
  <1>6. CASE ~Joins
    <2> HIDE DEF Joins
    <2>1. new = items \o more
      BY <1>2, <1>6
    <2>2. /\ IsSequence(items \o more) /\ Len(items \o more) = Len(items) + Len(more)
          /\ \A i \in DOMAIN (items \o more) :
               IF i <= Len(items) THEN i \in DOMAIN items /\ (items \o more)[i] = items[i]
               ELSE i - Len(items) \in DOMAIN more /\ (items \o more)[i] = more[i - Len(items)]
      BY SeqConcat
    <2>3. Len(items) \in Nat /\ Len(more) \in Nat /\ Len(more) >= 1
      BY SeqFacts
    <2>4. new # <<>> /\ IsSequence(new)
      <3>1. Len(new) >= 1
        BY <2>1, <2>2, <2>3
      <3>2. QED
        BY <2>1, <2>2, <3>1, SeqEmpty
    <2>5. ASSUME NEW i \in DOMAIN new
          PROVE  \/ i \in DOMAIN items /\ new[i] = items[i]
                 \/ /\ new[i].by = p
                    /\ \E j \in DOMAIN more : new[i] = more[j] /\ i = Len(items) + j
      <3>1. CASE i <= Len(items)
        BY <2>1, <2>2, <2>5, <3>1
      <3>2. CASE ~(i <= Len(items))
        <4> DEFINE j == i - Len(items)
        <4>1. j \in DOMAIN more /\ new[i] = more[j]
          BY <2>1, <2>2, <2>5, <3>2
        <4>2. i = Len(items) + j
          <5>1. i \in Nat
            BY <2>1, <2>2, <2>5, SeqFacts
          <5>2. QED
            BY <2>3, <5>1
        <4> HIDE DEF j
        <4>3. QED
          BY <4>1, <4>2
      <3>3. QED
        BY <3>1, <3>2
    <2>6. Continues(items, more, p) => more[1].part # "tail" /\ \A i \in DOMAIN more : more[i].part = "whole"
      BY <1>3, <1>6
    <2>7. \A i \in DOMAIN new : (i \in DOMAIN items /\ new[i] = items[i]) \/ new[i].by = p
      BY <2>5
    <2>8. Continues(items, more, p) => \A i \in DOMAIN new :
             \/ /\ i \in DOMAIN items /\ new[i] = items[i]
                /\ more[1].part = "tail" => i < Len(items)
             \/ /\ new[i].by = p /\ new[i].part = "whole"
                /\ \E j \in DOMAIN more :
                     /\ new[i].entry = more[j].entry
                     /\ i = IF more[1].part = "tail" THEN Len(items) - 1 + j ELSE Len(items) + j
      BY <2>5, <2>6
    <2>9. QED
      BY <2>4, <2>7, <2>8 DEF new, Extended
  <1>7. QED
    BY <1>5, <1>6

---------------------------------------------------------------------------
(* No step splits an entry.                                                 *)

Stands == Listed /\ Placed /\ Cut /\ Halves

\* A process goes on without a word.
LEMMA StepsAside ==
  ASSUME IInv, Stands, NEW p \in Procs,
         file' = file, exporter' = exporter, given' = given, batch' = batch, format' = format,
         ~unsettled' => ~unsettled,
         \A q \in Procs \ {p} : pc'[q] = pc[q] /\ pending'[q] = pending[q],
         pending'[p] = pending[p] \/ pending'[p] = <<>>,
         pc[p] = "write" => pending'[p] = <<>>,
         pc'[p] \in Working => pc[p] \in Working,
         pc'[p] = "write" => pc[p] = "commit" /\ pending'[p] # <<>>,
         pc[p] \in {"failed", "dead", "start", "write"} => pc'[p] \in {"failed", "dead", "start"},
         pc'[p] \in {"unborn", "start"} => p = Root \/ pc[p] \in {"unborn", "start"}
  PROVE  Stands'
  <1>1. Listed'
    BY ListedStays DEF Stands
  <1>2. Placed'
    BY OutputAssumption DEF Stands, Placed, Path
  <1>3. Cut'
    <2> SUFFICES ASSUME NEW q \in Procs
                 PROVE  /\ pc'[q] = "write" => pending'[q] # <<>>
                        /\ \A i \in DOMAIN pending'[q] :
                             /\ pending'[q][i].by = q
                             /\ \/ pending'[q][i].part = "whole"
                                \/ pending'[q][i].part = "tail" /\ i = 1 /\ pc'[q] = "write"
      BY DEF Cut
    <2>1. CASE q # p
      BY <2>1 DEF Stands, Cut
    <2>2. CASE q = p /\ pending'[p] = <<>>
      BY <2>2
    <2>3. CASE q = p /\ pending'[p] = pending[p] /\ pc[p] # "write"
      BY <2>3 DEF Stands, Cut
    <2>4. QED
      BY <2>1, <2>2, <2>3
  <1>4. Halves'
    <2> SUFFICES ASSUME ~unsettled'
                 PROVE  /\ \A path \in Procs : \A i \in DOMAIN file'[path] : HalfIsLast(path, i)'
                        /\ \A q \in Procs : RestIsNext(q)'
      BY DEF Halves
    <2>1. ASSUME NEW path \in Procs, NEW i \in DOMAIN file[path] PROVE HalfIsLast(path, i)'
      <3>1. file[path][i].by \in Procs /\ HalfIsLast(path, i)
        BY DEF Stands, Halves, Placed
      <3>2. QED
        BY <3>1 DEF HalfIsLast
    <2>2. ASSUME NEW q \in Procs PROVE RestIsNext(q)'
      <3>1. CASE q # p
        BY <3>1 DEF Stands, Halves, RestIsNext, Path
      <3>2. CASE q = p
        <4>1. pc'[p] = "write" => pending'[p][1].part # "tail"
          <5> SUFFICES ASSUME pc'[p] = "write" PROVE pending'[p][1].part # "tail"
            OBVIOUS
          <5>1. pending'[p] = pending[p] /\ 1 \in DOMAIN pending[p] /\ pc[p] = "commit"
            BY SeqTail DEF Stands, Listed
          <5>2. QED
            BY <5>1 DEF Stands, Cut
        <4>2. QED
          BY <3>2, <4>1 DEF RestIsNext, Continues
      <3>3. QED
        BY <3>1, <3>2
    <2>3. QED
      BY <2>1, <2>2
  <1>5. QED
    BY <1>1, <1>2, <1>3, <1>4 DEF Stands

\* And the head of an array stays where it is.
LEMMA HeadStays ==
  ASSUME Headed, NEW p \in Procs, file' = file, given' = given, batch' = batch, format' = format,
         ~unsettled' => ~unsettled,
         \A q \in Procs \ {p} : pc'[q] = pc[q] /\ pending'[q] = pending[q],
         pending'[p] = pending[p] \/ pending'[p] = <<>>,
         format = "json" /\ ~unsettled' /\ file[Root] = <<>> =>
             /\ p \in Kids /\ pc'[p] \in Working \cup {"start"} => pc[p] \in Working \cup {"start"}
             /\ p = Root => /\ pc'[p] # "idle"
                            /\ pc'[p] \in {"commit", "write"} =>
                                 pc[p] \in {"commit", "write"} /\ pending'[p] = pending[p]
  PROVE  Headed'
  <1> SUFFICES ASSUME format' = "json", ~unsettled' PROVE Headed'
    BY DEF Headed
  <1>1. /\ \A i \in DOMAIN file[Root] : IsHead(file[Root][i]) <=> i = 1
        /\ \A q \in Procs : \A i \in DOMAIN pending[q] :
             IsHead(pending[q][i]) =>
                 q = Root /\ Len(pending[q]) = 1 /\ (pending[q][1].part = "whole" => file[Root] = <<>>)
        /\ file[Root] = <<>> =>
             /\ \A c \in Kids : pc[c] \notin Working \cup {"start"}
             /\ given[Root] = <<>> /\ pc[Root] # "idle"
             /\ pc[Root] \in {"commit", "write"} =>
                  pending[Root] # <<>> /\ IsHead(pending[Root][1]) /\ batch[Root] = <<>>
    BY DEF Headed
  <1>2. \A q \in Procs : \A i \in DOMAIN pending'[q] : pending'[q] = pending[q]
    <2>1. DOMAIN <<>> = {}
      OBVIOUS
    <2>2. QED
      BY <2>1
  <1>3. \A q \in Procs : \A i \in DOMAIN pending'[q] :
             IsHead(pending'[q][i]) =>
                 q = Root /\ Len(pending'[q]) = 1 /\ (pending'[q][1].part = "whole" => file'[Root] = <<>>)
    BY <1>1, <1>2
  <1>4. \A i \in DOMAIN file'[Root] : IsHead(file'[Root][i]) <=> i = 1
    BY <1>1
  <1>5. ASSUME file'[Root] = <<>>
        PROVE  /\ \A c \in Kids : pc'[c] \notin Working \cup {"start"}
               /\ given'[Root] = <<>> /\ pc'[Root] # "idle"
               /\ pc'[Root] \in {"commit", "write"} =>
                    pending'[Root] # <<>> /\ IsHead(pending'[Root][1]) /\ batch'[Root] = <<>>
    <2>1. \A c \in Kids : pc'[c] \notin Working \cup {"start"}
      BY <1>1, <1>5 DEF Procs
    <2>2. given'[Root] = <<>> /\ pc'[Root] # "idle"
      BY <1>1, <1>5 DEF Procs
    <2>3. ASSUME pc'[Root] \in {"commit", "write"}
          PROVE  pending'[Root] # <<>> /\ IsHead(pending'[Root][1]) /\ batch'[Root] = <<>>
      <3>1. pc[Root] \in {"commit", "write"} /\ pending'[Root] = pending[Root]
        BY <1>5, <2>3 DEF Procs
      <3>2. QED
        BY <1>1, <1>5, <3>1
    <2>4. QED
      BY <2>1, <2>2, <2>3
  <1>6. QED
    BY <1>3, <1>4, <1>5 DEF Headed, IsHead

Written == Stands /\ Headed

LEMMA AdvertiseStands ==
  ASSUME IInv, Written, Advertise
  PROVE  Written'
  <1>1. Root \in Procs /\ Root \notin Kids
    BY OutputAssumption DEF Procs
  <1>2. /\ file' = file /\ exporter' = exporter /\ given' = given /\ batch' = batch /\ format' = format
        /\ unsettled' = unsettled /\ pending' = pending /\ pc[Root] \in {"unborn", "closed", "failed"}
        /\ pc'[Root] = "start" /\ \A q \in Procs \ {Root} : pc'[q] = pc[q]
    BY <1>1 DEF Advertise, IInv, Shape
  <1>3. Stands'
    BY <1>1, <1>2, StepsAside DEF Written, Working
  <1>4. Headed'
    BY <1>1, <1>2, HeadStays DEF Written
  <1>5. QED
    BY <1>3, <1>4 DEF Written

\* As long as the output is empty, a child is only launched before it is settled.
LEMMA LaunchStands ==
  ASSUME IInv, Written, NEW c \in Kids, NEW forked \in BOOLEAN, Launch(c, forked)
  PROVE  Written'
  <1>1. c \in Procs /\ c # Root
    BY OutputAssumption DEF Procs
  <1>2. /\ file' = file /\ exporter' = exporter /\ given' = given /\ batch' = batch /\ format' = format
        /\ pending' = pending /\ pc[c] = "unborn" /\ pc'[c] = "start"
        /\ \A q \in Procs \ {c} : pc'[q] = pc[q]
    BY <1>1 DEF Launch, IInv, Shape
  <1>3. ~unsettled' => /\ ~unsettled /\ pc[Root] # "start"
                       /\ ~(pc[Root] = "failed" /\ given[Root] = <<>>)
    BY Zenon DEF Launch
  <1>4. /\ pc[Root] \notin {"unborn", "closed", "dead"}
        /\ pc[Root] \in {"commit", "write"} => batch[Root] # <<>>
    BY DEF Launch, NoChildren
  <1>5. Stands'
    BY <1>1, <1>2, <1>3, StepsAside DEF Written, Working
  <1>6. format = "json" /\ ~unsettled' => file[Root] # <<>>
    <2>1. pc[Root] \in PCs
      BY DEF IInv, Shape, Procs
    <2>2. QED
      BY <1>3, <1>4, <2>1 DEF Written, Headed, PCs
  <1>7. Headed'
    BY <1>1, <1>2, <1>3, <1>6, HeadStays DEF Written
  <1>8. QED
    BY <1>5, <1>7 DEF Written

LEMMA CommitNothingStands ==
  ASSUME IInv, Written, NEW p \in Procs, CommitNothing(p)
  PROVE  Written'
  <1>1. /\ file' = file /\ exporter' = exporter /\ given' = given /\ batch' = batch /\ format' = format
        /\ unsettled' = unsettled /\ pending' = pending /\ pending[p] = <<>>
        /\ pc[p] = "commit" /\ pc'[p] \in {"idle", "closed", "failed"}
        /\ \A q \in Procs \ {p} : pc'[q] = pc[q]
    BY DEF CommitNothing, Done, IInv, Shape
  <1>2. Stands'
    BY <1>1, StepsAside DEF Written, Working
  <1>3. format = "json" /\ ~unsettled' => file[Root] # <<>>
    BY <1>1 DEF Written, Headed, Working, Procs
  <1>4. Headed'
    BY <1>1, <1>3, HeadStays DEF Written
  <1>5. QED
    BY <1>2, <1>4 DEF Written

LEMMA AcquireStands ==
  ASSUME IInv, Written, NEW p \in Procs, Acquire(p)
  PROVE  Written'
  <1>1. /\ file' = file /\ exporter' = exporter /\ given' = given /\ batch' = batch /\ format' = format
        /\ unsettled' = unsettled /\ pending' = pending /\ pending[p] # <<>>
        /\ pc[p] = "commit" /\ pc'[p] = "write"
        /\ \A q \in Procs \ {p} : pc'[q] = pc[q]
    BY DEF Acquire, IInv, Shape
  <1>2. Stands'
    BY <1>1, StepsAside DEF Written, Working
  <1>3. Headed'
    BY <1>1, HeadStays DEF Written, Working
  <1>4. QED
    BY <1>2, <1>3 DEF Written

LEMMA AcquireFailsStands ==
  ASSUME IInv, Written, NEW p \in Procs, AcquireFails(p)
  PROVE  Written'
  <1>1. /\ file' = file /\ exporter' = exporter /\ given' = given /\ batch' = batch /\ format' = format
        /\ unsettled' = unsettled /\ pc[p] = "commit"
        /\ \A q \in Procs \ {p} : pc'[q] = pc[q] /\ pending'[q] = pending[q]
        /\ \/ pc'[p] = "commit" /\ pending'[p] = pending[p]
           \/ pc'[p] = "failed" /\ pending'[p] = <<>>
    BY DEF AcquireFails, Done, IInv, Shape
  <1>2. Stands'
    BY <1>1, StepsAside DEF Written, Working
  <1>3. Headed'
    BY <1>1, HeadStays DEF Written, Working
  <1>4. QED
    BY <1>2, <1>3 DEF Written

LEMMA WriteFailsStands ==
  ASSUME IInv, Written, NEW p \in Procs, WriteFails(p)
  PROVE  Written'
  <1>1. /\ file' = file /\ exporter' = exporter /\ given' = given /\ batch' = batch /\ format' = format
        /\ unsettled' = unsettled /\ pc[p] = "write" /\ pc'[p] = "failed" /\ pending'[p] = <<>>
        /\ \A q \in Procs \ {p} : pc'[q] = pc[q] /\ pending'[q] = pending[q]
    BY DEF WriteFails, IInv, Shape
  <1>2. Stands'
    BY <1>1, StepsAside DEF Written, Working
  <1>3. Headed'
    BY <1>1, HeadStays DEF Written, Working
  <1>4. QED
    BY <1>2, <1>3 DEF Written

LEMMA KillStands ==
  ASSUME IInv, Written, NEW p \in Procs, Kill(p)
  PROVE  Written'
  <1>1. /\ file' = file /\ exporter' = exporter /\ given' = given /\ batch' = batch /\ format' = format
        /\ unsettled' = unsettled /\ pc'[p] = "dead" /\ pending'[p] = <<>>
        /\ \A q \in Procs \ {p} : pc'[q] = pc[q] /\ pending'[q] = pending[q]
    BY DEF Kill, IInv, Shape
  <1>2. Stands'
    BY <1>1, StepsAside DEF Written, Working
  <1>3. Headed'
    BY <1>1, HeadStays DEF Written, Working
  <1>4. QED
    BY <1>2, <1>3 DEF Written

\* Finish and a batch's commit begin behind what is written.
LEMMA FillsStands ==
  ASSUME IInv, Written, NEW p \in Procs, NEW entries, NEW done, Fills(p, entries, done),
         pc[p] = "idle", file' = file, unsettled' = unsettled, Listed', done => entries = <<>>,
         format = "json" => \A i \in DOMAIN entries : entries[i].type # "head"
  PROVE  Written'
  <1>1. /\ pending'[p] = Items(p, entries) /\ format' = format /\ IsSequence(entries)
        /\ pc'[p] = IF done THEN "idle" ELSE "commit"
        /\ \A q \in Procs \ {p} : pc'[q] = pc[q] /\ pending'[q] = pending[q]
    BY DEF Fills, IInv, Shape
  <1>2. \A i \in DOMAIN pending'[p] :
          /\ i \in DOMAIN entries /\ pending'[p][i].by = p /\ pending'[p][i].part = "whole"
          /\ pending'[p][i].entry = entries[i]
    BY <1>1, ItemsListed
  <1>3. Placed'
    BY <1>1 DEF Written, Stands, Placed, Path
  <1>4. Cut'
    BY <1>1, <1>2 DEF Written, Stands, Cut
  <1>5. Halves'
    <2> SUFFICES ASSUME ~unsettled'
                 PROVE  /\ \A path \in Procs : \A i \in DOMAIN file'[path] : HalfIsLast(path, i)'
                        /\ \A q \in Procs : RestIsNext(q)'
      BY DEF Halves
    <2>1. ASSUME NEW path \in Procs, NEW i \in DOMAIN file[path] PROVE HalfIsLast(path, i)'
      <3>1. file[path][i].by \in Procs /\ HalfIsLast(path, i)
        BY DEF Written, Stands, Halves, Placed
      <3>2. QED
        BY <1>1, <3>1 DEF HalfIsLast
    <2>2. ASSUME NEW q \in Procs PROVE RestIsNext(q)'
      BY <1>1 DEF Written, Stands, Halves, RestIsNext, Path
    <2>3. QED
      BY <2>1, <2>2
  <1>6. Headed'
    <2> SUFFICES ASSUME format' = "json", ~unsettled' PROVE Headed'
      BY DEF Headed
    <2>1. file[Root] # <<>>
      BY <1>1 DEF Written, Headed, Working, Procs
    <2>2. \A i \in DOMAIN pending'[p] : ~IsHead(pending'[p][i])
      BY <1>1, <1>2 DEF IsHead
    <2>3. /\ \A i \in DOMAIN file'[Root] : IsHead(file'[Root][i]) <=> i = 1
          /\ \A q \in Procs : \A i \in DOMAIN pending[q] :
               IsHead(pending[q][i]) =>
                 q = Root /\ Len(pending[q]) = 1 /\ (pending[q][1].part = "whole" => file'[Root] = <<>>)
      BY <1>1 DEF Written, Headed
    <2>4. \A q \in Procs : \A i \in DOMAIN pending'[q] :
               IsHead(pending'[q][i]) =>
                 q = Root /\ Len(pending'[q]) = 1 /\ (pending'[q][1].part = "whole" => file'[Root] = <<>>)
      BY <1>1, <2>2, <2>3
    <2>5. QED
      BY <2>1, <2>3, <2>4 DEF Headed, IsHead
  <1>7. QED
    BY <1>3, <1>4, <1>5, <1>6 DEF Written, Stands

LEMMA WriteBatchStands ==
  ASSUME IInv, Written, NEW p \in Procs, NEW b \in Batches, WriteBatch(p, b)
  PROVE  Written'
  <1>1. PICK entries :
           /\ Fills(p, entries, entries = <<>>) /\ pc[p] = "idle"
           /\ format = "json" => \A i \in DOMAIN entries : entries[i].type = "event"
           /\ file' = file /\ unsettled' = unsettled
           /\ \E events : /\ IsSequence(events)
                          /\ IF entries = <<>>
                             THEN given' = [given EXCEPT ![p] = Append(@, events)] /\ batch' = batch
                             ELSE batch' = [batch EXCEPT ![p] = <<events>>] /\ given' = given
    BY WriteBatchDoes DEF Written, Stands
  <1>2. PICK events : /\ IsSequence(events)
                      /\ IF entries = <<>>
                         THEN given' = [given EXCEPT ![p] = Append(@, events)] /\ batch' = batch
                         ELSE batch' = [batch EXCEPT ![p] = <<events>>] /\ given' = given
    BY <1>1
  <1>3. /\ DOMAIN file = Procs /\ DOMAIN given = Procs /\ DOMAIN batch = Procs
    BY DEF Written, Stands, Listed
  <1>4. /\ DOMAIN given' = Procs /\ DOMAIN batch' = Procs
        /\ \A q \in Procs : given'[q] = given[q] \/ given'[q] = Append(given[q], events)
        /\ \A q \in Procs : batch'[q] = batch[q] \/ batch'[q] = <<events>>
    BY <1>2, <1>3
  <1>5. Listed'
    BY <1>1, <1>2, <1>3, <1>4, FilledListed DEF Written, Stands
  <1>6. QED
    BY <1>1, <1>5, FillsStands

LEMMA FinishStands ==
  ASSUME IInv, Written, NEW p \in Procs, NEW dropped \in Losses, Finish(p, dropped)
  PROVE  Written'
  <1>1. PICK entries :
           /\ Fills(p, entries, FALSE) /\ pc[p] = "idle"
           /\ format = "json" => \A i \in DOMAIN entries : entries[i].type \in {"thread_name", "dropped"}
           /\ file' = file /\ unsettled' = unsettled /\ given' = given
           /\ batch' = [batch EXCEPT ![p] = <<>>]
    BY FinishDoes DEF Written, Stands
  <1>2. DOMAIN file = Procs /\ DOMAIN given = Procs /\ DOMAIN batch = Procs
    BY DEF Written, Stands, Listed
  <1>3. DOMAIN batch' = Procs /\ \A q \in Procs : batch'[q] = batch[q] \/ batch'[q] = <<>>
    BY <1>1, <1>2
  <1>4. Listed'
    BY <1>1, <1>2, <1>3, FilledListed DEF Written, Stands
  <1>5. QED
    BY <1>1, <1>4, FillsStands

\* A process that opens the output finds nobody else at work on what it clears.
LEMMA OpenStands ==
  ASSUME IInv, Written, NEW p \in Procs, Open(p)
  PROVE  Written'
  <1>1. PICK entries :
           /\ Fills(p, entries, entries = <<>>) /\ pc[p] = "start"
           /\ format = "json" => entries = IF p = Root THEN <<[type |-> "head"]>> ELSE <<>>
           /\ file' = IF StartsOver(p) THEN [file EXCEPT ![Path(p)] = <<>>] ELSE file
           /\ given' = [q \in Procs |-> IF q = p \/ (StartsOver(p) /\ Path(q) = Path(p)) THEN <<>> ELSE given[q]]
           /\ batch' = [batch EXCEPT ![p] = <<>>]
           /\ ~unsettled' => /\ ~unsettled
                             /\ p = Root => \A c \in Kids : pc[c] \in {"unborn", "closed", "failed", "dead"}
    BY OpenDoes DEF Written, Stands
  <1>2. /\ DOMAIN file = Procs /\ DOMAIN given = Procs /\ DOMAIN batch = Procs /\ Root \in Procs /\ Root \notin Kids
        /\ \A q \in Procs : Path(q) \in Procs
    BY PathIsOne, OutputAssumption DEF Written, Stands, Listed, Procs
  <1>3. /\ pending'[p] = Items(p, entries) /\ format' = format /\ IsSequence(entries)
        /\ pc'[p] \in {"idle", "commit"} /\ (pc'[p] = "idle" => entries = <<>>)
        /\ \A q \in Procs \ {p} : pc'[q] = pc[q] /\ pending'[q] = pending[q]
    BY <1>1 DEF Fills, IInv, Shape
  <1>4. /\ Len(pending'[p]) = Len(entries)
        /\ \A i \in DOMAIN pending'[p] :
          /\ i \in DOMAIN entries /\ pending'[p][i].by = p /\ pending'[p][i].part = "whole"
          /\ pending'[p][i].entry = entries[i]
    BY <1>3, ItemsListed
  <1>5. Listed'
    <2>1. /\ DOMAIN file' = Procs /\ \A q \in Procs : file'[q] = file[q] \/ file'[q] = <<>>
      BY <1>1, <1>2
    <2>2. /\ DOMAIN batch' = Procs /\ \A q \in Procs : batch'[q] = batch[q] \/ batch'[q] = <<>>
      BY <1>1, <1>2
    <2>3. /\ DOMAIN given' = Procs /\ \A q \in Procs : given'[q] = given[q] \/ given'[q] = <<>>
      BY <1>1, <1>2
    <2>4. QED
      BY <1>1, <2>1, <2>2, <2>3, FilledListed DEF Written, Stands
  \* Nothing of p's is left in its file.
  <1>6. \A path \in Procs : \A i \in DOMAIN file'[path] :
          i \in DOMAIN file[path] /\ file'[path] = file[path] /\ file[path][i].by # p
    <2> SUFFICES ASSUME NEW path \in Procs, NEW i \in DOMAIN file'[path]
                 PROVE  i \in DOMAIN file[path] /\ file'[path] = file[path] /\ file[path][i].by # p
      OBVIOUS
    <2>1. DOMAIN <<>> = {}
      OBVIOUS
    <2>2. file'[path] = file[path] /\ ~(StartsOver(p) /\ path = Path(p))
      BY <1>1, <1>2, <2>1
    <2>3. Path(file[path][i].by) = path /\ (file[path][i].by \in Kids => pc[file[path][i].by] # "start")
      BY <2>2 DEF Written, Stands, Placed
    <2>4. file[path][i].by # p
      BY <1>1, <2>2, <2>3 DEF StartsOver, Procs
    <2>5. QED
      BY <2>2, <2>4
  <1>7. Placed'
    BY <1>3, <1>6 DEF Written, Stands, Placed, Path
  <1>8. Cut'
    BY <1>3, <1>4 DEF Written, Stands, Cut
  <1>9. Halves'
    <2> SUFFICES ASSUME ~unsettled'
                 PROVE  /\ \A path \in Procs : \A i \in DOMAIN file'[path] : HalfIsLast(path, i)'
                        /\ \A q \in Procs : RestIsNext(q)'
      BY DEF Halves
    <2>1. ASSUME NEW path \in Procs, NEW i \in DOMAIN file'[path] PROVE HalfIsLast(path, i)'
      <3>1. file[path][i].by \in Procs \ {p} /\ HalfIsLast(path, i) /\ file'[path] = file[path]
        BY <1>1, <1>6, <2>1 DEF Written, Stands, Halves, Placed
      <3>2. QED
        BY <1>3, <3>1 DEF HalfIsLast
    <2>2. ASSUME NEW q \in Procs PROVE RestIsNext(q)'
      <3>1. CASE pc'[q] # "write"
        BY <3>1 DEF RestIsNext
      <3>2. CASE pc'[q] = "write"
        <4>1. q # p /\ pc[q] = "write"
          BY <1>3, <3>2
        <4>2. ~(StartsOver(p) /\ Path(q) = Path(p))
          BY <1>1, <4>1 DEF StartsOver, Path, Procs
        <4>3. file'[Path(q)] = file[Path(q)]
          BY <1>1, <1>2, <4>2
        <4>4. RestIsNext(q)
          BY <1>1 DEF Written, Stands, Halves
        <4>5. QED
          BY <1>3, <4>1, <4>3, <4>4 DEF RestIsNext, Path
      <3>3. QED
        BY <3>1, <3>2
    <2>3. QED
      BY <2>1, <2>2
  <1>10. Headed'
    <2> SUFFICES ASSUME format' = "json", ~unsettled' PROVE Headed'
      BY DEF Headed
    <2>1. format = "json" /\ ~unsettled /\ Path(p) = Root
      BY <1>1, <1>3 DEF Path
    <2>2. \A q \in Procs \ {p} : \A i \in DOMAIN pending'[q] :
               IsHead(pending'[q][i]) => q = Root /\ Len(pending'[q]) = 1
      BY <1>3, <2>1 DEF Written, Headed
    <2>3. CASE p = Root
      <3>1. file'[Root] = <<>> /\ given'[Root] = <<>> /\ batch'[Root] = <<>>
        BY <1>1, <1>2, <2>1, <2>3 DEF StartsOver
      <3>2. Len(entries) = 1 /\ entries[1] = [type |-> "head"] /\ pc'[Root] = "commit"
        BY <1>1, <1>3, <2>1, <2>3
      <3>3. Len(pending'[p]) = 1 /\ pending'[p] # <<>> /\ IsHead(pending'[p][1])
        <4>1. Len(pending'[p]) = 1 /\ pending'[p] # <<>> /\ IsSequence(pending'[p])
          BY <1>3, <1>4, <3>2, ItemsListed, SeqEmpty
        <4>2. 1 \in DOMAIN pending'[p]
          BY <4>1, SeqTail
        <4>3. QED
          BY <1>4, <3>2, <4>1, <4>2 DEF IsHead
      <3>4. \A c \in Kids : pc'[c] \notin Working \cup {"start"}
        BY <1>1, <1>2, <1>3, <2>3 DEF Working, Procs
      <3>5. DOMAIN file'[Root] = {}
        BY <3>1
      <3>6. QED
        BY <2>2, <2>3, <3>1, <3>2, <3>3, <3>4, <3>5 DEF Headed, IsHead
    <2>4. CASE p # Root
      <3>1. file' = file /\ pending'[p] = <<>> /\ p \in Kids
        BY <1>1, <1>3, <2>1, <2>4, NothingToCommit DEF StartsOver, Procs
      <3>2. file[Root] # <<>>
        BY <1>1, <2>1, <3>1 DEF Written, Headed
      <3>3. /\ \A i \in DOMAIN file'[Root] : IsHead(file'[Root][i]) <=> i = 1
            /\ \A q \in Procs : \A i \in DOMAIN pending[q] :
                 IsHead(pending[q][i]) => (pending[q][1].part = "whole" => file'[Root] = <<>>)
        BY <2>1, <3>1 DEF Written, Headed
      <3>4. DOMAIN pending'[p] = {}
        BY <3>1
      <3>5. \A q \in Procs : \A i \in DOMAIN pending'[q] :
               IsHead(pending'[q][i]) =>
                 q = Root /\ Len(pending'[q]) = 1 /\ (pending'[q][1].part = "whole" => file'[Root] = <<>>)
        BY <1>3, <2>2, <3>3, <3>4
      <3>6. QED
        BY <3>1, <3>2, <3>3, <3>5 DEF Headed, IsHead
    <2>5. QED
      BY <2>3, <2>4
  <1>11. QED
    BY <1>5, <1>7, <1>8, <1>9, <1>10 DEF Written, Stands

\* Only p writes to its file.
LEMMA WritesAlone ==
  ASSUME IInv, NEW p \in Procs, pc[p] = "write"
  PROVE  \A q \in Procs \ {p} : pc[q] = "write" => Path(q) # Path(p)
  BY DEF IInv, OneWriter

\* The end of the file, and the start of what is pending, are the halves of one
\* entry.
LEMMA WritePartStands ==
  ASSUME IInv, Written, NEW p \in Procs, NEW n \in 0 .. (Len(pending[p]) - 1), WritePart(p, n)
  PROVE  Written'
  <1> DEFINE path == Path(p)
             cut == pending[p][n + 1].entry
             more == SubSeq(pending[p], 1, n) \o <<Item(p, cut, "head")>>
             new == file[path] \o more
  <1>1. /\ pc[p] = "write" /\ pc' = pc /\ format' = format /\ given' = given /\ batch' = batch
        /\ exporter' = exporter /\ unsettled' = unsettled
    BY DEF WritePart
  <1>2. /\ IsSequence(more) /\ Len(more) = n + 1 /\ n \in Nat
        /\ more[n + 1] = Item(p, cut, "head")
        /\ \A i \in 1 .. n : more[i] = pending[p][i] /\ i \in DOMAIN pending[p]
        /\ file' = [file EXCEPT ![path] = new]
        /\ IsSequence(pending'[p]) /\ pending'[p] # <<>>
        /\ Len(pending'[p]) = Len(pending[p]) - n
        /\ pending'[p][1] = Item(p, cut, "tail")
        /\ \A i \in DOMAIN pending'[p] : i # 1 =>
             n + i \in DOMAIN pending[p] /\ pending'[p][i] = pending[p][n + i]
        /\ \A q \in Procs \ {p} : pending'[q] = pending[q]
        /\ \A i \in DOMAIN pending[p] : pending[p][i].part = "whole"
        /\ n + 1 \in DOMAIN pending[p]
    BY PartDoes DEF Written, Stands
  <1>3. /\ path \in Procs /\ DOMAIN file = Procs /\ IsSequence(file[path]) /\ Len(file[path]) \in Nat
        /\ DOMAIN file[path] = 1 .. Len(file[path])
    BY PathIsOne, SeqFacts DEF Written, Stands, Listed
  <1> HIDE DEF path, more
  <1>4. /\ IsSequence(new) /\ Len(new) = Len(file[path]) + (n + 1)
        /\ \A i \in DOMAIN new : \/ i \in DOMAIN file[path] /\ new[i] = file[path][i]
                                 \/ \E j \in 1 .. (n + 1) : i = Len(file[path]) + j /\ new[i] = more[j]
    <2>1. /\ IsSequence(new) /\ Len(new) = Len(file[path]) + Len(more)
          /\ \A i \in DOMAIN new :
               IF i <= Len(file[path]) THEN i \in DOMAIN file[path] /\ new[i] = file[path][i]
               ELSE i - Len(file[path]) \in DOMAIN more /\ new[i] = more[i - Len(file[path])]
      <3>1. PICK items : items = file[path]
        OBVIOUS
      <3>2. IsSequence(items)
        BY <1>3, <3>1
      <3>3. /\ IsSequence(items \o more) /\ Len(items \o more) = Len(items) + Len(more)
            /\ \A i \in DOMAIN (items \o more) :
                 IF i <= Len(items) THEN i \in DOMAIN items /\ (items \o more)[i] = items[i]
                 ELSE i - Len(items) \in DOMAIN more /\ (items \o more)[i] = more[i - Len(items)]
        <4>1. \A s, t : IsSequence(s) /\ IsSequence(t) =>
                /\ IsSequence(s \o t) /\ Len(s \o t) = Len(s) + Len(t)
                /\ \A i \in DOMAIN (s \o t) :
                     IF i <= Len(s) THEN i \in DOMAIN s /\ (s \o t)[i] = s[i]
                     ELSE i - Len(s) \in DOMAIN t /\ (s \o t)[i] = t[i - Len(s)]
          BY SeqConcat
        <4>2. QED
          BY <1>2, <3>2, <4>1
      <3>4. QED
        BY <3>1, <3>3
    <2> HIDE DEF new
    <2>2. ASSUME NEW i \in DOMAIN new
          PROVE  \/ i \in DOMAIN file[path] /\ new[i] = file[path][i]
                 \/ \E j \in 1 .. (n + 1) : i = Len(file[path]) + j /\ new[i] = more[j]
      <3>1. CASE i <= Len(file[path])
        BY <2>1, <3>1
      <3>2. CASE ~(i <= Len(file[path]))
        <4>1. i \in Nat /\ DOMAIN more = 1 .. (n + 1)
          BY <1>2, <2>1, SeqFacts
        <4>2. i - Len(file[path]) \in DOMAIN more /\ new[i] = more[i - Len(file[path])]
          BY <2>1, <3>2
        <4>3. i = Len(file[path]) + (i - Len(file[path]))
          BY <1>3, <4>1
        <4>4. QED
          BY <4>1, <4>2, <4>3
      <3>3. QED
        BY <3>1, <3>2
    <2>3. QED
      BY <1>2, <2>1, <2>2
  <1> HIDE DEF new
  \* What is new has p's entries, and all but its last item are whole.
  <1>5. /\ \A j \in 1 .. (n + 1) : /\ more[j].by = p /\ j \in DOMAIN pending[p]
                                   /\ more[j].entry = pending[p][j].entry
                                   /\ j <= n => more[j].part = "whole"
        /\ more[n + 1].part = "head" /\ more[n + 1].entry = cut
    <2>1. more[n + 1].by = p /\ more[n + 1].part = "head" /\ more[n + 1].entry = cut
      BY <1>2 DEF Item
    <2>2. \A j \in 1 .. n : more[j].by = p /\ more[j].part = "whole"
      BY <1>2 DEF Written, Stands, Cut
    <2>3. \A j \in 1 .. (n + 1) : j \in 1 .. n \/ j = n + 1
      BY <1>2
    <2>4. \A j \in 1 .. n : ~(n + 1 <= n)
      BY <1>2
    <2>5. QED
      BY <1>2, <2>1, <2>2, <2>3, <2>4
  <1>6. \A q \in Procs : file'[q] = IF q = path THEN new ELSE file[q]
    BY <1>2, <1>3
  <1>7. new # <<>>
    <2>1. Len(new) >= 1
      BY <1>2, <1>3, <1>4
    <2>2. QED
      BY <2>1, SeqEmpty
  <1>8. Listed'
    <2>1. DOMAIN file' = Procs /\ \A q \in Procs : IsSequence(file'[q])
      BY <1>2, <1>3, <1>4 DEF Written, Stands, Listed
    <2>2. \A q \in Procs : IsSequence(pending'[q])
      BY <1>2 DEF Written, Stands, Listed
    <2>3. QED
      BY <1>1, <2>1, <2>2 DEF Written, Stands, Listed
  <1>9. Placed'
    <2> SUFFICES ASSUME NEW q \in Procs, NEW i \in DOMAIN file'[q]
                 PROVE  /\ file'[q][i].by \in Procs /\ Path(file'[q][i].by) = q
                        /\ file'[q][i].by \in Kids => pc[file'[q][i].by] \notin {"unborn", "start"}
      BY <1>1 DEF Placed, Path
    <2>1. CASE i \in DOMAIN file[q] /\ file'[q][i] = file[q][i]
      BY <2>1 DEF Written, Stands, Placed
    <2>2. CASE q = path /\ file'[q][i].by = p
      BY <1>1, <2>2 DEF path
    <2>3. CASE q # path
      BY <1>6, <2>1, <2>3
    <2>4. CASE q = path
      <3>1. i \in DOMAIN new /\ file'[q] = new
        BY <1>6, <2>4
      <3>2. CASE i \in DOMAIN file[path] /\ new[i] = file[path][i]
        BY <2>1, <2>4, <3>1, <3>2
      <3>3. ASSUME NEW j \in 1 .. (n + 1), new[i] = more[j] PROVE file'[q][i].by = p
        BY <1>5, <3>1, <3>3
      <3>4. QED
        BY <1>4, <2>2, <2>4, <3>1, <3>2, <3>3
    <2>5. QED
      BY <2>3, <2>4
  <1>10. Cut'
    <2>1. pending'[p][1].by = p /\ pending'[p][1].part = "tail" /\ pending'[p][1].entry = cut
      BY <1>2 DEF Item
    <2>2. ASSUME NEW i \in DOMAIN pending'[p] PROVE pending'[p][i].by = p /\ (pending'[p][i].part = "whole" \/ i = 1)
      <3>1. \A j \in DOMAIN pending[p] : pending[p][j].by = p
        BY DEF Written, Stands, Cut
      <3>2. CASE i = 1
        BY <2>1, <3>2
      <3>3. CASE i # 1
        BY <1>2, <2>2, <3>1, <3>3
      <3>4. QED
        BY <3>2, <3>3
    <2>3. ASSUME NEW i \in DOMAIN pending'[p] PROVE pending'[p][i].part \in {"whole", "tail"}
      <3>1. CASE i = 1
        BY <2>1, <3>1
      <3>2. CASE i # 1
        BY <1>2, <2>3, <3>2
      <3>3. QED
        BY <3>1, <3>2
    <2>4. ASSUME NEW q \in Procs
          PROVE  /\ pc'[q] = "write" => pending'[q] # <<>>
                 /\ \A i \in DOMAIN pending'[q] :
                      /\ pending'[q][i].by = q
                      /\ \/ pending'[q][i].part = "whole"
                         \/ pending'[q][i].part = "tail" /\ i = 1 /\ pc'[q] = "write"
      <3>1. CASE q = p
        <4>1. pc'[p] = "write" /\ pending'[p] # <<>>
          BY <1>1, <1>2
        <4>2. QED
          BY <2>2, <2>3, <3>1, <4>1
      <3>2. CASE q # p
        <4>1. pc'[q] = pc[q] /\ pending'[q] = pending[q]
          BY <1>1, <1>2, <3>2
        <4>2. QED
          BY <4>1 DEF Written, Stands, Cut
      <3>3. QED
        BY <3>1, <3>2
    <2>5. QED
      BY <2>4 DEF Cut
  <1>11. Halves'
    <2> SUFFICES ASSUME ~unsettled'
                 PROVE  /\ \A q \in Procs : \A i \in DOMAIN file'[q] : HalfIsLast(q, i)'
                        /\ \A q \in Procs : RestIsNext(q)'
      BY DEF Halves
    <2>1. pending[p][1].part = "whole"
      BY <1>2, SeqTail DEF Written, Stands, Listed, Cut
    <2>2. ASSUME NEW q \in Procs, NEW i \in DOMAIN file'[q] PROVE HalfIsLast(q, i)'
      <3>1. CASE i \in DOMAIN file[q] /\ file'[q][i] = file[q][i]
        <4>1. HalfIsLast(q, i) /\ file[q][i].by \in Procs /\ Path(file[q][i].by) = q
          BY <1>1, <3>1 DEF Written, Stands, Halves, Placed
        <4>2. CASE file[q][i].part = "whole"
          BY <3>1, <4>2 DEF HalfIsLast
        <4>3. CASE file[q][i].part = "head" /\ pc[file[q][i].by] \in {"failed", "dead", "start"}
          BY <1>1, <3>1, <4>3 DEF HalfIsLast
        <4>4. CASE /\ file[q][i].part = "head" /\ pc[file[q][i].by] = "write" /\ i = Len(file[q])
                   /\ pending[file[q][i].by][1] = Item(file[q][i].by, file[q][i].entry, "tail")
          <5>1. pending[file[q][i].by][1].part = "tail"
            BY <4>4 DEF Item
          <5>2. file[q][i].by # p
            BY <2>1, <5>1
          <5>3. q # path
            BY <1>1, <4>1, <4>4, <5>2, WritesAlone DEF path
          <5>4. QED
            BY <1>1, <1>2, <1>6, <3>1, <4>1, <4>4, <5>2, <5>3 DEF HalfIsLast, Item
        <4>5. QED
          BY <4>1, <4>2, <4>3, <4>4 DEF HalfIsLast
      <3>2. ASSUME q = path, NEW j \in 1 .. (n + 1), i = Len(file[path]) + j, file'[q][i] = more[j]
            PROVE  HalfIsLast(q, i)'
        <4>1. CASE j <= n
          BY <1>5, <3>2, <4>1 DEF HalfIsLast
        <4>2. CASE j = n + 1
          <5>1. i = Len(file'[q]) /\ file'[q][i] = Item(p, cut, "head")
            BY <1>2, <1>4, <1>6, <3>2, <4>2
          <5>2. /\ file'[q][i].part = "head" /\ file'[q][i].by = p /\ file'[q][i].entry = cut
            BY <5>1 DEF Item
          <5>3. QED
            BY <1>1, <1>2, <5>1, <5>2 DEF HalfIsLast, Item
        <4>3. QED
          BY <1>2, <4>1, <4>2
      <3>3. CASE q # path
        BY <1>6, <2>2, <3>1, <3>3
      <3>4. CASE q = path
        <4>1. i \in DOMAIN new /\ file'[q] = new
          BY <1>6, <2>2, <3>4
        <4>2. CASE i \in DOMAIN file[path] /\ new[i] = file[path][i]
          BY <3>1, <3>4, <4>1, <4>2
        <4>3. ASSUME NEW j \in 1 .. (n + 1), i = Len(file[path]) + j, new[i] = more[j]
              PROVE  HalfIsLast(q, i)'
          BY <3>2, <3>4, <4>1, <4>3
        <4>4. QED
          BY <1>4, <4>1, <4>2, <4>3
      <3>5. QED
        BY <3>3, <3>4
    <2>3. ASSUME NEW q \in Procs PROVE RestIsNext(q)'
      <3>1. CASE q # p
        <4>1. pc[q] = "write" => Path(q) # path
          BY <1>1, <3>1, WritesAlone DEF path
        <4>2. RestIsNext(q) /\ Path(q) \in Procs
          BY <1>1, PathIsOne DEF Written, Stands, Halves
        <4>3. QED
          BY <1>1, <1>2, <1>6, <3>1, <4>1, <4>2 DEF RestIsNext, Path
      <3>2. CASE q = p
        <4>1. file'[path] = new /\ Last(new) = Item(p, cut, "head")
          <5>1. Len(new) \in DOMAIN new
            BY <1>4, <1>7, SeqFacts
          <5>2. \A j \in 1 .. (n + 1) : Len(new) = Len(file[path]) + j => j = n + 1
            BY <1>2, <1>3, <1>4
          <5>3. Len(new) \notin DOMAIN file[path]
            BY <1>2, <1>3, <1>4
          <5>4. QED
            BY <1>2, <1>3, <1>4, <1>6, <5>1, <5>2, <5>3 DEF Last
        <4>2. pending'[p][1].entry = cut
          BY <1>2 DEF Item
        <4>3. Path(p)' = path
          BY <1>1 DEF Path, path
        <4>4. QED
          BY <1>7, <3>2, <4>1, <4>2, <4>3 DEF RestIsNext, Continues, Item
      <3>3. QED
        BY <3>1, <3>2
    <2>4. QED
      BY <2>2, <2>3
  <1>12. Headed'
    <2> SUFFICES ASSUME format = "json", ~unsettled PROVE Headed'
      BY <1>1 DEF Headed
    <2>1. path = Root
      BY DEF path, Path
    <2>2. /\ \A i \in DOMAIN file[Root] : IsHead(file[Root][i]) <=> i = 1
          /\ \A q \in Procs : \A i \in DOMAIN pending[q] :
               IsHead(pending[q][i]) =>
                 q = Root /\ Len(pending[q]) = 1 /\ (pending[q][1].part = "whole" => file[Root] = <<>>)
          /\ file[Root] = <<>> => p = Root /\ IsHead(pending[p][1])
      BY <1>1 DEF Written, Headed, Working, Procs
    <2>3. pending[p][1].part = "whole" /\ 1 \in DOMAIN pending[p]
      BY <1>2, SeqTail DEF Written, Stands, Listed
    \* The head, if it is pending, is all there is, and comes first.
    <2>4. ASSUME NEW j \in 1 .. (n + 1), IsHead(more[j])
          PROVE  p = Root /\ n = 0 /\ j = 1 /\ file[Root] = <<>> /\ Len(pending[p]) = 1
      <3>1. IsHead(pending[p][j]) /\ j \in DOMAIN pending[p]
        BY <1>5, <2>4 DEF IsHead
      <3>2. p = Root /\ Len(pending[p]) = 1 /\ file[Root] = <<>>
        BY <2>2, <2>3, <3>1
      <3>3. n + 1 \in 1 .. 1 /\ j \in 1 .. 1
        <4>1. DOMAIN pending[p] = 1 .. 1
          BY <3>2, SeqFacts DEF Written, Stands, Listed
        <4>2. QED
          BY <1>2, <3>1, <4>1
      <3>4. QED
        BY <1>2, <3>2, <3>3
    <2>5. ASSUME NEW i \in DOMAIN new PROVE IsHead(new[i]) <=> i = 1
      <3>1. CASE i \in DOMAIN file[path] /\ new[i] = file[path][i]
        BY <2>1, <2>2, <3>1 DEF IsHead
      <3>2. ASSUME NEW j \in 1 .. (n + 1), i = Len(file[path]) + j, new[i] = more[j]
            PROVE  IsHead(new[i]) <=> i = 1
        <4>1. ASSUME IsHead(new[i]) PROVE i = 1
          <5>1. IsHead(more[j])
            BY <3>2, <4>1
          <5>2. j = 1 /\ file[path] = <<>>
            BY <2>1, <2>4, <5>1
          <5>3. Len(file[path]) = 0
            BY <5>2, SeqEmpty
          <5>4. QED
            BY <3>2, <5>2, <5>3
        <4>2. ASSUME i = 1 PROVE IsHead(new[i])
          <5>1. Len(file[path]) = 0 /\ j = 1
            BY <1>3, <3>2, <4>2
          <5>2. file[path] = <<>>
            BY <1>3, <5>1, SeqFacts
          <5>3. IsHead(pending[p][1])
            BY <2>1, <2>2, <5>2
          <5>4. QED
            BY <1>5, <3>2, <5>1, <5>3 DEF IsHead
        <4>3. QED
          BY <4>1, <4>2
      <3>3. QED
        BY <1>4, <3>1, <3>2
    <2>6. \A i \in DOMAIN file'[Root] : IsHead(file'[Root][i]) <=> i = 1
      BY <1>3, <1>6, <2>1, <2>5 DEF IsHead
    <2>7. file'[Root] # <<>>
      BY <1>3, <1>6, <1>7, <2>1
    <2>8. ASSUME NEW i \in DOMAIN pending'[p], IsHead(pending'[p][i])
          PROVE  p = Root /\ Len(pending'[p]) = 1 /\ pending'[p][1].part = "tail"
      <3>1. pending'[p][1].part = "tail" /\ pending'[p][1].entry = cut
        BY <1>2 DEF Item
      <3>2. CASE i = 1
        <4>1. IsHead(more[n + 1])
          BY <1>5, <2>8, <3>1, <3>2 DEF IsHead
        <4>2. n + 1 \in 1 .. (n + 1)
          BY <1>2
        <4>3. p = Root /\ n = 0 /\ Len(pending[p]) = 1
          BY <2>4, <4>1, <4>2
        <4>4. QED
          BY <1>2, <3>1, <4>3
      <3>3. CASE i # 1
        <4>1. n + i \in DOMAIN pending[p] /\ IsHead(pending[p][n + i])
          BY <1>2, <2>8, <3>3 DEF IsHead
        <4>2. Len(pending[p]) = 1
          BY <2>2, <4>1
        <4>3. n + i \in 1 .. 1 /\ i \in Nat /\ i >= 1
          BY <1>2, <4>1, <4>2, SeqFacts DEF Written, Stands, Listed
        <4>4. QED
          BY <1>2, <3>3, <4>3
      <3>4. QED
        BY <3>2, <3>3
    <2>9. ASSUME NEW q \in Procs, NEW i \in DOMAIN pending'[q], IsHead(pending'[q][i])
          PROVE  q = Root /\ Len(pending'[q]) = 1 /\ (pending'[q][1].part = "whole" => file'[Root] = <<>>)
      <3>1. CASE q = p
        BY <2>8, <2>9, <3>1
      <3>2. CASE q # p
        BY <1>2, <2>2, <2>9, <3>2
      <3>3. QED
        BY <3>1, <3>2
    <2>10. QED
      BY <2>6, <2>7, <2>9 DEF Headed, IsHead
  <1>13. QED
    BY <1>8, <1>9, <1>10, <1>11, <1>12 DEF Written, Stands

\* The rest of an entry goes right behind its first half, which becomes whole.
LEMMA WriteRestStands ==
  ASSUME IInv, Written, NEW p \in Procs, WriteRest(p)
  PROVE  Written'
  <1> DEFINE path == Path(p)
             items == file[path]
             more == pending[p]
             new == Appended(items, more)
  <1>1. /\ pc[p] = "write" /\ pc'[p] \in {"idle", "closed", "failed"} /\ format' = format
        /\ exporter' = exporter /\ unsettled' = unsettled
        /\ file' = [file EXCEPT ![path] = new] /\ pending'[p] = <<>>
        /\ given' = [given EXCEPT ![p] = @ \o batch[p]] /\ batch' = [batch EXCEPT ![p] = <<>>]
        /\ \A q \in Procs \ {p} : pc'[q] = pc[q] /\ pending'[q] = pending[q]
    BY DEF WriteRest, Done, Kept, IInv, Shape
  <1>2. /\ path \in Procs /\ DOMAIN file = Procs /\ IsSequence(items) /\ IsSequence(more) /\ more # <<>>
        /\ 1 \in DOMAIN more
        /\ \A i \in DOMAIN more : more[i].by = p /\ (more[i].part = "whole" \/ (more[i].part = "tail" /\ i = 1))
    <2>1. /\ path \in Procs /\ DOMAIN file = Procs /\ IsSequence(items) /\ IsSequence(more) /\ more # <<>>
          /\ \A i \in DOMAIN more : more[i].by = p /\ (more[i].part = "whole" \/ (more[i].part = "tail" /\ i = 1))
      BY <1>1, PathIsOne DEF Written, Stands, Listed, Cut
    <2> HIDE DEF more
    <2>2. QED
      BY <2>1, SeqTail
  <1>3. ~unsettled => Continues(items, more, p)
    BY <1>1 DEF Written, Stands, Halves, RestIsNext
  <1> HIDE DEF path, items, more
  <1>4. /\ IsSequence(new) /\ new # <<>>
        /\ \A i \in DOMAIN new : (i \in DOMAIN items /\ new[i] = items[i]) \/ new[i].by = p
        /\ Continues(items, more, p) => \A i \in DOMAIN new :
             \/ /\ i \in DOMAIN items /\ new[i] = items[i]
                /\ more[1].part = "tail" => i < Len(items)
             \/ /\ new[i].by = p /\ new[i].part = "whole"
                /\ \E j \in DOMAIN more :
                     /\ new[i].entry = more[j].entry
                     /\ i = IF more[1].part = "tail" THEN Len(items) - 1 + j ELSE Len(items) + j
    <2>1. Extended(new, items, more, p)
      BY <1>2, AppendedDoes
    <2> HIDE DEF new
    <2>2. QED
      BY <2>1 DEF Extended
  <1> HIDE DEF new
  <1>5. \A q \in Procs : file'[q] = IF q = path THEN new ELSE file[q]
    BY <1>1, <1>2
  <1>6. \A q \in Procs : pc[q] = "write" /\ q # p => Path(q) # path
    BY <1>1, WritesAlone DEF path
  <1>7. Listed'
    <2>1. DOMAIN file' = Procs /\ \A q \in Procs : IsSequence(file'[q])
      BY <1>1, <1>2, <1>4, <1>5 DEF Written, Stands, Listed
    <2>2. \A q \in Procs : IsSequence(pending'[q])
      BY <1>1, SeqEmpty DEF Written, Stands, Listed
    <2>3. /\ DOMAIN given = Procs /\ DOMAIN batch = Procs
          /\ \A q \in Procs : /\ IsSequence(given[q]) /\ \A i \in DOMAIN given[q] : IsSequence(given[q][i])
                              /\ IsSequence(batch[q]) /\ \A i \in DOMAIN batch[q] : IsSequence(batch[q][i])
      BY DEF Written, Stands, Listed
    <2>4. \A s, t : IsSequence(s) /\ IsSequence(t) =>
            /\ IsSequence(s \o t)
            /\ \A i \in DOMAIN (s \o t) :
                 IF i <= Len(s) THEN i \in DOMAIN s /\ (s \o t)[i] = s[i]
                 ELSE i - Len(s) \in DOMAIN t /\ (s \o t)[i] = t[i - Len(s)]
      BY SeqConcat
    <2>5. IsSequence(given'[p]) /\ \A i \in DOMAIN given'[p] : IsSequence(given'[p][i])
      <3>1. PICK s, t : s = given[p] /\ t = batch[p]
        OBVIOUS
      <3>2. /\ IsSequence(s) /\ IsSequence(t) /\ given'[p] = s \o t
            /\ (\A i \in DOMAIN s : IsSequence(s[i])) /\ (\A i \in DOMAIN t : IsSequence(t[i]))
        BY <1>1, <2>3, <3>1
      <3>3. IsSequence(s \o t) /\ \A i \in DOMAIN (s \o t) : IsSequence((s \o t)[i])
        BY <2>4, <3>2
      <3>4. QED
        BY <3>2, <3>3
    <2>6. /\ DOMAIN given' = Procs /\ DOMAIN batch' = Procs
          /\ \A q \in Procs \ {p} : given'[q] = given[q] /\ batch'[q] = batch[q]
          /\ batch'[p] = <<>>
      BY <1>1, <2>3
    <2>7. \A q \in Procs : /\ IsSequence(given'[q]) /\ \A i \in DOMAIN given'[q] : IsSequence(given'[q][i])
                           /\ IsSequence(batch'[q]) /\ \A i \in DOMAIN batch'[q] : IsSequence(batch'[q][i])
      BY <2>3, <2>5, <2>6, SeqEmpty
    <2>8. /\ DOMAIN exporter' = Procs
          /\ \A q \in Procs : Buffers(exporter'[q]) /\ (pc'[q] \in Working => exporter'[q].out = <<>>)
      BY <1>1 DEF Written, Stands, Listed, Working
    <2>9. QED
      BY <2>1, <2>2, <2>6, <2>7, <2>8 DEF Listed
  <1>8. Placed'
    <2> SUFFICES ASSUME NEW q \in Procs, NEW i \in DOMAIN file'[q]
                 PROVE  /\ file'[q][i].by \in Procs /\ Path(file'[q][i].by) = q
                        /\ file'[q][i].by \in Kids => pc'[file'[q][i].by] \notin {"unborn", "start"}
      BY <1>1 DEF Placed, Path
    <2>1. CASE i \in DOMAIN file[q] /\ file'[q][i] = file[q][i]
      BY <1>1, <2>1 DEF Written, Stands, Placed
    <2>2. CASE q = path /\ file'[q][i].by = p
      BY <1>1, <2>2 DEF path
    <2>3. CASE q # path
      BY <1>5, <2>1, <2>3
    <2>4. CASE q = path
      <3>1. i \in DOMAIN new /\ file'[q] = new
        BY <1>5, <2>4
      <3>2. CASE i \in DOMAIN items /\ new[i] = items[i]
        BY <2>1, <2>4, <3>1, <3>2 DEF items
      <3>3. CASE new[i].by = p
        BY <2>2, <2>4, <3>1, <3>3
      <3>4. QED
        BY <1>4, <3>1, <3>2, <3>3
    <2>5. QED
      BY <2>3, <2>4
  <1>9. Cut'
    <2>1. DOMAIN <<>> = {}
      OBVIOUS
    <2>2. QED
      BY <1>1, <2>1 DEF Written, Stands, Cut
  <1>10. Halves'
    <2> SUFFICES ASSUME ~unsettled'
                 PROVE  /\ \A q \in Procs : \A i \in DOMAIN file'[q] : HalfIsLast(q, i)'
                        /\ \A q \in Procs : RestIsNext(q)'
      BY DEF Halves
    <2>1. Continues(items, more, p) /\ \A q \in Procs : RestIsNext(q) /\ \A i \in DOMAIN file[q] : HalfIsLast(q, i)
      BY <1>1, <1>3 DEF Written, Stands, Halves
    <2>2. ASSUME NEW q \in Procs, NEW i \in DOMAIN file[q], file'[q][i] = file[q][i],
                 q = path /\ more[1].part = "tail" => i < Len(items)
          PROVE  HalfIsLast(q, i)'
      <3>1. HalfIsLast(q, i) /\ file[q][i].by \in Procs /\ Path(file[q][i].by) = q
        BY <2>1 DEF Written, Stands, Placed
      <3>2. CASE file[q][i].part = "whole"
        BY <2>2, <3>2 DEF HalfIsLast
      <3>3. CASE file[q][i].part = "head" /\ pc[file[q][i].by] \in {"failed", "dead", "start"}
        BY <1>1, <2>2, <3>1, <3>3 DEF HalfIsLast
      <3>4. CASE /\ file[q][i].part = "head" /\ pc[file[q][i].by] = "write" /\ i = Len(file[q])
                 /\ pending[file[q][i].by][1] = Item(file[q][i].by, file[q][i].entry, "tail")
        <4>1. pending[file[q][i].by][1].part = "tail"
          BY <3>4 DEF Item
        <4>2. q # path
          <5> SUFFICES ASSUME q = path PROVE FALSE
            OBVIOUS
          <5>1. file[q][i].by = p
            BY <1>6, <3>1, <3>4
          <5>2. i < Len(items) /\ i = Len(items)
            BY <2>2, <3>4, <4>1, <5>1 DEF more, items
          <5>3. Len(items) \in Nat
            BY <1>2, SeqFacts
          <5>4. QED
            BY <5>2, <5>3
        <4>3. file[q][i].by # p
          BY <3>1, <4>2 DEF path
        <4>4. QED
          BY <1>1, <1>5, <2>2, <3>1, <3>4, <4>2, <4>3 DEF HalfIsLast, Item
      <3>5. QED
        BY <3>1, <3>2, <3>3, <3>4 DEF HalfIsLast
    <2>3. ASSUME NEW q \in Procs, NEW i \in DOMAIN file'[q] PROVE HalfIsLast(q, i)'
      <3>1. CASE q # path
        BY <1>5, <2>2, <3>1
      <3>2. CASE q = path
        <4>1. i \in DOMAIN new /\ file'[q] = new /\ file[q] = items
          BY <1>5, <3>2 DEF items
        <4>2. CASE i \in DOMAIN items /\ new[i] = items[i] /\ (more[1].part = "tail" => i < Len(items))
          BY <2>2, <4>1, <4>2
        <4>3. CASE new[i].part = "whole"
          BY <4>1, <4>3 DEF HalfIsLast
        <4>4. QED
          BY <1>4, <2>1, <4>1, <4>2, <4>3
      <3>3. QED
        BY <3>1, <3>2
    <2>4. ASSUME NEW q \in Procs PROVE RestIsNext(q)'
      <3>1. CASE q = p
        BY <1>1, <3>1 DEF RestIsNext
      <3>2. CASE q # p
        BY <1>1, <1>5, <1>6, <2>1, <3>2, PathIsOne DEF RestIsNext, Path
      <3>3. QED
        BY <3>1, <3>2
    <2>5. QED
      BY <2>3, <2>4
  <1>11. Headed'
    <2> SUFFICES ASSUME format = "json", ~unsettled PROVE Headed'
      BY <1>1 DEF Headed
    <2>1. path = Root /\ Continues(items, more, p)
      BY <1>3 DEF path, Path
    <2>2. /\ \A i \in DOMAIN items : IsHead(items[i]) <=> i = 1
          /\ \A q \in Procs : \A i \in DOMAIN pending[q] :
               IsHead(pending[q][i]) =>
                 q = Root /\ Len(pending[q]) = 1 /\ (pending[q][1].part = "whole" => items = <<>>)
          /\ items = <<>> => p = Root /\ IsHead(more[1])
      BY <1>1, <2>1 DEF Written, Headed, Working, Procs, items, more
    <2>3. Len(items) \in Nat /\ DOMAIN items = 1 .. Len(items) /\ DOMAIN more = 1 .. Len(more) /\ Len(more) \in Nat
      BY <1>2, SeqFacts
    <2>4. more[1].part = "tail" => /\ Len(items) >= 1 /\ (IsHead(items[Len(items)]) <=> IsHead(more[1]))
      <3> SUFFICES ASSUME more[1].part = "tail"
                   PROVE  Len(items) >= 1 /\ (IsHead(items[Len(items)]) <=> IsHead(more[1]))
        OBVIOUS
      <3>1. items # <<>> /\ Last(items) = Item(p, more[1].entry, "head")
        BY <2>1 DEF Continues
      <3>2. Len(items) >= 1
        BY <1>2, <2>3, <3>1, SeqFacts
      <3>3. items[Len(items)].entry = more[1].entry
        BY <3>1 DEF Last, Item
      <3>4. QED
        BY <3>2, <3>3 DEF IsHead
    <2>5. ASSUME NEW i \in DOMAIN new PROVE IsHead(new[i]) <=> i = 1
      <3>1. CASE i \in DOMAIN items /\ new[i] = items[i]
        BY <2>2, <3>1 DEF IsHead
      <3>2. ASSUME NEW j \in DOMAIN more, new[i].entry = more[j].entry,
                   i = IF more[1].part = "tail" THEN Len(items) - 1 + j ELSE Len(items) + j
            PROVE  IsHead(new[i]) <=> i = 1
        <4>1. IsHead(new[i]) <=> IsHead(more[j])
          BY <3>2 DEF IsHead
        <4>2. IsHead(more[j]) => j = 1 /\ (more[1].part = "whole" => items = <<>>)
          <5> SUFFICES ASSUME IsHead(more[j]) PROVE j = 1 /\ (more[1].part = "whole" => items = <<>>)
            OBVIOUS
          <5>1. Len(more) = 1 /\ (more[1].part = "whole" => items = <<>>)
            BY <2>2, <3>2 DEF more
          <5>2. j = 1
            BY <2>3, <3>2, <5>1
          <5>3. QED
            BY <5>1, <5>2
        <4>3. CASE more[1].part = "tail"
          <5>1. i = Len(items) - 1 + j
            BY <3>2, <4>3
          <5>2. ASSUME IsHead(more[j]) PROVE i = 1
            <6>1. j = 1 /\ IsHead(items[Len(items)]) /\ Len(items) \in DOMAIN items
              BY <2>3, <2>4, <4>2, <4>3, <5>2
            <6>2. Len(items) = 1
              BY <2>2, <6>1
            <6>3. QED
              BY <5>1, <6>1, <6>2
          <5>3. ASSUME i = 1 PROVE IsHead(more[j])
            <6>1. j \in Nat /\ j >= 1 /\ Len(items) >= 1
              BY <2>3, <2>4, <3>2, <4>3
            <6>2. Len(items) = 1 /\ j = 1
              BY <2>3, <5>1, <5>3, <6>1
            <6>3. 1 \in DOMAIN items
              BY <2>3, <6>2
            <6>4. IsHead(items[Len(items)])
              BY <2>2, <6>2, <6>3
            <6>5. QED
              BY <2>4, <4>3, <6>2, <6>4
          <5>4. QED
            BY <4>1, <5>2, <5>3
        <4>4. CASE more[1].part # "tail"
          <5>1. i = Len(items) + j /\ more[1].part = "whole"
            BY <1>2, <3>2, <4>4
          <5>2. ASSUME IsHead(more[j]) PROVE i = 1
            <6>1. j = 1 /\ items = <<>>
              BY <4>2, <5>1, <5>2
            <6>2. Len(items) = 0
              BY <6>1, SeqEmpty
            <6>3. QED
              BY <5>1, <6>1, <6>2
          <5>3. ASSUME i = 1 PROVE IsHead(more[j])
            <6>1. j \in Nat /\ j >= 1
              BY <2>3, <3>2
            <6>2. Len(items) = 0 /\ j = 1
              BY <2>3, <5>1, <5>3, <6>1
            <6>3. items = <<>>
              BY <1>2, <6>2, SeqFacts
            <6>4. QED
              BY <2>2, <6>2, <6>3
          <5>4. QED
            BY <4>1, <5>2, <5>3
        <4>5. QED
          BY <4>3, <4>4
      <3>3. QED
        BY <1>4, <2>1, <3>1, <3>2
    <2>6. \A i \in DOMAIN file'[Root] : IsHead(file'[Root][i]) <=> i = 1
      BY <1>2, <1>5, <2>1, <2>5
    <2>7. file'[Root] # <<>>
      BY <1>2, <1>4, <1>5, <2>1
    <2>8. ASSUME NEW q \in Procs, NEW i \in DOMAIN pending'[q], IsHead(pending'[q][i])
          PROVE  q = Root /\ Len(pending'[q]) = 1 /\ (pending'[q][1].part = "whole" => file'[Root] = <<>>)
      <3>1. DOMAIN <<>> = {}
        OBVIOUS
      <3>2. q # p /\ pending'[q] = pending[q]
        BY <1>1, <2>8, <3>1
      <3>3. q = Root /\ Len(pending[q]) = 1 /\ (pending[q][1].part = "whole" => items = <<>>)
        BY <2>2, <2>8, <3>2
      <3>4. items # <<>>
        BY <2>2, <3>2, <3>3
      <3>5. QED
        BY <3>2, <3>3, <3>4
    <2>9. QED
      BY <2>6, <2>7, <2>8 DEF Headed, IsHead
  <1>12. QED
    BY <1>7, <1>8, <1>9, <1>10, <1>11 DEF Written, Stands

LEMMA WritingInvariant == Spec => [](IInv /\ Written)
  <1>1. Init => Written
    <2> SUFFICES ASSUME Init PROVE Written
      OBVIOUS
    <2>1. Root \in Procs /\ Root \notin Kids /\ Kids \subseteq Procs
      BY OutputAssumption DEF Procs
    <2>2. /\ file = [p \in Procs |-> <<>>] /\ pc = [p \in Procs |-> "unborn"]
          /\ exporter = [p \in Procs |-> NewExporter(format, p)] /\ format \in Formats
          /\ pending = [p \in Procs |-> <<>>]
          /\ given = [p \in Procs |-> <<>>] /\ batch = [p \in Procs |-> <<>>]
      BY DEF Init
    <2>3. Listed
      BY <2>2, SeqEmpty, StartsWithSequence DEF Listed, Working
    <2>4. Placed /\ Cut
      BY <2>2 DEF Placed, Cut
    <2>5. Halves
      BY <2>2 DEF Halves, RestIsNext
    <2>6. Headed
      BY <2>1, <2>2 DEF Headed, Working
    <2>7. QED
      BY <2>3, <2>4, <2>5, <2>6 DEF Written, Stands
  <1>2. IInv /\ Written /\ [Next]_vars => Written'
    <2>1. IInv /\ Written /\ UNCHANGED vars => Written'
      <3> SUFFICES ASSUME IInv, Written, UNCHANGED vars PROVE Written'
        OBVIOUS
      <3>1. Listed' /\ Placed' /\ Cut'
        BY DEF vars, Written, Stands, Listed, Placed, Cut, Path
      <3>2. Halves' /\ Headed'
        BY DEF vars, Written, Stands, Halves, HalfIsLast, RestIsNext, Path, Headed
      <3>3. QED
        BY <3>1, <3>2 DEF Written, Stands
    <2>2. QED
      BY <2>1, AdvertiseStands, LaunchStands, OpenStands, WriteBatchStands, FinishStands,
         CommitNothingStands, AcquireStands, AcquireFailsStands, WritePartStands, WriteRestStands,
         WriteFailsStands, KillStands DEF Next
  <1>3. QED
    BY <1>1, <1>2, Invariant, PTL DEF Spec

\* For any number of processes, batches and runs, wherever an append is cut in two,
\* killed or out of space: no process gets in between the halves of another's entry,
\* and what stays cut is the end of one that did not live to write the rest
\* (SharedFile::commit holds the lock until all of it is written).
THEOREM CommitsWhole == Spec => []CommitsAreWhole
  <1>1. ASSUME Written PROVE CommitsAreWhole
    <2> SUFFICES ASSUME ~unsettled, NEW path \in Procs, NEW i \in DOMAIN file[path],
                        file[path][i].part # "whole"
                 PROVE  /\ file[path][i].part = "head"
                        /\ pc[file[path][i].by] \in {"write", "failed", "dead", "start"}
      BY DEF CommitsAreWhole
    <2>1. HalfIsLast(path, i)
      BY <1>1 DEF Written, Stands, Halves
    <2>2. QED
      BY <2>1 DEF HalfIsLast
  <1>2. QED
    BY <1>1, WritingInvariant, PTL

---------------------------------------------------------------------------
(* What a reader sees of one process.                                       *)

\* What q writes into its file: packets of its own sequences, and objects with its pid.
Belongs(f, q, entry) ==
    CASE f = "protobuf" -> entry.seq \in SequencesOf(Slot(q)) /\ (entry.type = "thread" => entry.pid = Pid(q))
      [] f = "json" -> entry.type = "event" => entry.pid = Pid(q)
      [] OTHER -> TRUE

\* One entry for a reader that looks for p: of packets it reads all of them, or
\* skips what is not in the sequences of p.
ReadOwn(f, p, r, entry) ==
    IF f = "json" THEN ReadObject(r, Pid(p), entry)
    ELSE IF f = "all" \/ entry.seq \in SequencesOf(Slot(p)) THEN ReadPacket(r, Pid(p), entry) ELSE r

ReadsOwn(f, p, r, entries, size, g) ==
    g = [n \in 0 .. size |-> IF n = 0 THEN r ELSE ReadOwn(f, p, g[n - 1], entries[n])]

ReadOn(f, p, r, entries) ==
    LET read[n \in 0 .. Len(entries)] == IF n = 0 THEN r ELSE ReadOwn(f, p, read[n - 1], entries[n])
    IN read[Len(entries)]

LEMMA ReadsOwnExists ==
  ASSUME NEW f, NEW p, NEW r, NEW entries, NEW size \in Nat
  PROVE  \E g : ReadsOwn(f, p, r, entries, size, g)
  <1> DEFINE T == {n \in 0 .. size : \E g : ReadsOwn(f, p, r, entries, n, g)}
  <1>1. 0 \in T
    <2> DEFINE g == [n \in 0 .. 0 |-> r]
    <2>1. ReadsOwn(f, p, r, entries, 0, g)
      <3>1. g = [n \in 0 .. 0 |-> IF n = 0 THEN r ELSE ReadOwn(f, p, g[n - 1], entries[n])]
        OBVIOUS
      <3>2. QED
        BY <3>1 DEF ReadsOwn
    <2> HIDE DEF g
    <2>2. QED
      BY <2>1
  <1>2. ASSUME NEW n \in 1 .. size, n - 1 \in T PROVE n \in T
    <2>1. PICK g : ReadsOwn(f, p, r, entries, n - 1, g)
      BY <1>2
    <2>2. g = [i \in 0 .. (n - 1) |-> IF i = 0 THEN r ELSE ReadOwn(f, p, g[i - 1], entries[i])]
      BY <2>1 DEF ReadsOwn
    <2> DEFINE h == [i \in 0 .. n |-> IF i < n THEN g[i] ELSE ReadOwn(f, p, g[n - 1], entries[n])]
    <2>3. ASSUME NEW i \in 0 .. n PROVE h[i] = IF i = 0 THEN r ELSE ReadOwn(f, p, h[i - 1], entries[i])
      <3>1. CASE i = 0
        BY <2>2, <3>1
      <3>2. CASE i # 0 /\ i < n
        <4>1. g[i] = ReadOwn(f, p, g[i - 1], entries[i])
          BY <2>2, <3>2
        <4>2. h[i] = g[i] /\ h[i - 1] = g[i - 1]
          BY <3>2
        <4> HIDE DEF h
        <4>3. QED
          BY <3>2, <4>1, <4>2
      <3>3. CASE i = n
        <4>1. h[i] = ReadOwn(f, p, g[n - 1], entries[n]) /\ h[i - 1] = g[i - 1]
          BY <3>3
        <4> HIDE DEF h
        <4>2. QED
          BY <3>3, <4>1
      <3>4. QED
        BY <3>1, <3>2, <3>3
    <2>4. h = [i \in 0 .. n |-> IF i = 0 THEN r ELSE ReadOwn(f, p, h[i - 1], entries[i])]
      BY <2>3
    <2> HIDE DEF h
    <2>5. ReadsOwn(f, p, r, entries, n, h)
      BY <2>4 DEF ReadsOwn
    <2>6. QED
      BY <2>5
  <1>3. size \in T
    <2> HIDE DEF T
    <2>1. T \subseteq Nat
      BY DEF T
    <2>2. QED
      BY <1>1, <1>2, <2>1, NatSteps
  <1>4. QED
    BY <1>3

\* g goes through size elements of s behind k.
Walks(f, p, g, s, k, size) == \A n \in 1 .. size : g[k + n] = ReadOwn(f, p, g[k + n - 1], s[k + n])

LEMMA ReadOnUnfolds ==
  ASSUME NEW f, NEW p, NEW r, NEW entries, IsSequence(entries), NEW zero, zero = 0
  PROVE  \E g : g[zero] = r /\ Walks(f, p, g, entries, zero, Len(entries)) /\ ReadOn(f, p, r, entries) = g[Len(entries)]
  <1> DEFINE g == CHOOSE g : ReadsOwn(f, p, r, entries, Len(entries), g)
  <1>1. Len(entries) \in Nat
    BY SeqFacts
  <1>2. ReadsOwn(f, p, r, entries, Len(entries), g)
    BY <1>1, ReadsOwnExists
  <1>3. ReadOn(f, p, r, entries) = g[Len(entries)]
    BY DEF ReadOn, ReadsOwn
  <1> HIDE DEF g
  <1>4. /\ g[0] = r
        /\ \A n \in 1 .. Len(entries) : g[n] = ReadOwn(f, p, g[n - 1], entries[n])
    BY <1>1, <1>2 DEF ReadsOwn
  <1>5. Walks(f, p, g, entries, zero, Len(entries))
    <2>1. \A n \in 1 .. Len(entries) : zero + n = n
      BY <1>1
    <2>2. QED
      BY <1>4, <2>1 DEF Walks
  <1>6. QED
    BY <1>3, <1>4, <1>5

\* Two readers that read the same are where they were.
Alike(s, k, t, l, size) == \A n \in 1 .. size : s[k + n] = t[l + n]

LEMMA SameReading ==
  ASSUME NEW f, NEW p, NEW g, NEW h, NEW s, NEW t, NEW size \in Nat, NEW k \in Nat, NEW l \in Nat, g[k] = h[l],
         Walks(f, p, g, s, k, size), Walks(f, p, h, t, l, size), Alike(s, k, t, l, size)
  PROVE  g[k + size] = h[l + size]
  <1> DEFINE T == {n \in Nat : g[k + n] = h[l + n]}
  <1>1. 0 \in T
    OBVIOUS
  <1>2. ASSUME NEW n \in 1 .. size, n - 1 \in T PROVE n \in T
    <2>1. k + n - 1 = k + (n - 1) /\ l + n - 1 = l + (n - 1) /\ n \in Nat
      OBVIOUS
    <2>2. g[k + (n - 1)] = h[l + (n - 1)]
      BY <1>2
    <2>3. g[k + n] = h[l + n]
      BY <2>1, <2>2 DEF Walks, Alike
    <2>4. QED
      BY <2>1, <2>3
  <1>3. size \in T
    <2> HIDE DEF T
    <2>1. T \subseteq Nat
      BY DEF T
    <2>2. QED
      BY <1>1, <1>2, <2>1, NatSteps
  <1>4. QED
    BY <1>3

LEMMA ReadOnNothing ==
  ASSUME NEW f, NEW p, NEW r
  PROVE  ReadOn(f, p, r, <<>>) = r
  <1>1. PICK s, zero : s = <<>> /\ zero = 0
    OBVIOUS
  <1>2. IsSequence(s) /\ Len(s) = zero
    BY <1>1, SeqEmpty
  <1>3. PICK g : g[zero] = r /\ ReadOn(f, p, r, s) = g[Len(s)]
    BY <1>1, <1>2, ReadOnUnfolds
  <1>4. ReadOn(f, p, r, s) = r
    BY <1>2, <1>3
  <1>5. QED
    BY <1>1, <1>4

\* Reading a sequence is reading its first part and then the rest.
Joins(both, s, t) ==
    /\ IsSequence(both) /\ IsSequence(s) /\ IsSequence(t) /\ Len(both) = Len(s) + Len(t)
    /\ \A i \in 1 .. Len(s) : both[i] = s[i]
    /\ \A i \in 1 .. Len(t) : both[Len(s) + i] = t[i]

LEMMA ReadOnJoined ==
  ASSUME NEW f, NEW p, NEW r, NEW s, NEW t, NEW both, Joins(both, s, t)
  PROVE  ReadOn(f, p, r, both) = ReadOn(f, p, ReadOn(f, p, r, s), t)
  <1>0. IsSequence(both) /\ IsSequence(s) /\ IsSequence(t)
    BY DEF Joins
  <1>1. PICK k \in Nat, l \in Nat, zero \in Nat : k = Len(s) /\ l = Len(t) /\ zero = 0
    BY <1>0, SeqFacts
  <1>2. PICK g : g[zero] = r /\ Walks(f, p, g, both, zero, Len(both)) /\ ReadOn(f, p, r, both) = g[Len(both)]
    BY <1>0, <1>1, ReadOnUnfolds
  <1>3. PICK h : h[zero] = r /\ Walks(f, p, h, s, zero, Len(s)) /\ ReadOn(f, p, r, s) = h[Len(s)]
    BY <1>0, <1>1, ReadOnUnfolds
  <1>4. PICK m : m = ReadOn(f, p, r, s)
    OBVIOUS
  <1>5. PICK o : o[zero] = m /\ Walks(f, p, o, t, zero, Len(t)) /\ ReadOn(f, p, m, t) = o[Len(t)]
    BY <1>0, <1>1, ReadOnUnfolds
  <1>6. g[zero + k] = h[zero + k]
    <2>1. g[zero] = h[zero]
      BY <1>2, <1>3
    <2>2. Walks(f, p, g, both, zero, k) /\ Walks(f, p, h, s, zero, k)
      <3>1. k \in Nat /\ \A n \in 1 .. k : n \in 1 .. Len(both)
        BY <1>1 DEF Joins
      <3>2. QED
        BY <1>1, <1>2, <1>3, <3>1 DEF Walks
    <2>3. Alike(both, zero, s, zero, k)
      <3>1. \A n \in 1 .. k : zero + n = n
        BY <1>1
      <3>2. QED
        BY <1>1, <3>1 DEF Alike, Joins
    <2>4. QED
      BY <1>1, <2>1, <2>2, <2>3, SameReading
  <1>7. g[k + l] = o[zero + l]
    <2>1. g[k] = o[zero]
      <3>1. zero + k = k
        BY <1>1
      <3>2. g[k] = h[k]
        BY <1>6, <3>1
      <3>3. QED
        BY <1>1, <1>3, <1>4, <1>5, <3>2
    <2>2. Walks(f, p, g, both, k, l)
      <3> SUFFICES ASSUME NEW n \in 1 .. l PROVE g[k + n] = ReadOwn(f, p, g[k + n - 1], both[k + n])
        BY DEF Walks
      <3>1. zero + (k + n) = k + n /\ k + n \in 1 .. Len(both)
        BY <1>1 DEF Joins
      <3>2. QED
        BY <1>2, <3>1 DEF Walks
    <2>3. Walks(f, p, o, t, zero, l)
      BY <1>1, <1>5
    <2>4. Alike(both, k, t, zero, l)
      <3>1. \A n \in 1 .. l : zero + n = n
        BY <1>1
      <3>2. QED
        BY <1>1, <3>1 DEF Alike, Joins
    <2>5. QED
      BY <1>1, <2>1, <2>2, <2>3, <2>4, SameReading
  <1>8. k + l = Len(both) /\ zero + l = Len(t)
    BY <1>1 DEF Joins
  <1>9. ReadOn(f, p, r, both) = ReadOn(f, p, m, t)
    BY <1>2, <1>5, <1>7, <1>8
  <1>10. QED
    BY <1>4, <1>9

LEMMA ReadOnOne ==
  ASSUME NEW f, NEW p, NEW r, NEW s, IsSequence(s), NEW e
  PROVE  ReadOn(f, p, r, Append(s, e)) = ReadOwn(f, p, ReadOn(f, p, r, s), e)
  <1>1. PICK one : one = <<e>>
    OBVIOUS
  <1>2. IsSequence(one) /\ Len(one) = 1 /\ one[1] = e
    BY <1>1, SeqOne
  <1>3. PICK m : m = ReadOn(f, p, r, s)
    OBVIOUS
  <1>4. ReadOn(f, p, m, one) = ReadOwn(f, p, m, e)
    <2>1. PICK zero : zero = 0
      OBVIOUS
    <2>2. PICK g : g[zero] = m /\ Walks(f, p, g, one, zero, Len(one)) /\ ReadOn(f, p, m, one) = g[Len(one)]
      <3>1. IsSequence(one)
        BY <1>2
      <3>2. QED
        BY <2>1, <3>1, ReadOnUnfolds
    <2>3. g[zero + 1] = ReadOwn(f, p, g[zero + 1 - 1], one[zero + 1])
      BY <1>2, <2>2 DEF Walks
    <2>4. zero + 1 = 1 /\ zero + 1 - 1 = zero
      BY <2>1
    <2>5. QED
      BY <1>2, <2>2, <2>3, <2>4
  <1>5. PICK both : both = Append(s, e)
    OBVIOUS
  <1>6. Joins(both, s, one)
    <2>1. /\ IsSequence(both) /\ Len(both) = Len(s) + 1 /\ both[Len(s) + 1] = e
          /\ \A i \in 1 .. Len(s) : both[i] = s[i]
      BY <1>5, SeqAppend
    <2>2. \A i \in 1 .. 1 : i = 1
      OBVIOUS
    <2>3. QED
      BY <1>2, <2>1, <2>2 DEF Joins
  <1>7. ReadOn(f, p, r, both) = ReadOn(f, p, ReadOn(f, p, r, s), one)
    BY <1>6, ReadOnJoined
  <1>8. QED
    BY <1>3, <1>4, <1>5, <1>7

\* What has been read is not taken back.
Shown(f, r) == IF f = "json" THEN r ELSE r.events

IsReader(f, r) ==
    /\ f # "json" => r = [names |-> r.names, at |-> r.at, events |-> r.events]
    /\ IsSequence(Shown(f, r))

Starts(s, t) ==
    /\ IsSequence(s) /\ IsSequence(t) /\ Len(s) <= Len(t)
    /\ \A i \in 1 .. Len(s) : s[i] = t[i]

LEMMA StartsItself == ASSUME NEW s, IsSequence(s) PROVE Starts(s, s)
  BY SeqFacts DEF Starts

LEMMA StartsOn ==
  ASSUME NEW s, NEW t, NEW u, Starts(s, t), Starts(t, u)
  PROVE  Starts(s, u)
  <1>1. Len(s) \in Nat /\ Len(t) \in Nat /\ Len(u) \in Nat
    BY SeqFacts DEF Starts
  <1>2. QED
    BY <1>1 DEF Starts

LEMMA StartsPushed == ASSUME NEW s, IsSequence(s), NEW e PROVE Starts(s, Append(s, e))
  BY SeqAppend, SeqFacts DEF Starts

LEMMA StartsStayedOrPushed ==
  ASSUME NEW s, IsSequence(s), NEW e, NEW t, t = s \/ t = Append(s, e)
  PROVE  IsSequence(t) /\ Starts(s, t)
  <1>1. CASE t = s
    BY <1>1, StartsItself
  <1>2. CASE t = Append(s, e)
    <2>1. IsSequence(Append(s, e)) /\ Starts(s, Append(s, e))
      BY SeqAppend, StartsPushed
    <2>2. QED
      BY <1>2, <2>1
  <1>3. QED
    BY <1>1, <1>2

LEMMA ObjectRead ==
  ASSUME NEW r, IsSequence(r), NEW pid, NEW e
  PROVE  IsSequence(ReadObject(r, pid, e)) /\ Starts(r, ReadObject(r, pid, e))
  <1> DEFINE seen == [pid |-> e.pid, tid |-> e.tid, code |-> e.code, opens |-> e.opens, ts |-> e.ts]
  <1>1. ReadObject(r, pid, e) = r \/ ReadObject(r, pid, e) = Append(r, seen)
    BY DEF ReadObject
  <1> HIDE DEF seen
  <1>2. QED
    BY <1>1, StartsStayedOrPushed

LEMMA PacketRead ==
  ASSUME NEW r, IsReader("protobuf", r), NEW pid, NEW packet
  PROVE  /\ IsReader("protobuf", ReadPacket(r, pid, packet))
         /\ Starts(r.events, ReadPacket(r, pid, packet).events)
  <1> DEFINE next == ReadPacket(r, pid, packet)
             seen == [pid |-> r.at[packet.seq].pid, tid |-> r.at[packet.seq].tid, opens |-> packet.opens, ts |-> packet.ts,
                      code |-> IF packet.opens /\ packet.iid \in DOMAIN r.names[packet.seq]
                               THEN r.names[packet.seq][packet.iid] ELSE 0]
  <1>1. r = [names |-> r.names, at |-> r.at, events |-> r.events] /\ IsSequence(r.events)
    BY DEF IsReader, Shown
  <1>2. \/ \E names, at : next = [r EXCEPT !.names = names, !.at = at]
        \/ \E names : next = [r EXCEPT !.names = names]
        \/ next = [r EXCEPT !.events = Append(@, seen)]
        \/ next = r
    <2>1. CASE packet.type = "process"
      BY <2>1 DEF ReadPacket
    <2>2. CASE packet.type = "thread"
      BY <2>2 DEF ReadPacket
    <2>3. CASE packet.type = "name" /\ packet.seq \in DOMAIN r.names
      <3> DEFINE names == [r.names EXCEPT ![packet.seq] = With(@, packet.iid, packet.code)]
      <3>1. next = [r EXCEPT !.names[packet.seq] = With(@, packet.iid, packet.code)]
        BY <2>3 DEF ReadPacket
      <3>2. next = [r EXCEPT !.names = names]
        BY <1>1, <3>1
      <3>3. QED
        BY <3>2
    <2>4. CASE packet.type = "event" /\ packet.seq \in DOMAIN r.at /\ r.at[packet.seq].pid = pid
      BY <2>4 DEF ReadPacket
    <2>5. CASE /\ ~(packet.type = "process") /\ ~(packet.type = "thread")
               /\ ~(packet.type = "name" /\ packet.seq \in DOMAIN r.names)
               /\ ~(packet.type = "event" /\ packet.seq \in DOMAIN r.at /\ r.at[packet.seq].pid = pid)
      BY <2>5 DEF ReadPacket
    <2>6. QED
      BY <2>1, <2>2, <2>3, <2>4, <2>5
  <1> HIDE DEF next, seen
  <1>3. next = [names |-> next.names, at |-> next.at, events |-> next.events]
        /\ (next.events = r.events \/ next.events = Append(r.events, seen))
    BY <1>1, <1>2
  <1>4. IsSequence(next.events) /\ Starts(r.events, next.events)
    BY <1>1, <1>3, StartsStayedOrPushed
  <1>5. QED
    BY <1>3, <1>4 DEF IsReader, Shown, next

LEMMA OwnRead ==
  ASSUME NEW f \in {"protobuf", "json"}, NEW p, NEW r, IsReader(f, r), NEW entry
  PROVE  IsReader(f, ReadOwn(f, p, r, entry)) /\ Starts(Shown(f, r), Shown(f, ReadOwn(f, p, r, entry)))
  <1>1. CASE f = "json"
    BY <1>1, ObjectRead DEF ReadOwn, IsReader, Shown
  <1>2. CASE f = "protobuf"
    <2>1. IsReader("protobuf", r) /\ IsSequence(r.events)
      BY <1>2 DEF IsReader, Shown
    <2>2. ReadOwn(f, p, r, entry) = r \/ ReadOwn(f, p, r, entry) = ReadPacket(r, Pid(p), entry)
      BY <1>2 DEF ReadOwn
    <2>3. QED
      BY <1>2, <2>1, <2>2, PacketRead, StartsItself DEF Shown
  <1>3. QED
    BY <1>1, <1>2

LEMMA OnRead ==
  ASSUME NEW f \in {"protobuf", "json"}, NEW p, NEW r, IsReader(f, r), NEW entries, IsSequence(entries)
  PROVE  IsReader(f, ReadOn(f, p, r, entries)) /\ Starts(Shown(f, r), Shown(f, ReadOn(f, p, r, entries)))
  <1>1. PICK size \in Nat, zero \in Nat : size = Len(entries) /\ zero = 0
    BY SeqFacts
  <1>2. PICK g : g[zero] = r /\ Walks(f, p, g, entries, zero, Len(entries)) /\ ReadOn(f, p, r, entries) = g[Len(entries)]
    BY <1>1, ReadOnUnfolds
  <1> DEFINE T == {n \in Nat : IsReader(f, g[n]) /\ Starts(Shown(f, r), Shown(f, g[n]))}
  <1>3. 0 \in T
    BY <1>1, <1>2, StartsItself DEF IsReader
  <1>4. ASSUME NEW n \in 1 .. size, n - 1 \in T PROVE n \in T
    <2>1. PICK m : m = g[n - 1]
      OBVIOUS
    <2>2. IsReader(f, m) /\ Starts(Shown(f, r), Shown(f, m))
      BY <1>4, <2>1
    <2>3. g[n] = ReadOwn(f, p, m, entries[n])
      <3>1. zero + n = n /\ zero + n - 1 = n - 1
        BY <1>1
      <3>2. g[zero + n] = ReadOwn(f, p, g[zero + n - 1], entries[zero + n])
        BY <1>1, <1>2 DEF Walks
      <3>3. QED
        BY <2>1, <3>1, <3>2
    <2>4. IsReader(f, g[n]) /\ Starts(Shown(f, m), Shown(f, g[n]))
      BY <2>2, <2>3, OwnRead
    <2>5. Starts(Shown(f, r), Shown(f, g[n]))
      BY <2>2, <2>4, StartsOn
    <2>6. QED
      BY <2>4, <2>5
  <1>5. size \in T
    <2> HIDE DEF T
    <2>1. T \subseteq Nat
      BY DEF T
    <2>2. QED
      BY <1>3, <1>4, <2>1, NatSteps
  <1>6. QED
    BY <1>1, <1>2, <1>5

---------------------------------------------------------------------------
(* What others write.                                                       *)

LEMMA PidsApart ==
  ASSUME NEW p \in Procs, NEW q \in Procs, p # q
  PROVE  Pid(p) # Pid(q) /\ Pid(p) # 0
  BY OutputAssumption DEF Pid, Procs

LEMMA ForeignRead ==
  ASSUME NEW f \in {"protobuf", "json"}, NEW p \in Procs, NEW q \in Procs, p # q, NEW entry, Belongs(f, q, entry), NEW r
  PROVE  ReadOwn(f, p, r, entry) = r
  <1>1. CASE f = "json"
    BY <1>1, PidsApart DEF ReadOwn, ReadObject, Belongs
  <1>2. CASE f = "protobuf"
    BY <1>2, SequencesApart DEF ReadOwn, Belongs
  <1>3. QED
    BY <1>1, <1>2

Foreign(f, p, entries) ==
    \A i \in DOMAIN entries : \E q \in Procs : q # p /\ Belongs(f, q, entries[i])

LEMMA ForeignPassed ==
  ASSUME NEW f \in {"protobuf", "json"}, NEW p \in Procs, NEW r, NEW entries, IsSequence(entries), Foreign(f, p, entries)
  PROVE  ReadOn(f, p, r, entries) = r
  <1>1. PICK size \in Nat, zero \in Nat : size = Len(entries) /\ zero = 0
    BY SeqFacts
  <1>2. PICK g : g[zero] = r /\ Walks(f, p, g, entries, zero, Len(entries)) /\ ReadOn(f, p, r, entries) = g[Len(entries)]
    BY <1>1, ReadOnUnfolds
  <1> DEFINE T == {n \in Nat : g[n] = r}
  <1>3. 0 \in T
    BY <1>1, <1>2
  <1>4. ASSUME NEW n \in 1 .. size, n - 1 \in T PROVE n \in T
    <2>1. g[n] = ReadOwn(f, p, r, entries[n])
      <3>1. zero + n = n /\ zero + n - 1 = n - 1
        BY <1>1
      <3>2. g[zero + n] = ReadOwn(f, p, g[zero + n - 1], entries[zero + n])
        BY <1>1, <1>2 DEF Walks
      <3>3. g[n - 1] = r
        BY <1>4
      <3>4. QED
        BY <3>1, <3>2, <3>3
    <2>2. n \in DOMAIN entries
      BY <1>1, SeqFacts
    <2>3. PICK q \in Procs : q # p /\ Belongs(f, q, entries[n])
      BY <2>2 DEF Foreign
    <2>4. ReadOwn(f, p, r, entries[n]) = r
      BY <2>3, ForeignRead
    <2>5. QED
      BY <2>1, <2>4
  <1>5. size \in T
    <2> HIDE DEF T
    <2>1. T \subseteq Nat
      BY DEF T
    <2>2. QED
      BY <1>3, <1>4, <2>1, NatSteps
  <1>6. QED
    BY <1>1, <1>2, <1>5

---------------------------------------------------------------------------
(* A reader of all packets sees of p what one of p's packets sees.          *)

LEMMA ProtoRead ==
  ASSUME NEW p, NEW packets
  PROVE  ReadProto(packets, Pid(p)) = ReadOn("all", p, NewReader, packets).events
  BY DEF ReadProto, ReadOn, ReadOwn

LEMMA JsonRead ==
  ASSUME NEW p, NEW entries
  PROVE  ReadJson(entries, Pid(p)) = ReadOn("json", p, <<>>, entries)
  BY DEF ReadJson, ReadOn, ReadOwn

Described(packet) == packet.type \in {"process", "thread"}

Where(packet) ==
    IF packet.type = "process" THEN Nowhere
    ELSE [track |-> packet.track, pid |-> packet.pid, tid |-> packet.tid]

SeenOfPacket(r, packet) ==
    LET names == r.names[packet.seq]
        where == r.at[packet.seq]
    IN [pid |-> where.pid, tid |-> where.tid, opens |-> packet.opens, ts |-> packet.ts,
        code |-> IF packet.opens /\ packet.iid \in DOMAIN names THEN names[packet.iid] ELSE 0]

Renames(r, packet) == packet.type = "name" /\ packet.seq \in DOMAIN r.names
Counts(r, pid, packet) == packet.type = "event" /\ packet.seq \in DOMAIN r.at /\ r.at[packet.seq].pid = pid

Took(r, pid, packet, next) ==
    /\ IsReader("protobuf", next)
    /\ Described(packet) => /\ next.names = With(r.names, packet.seq, <<>>)
                            /\ next.at = With(r.at, packet.seq, Where(packet))
                            /\ next.events = r.events
    /\ Renames(r, packet) =>
         /\ next.names = [r.names EXCEPT ![packet.seq] = With(r.names[packet.seq], packet.iid, packet.code)]
         /\ next.at = r.at /\ next.events = r.events
    /\ Counts(r, pid, packet) =>
         next.names = r.names /\ next.at = r.at /\ next.events = Append(r.events, SeenOfPacket(r, packet))
    /\ ~Described(packet) /\ ~Renames(r, packet) /\ ~Counts(r, pid, packet) => next = r

LEMMA PacketDoes ==
  ASSUME NEW r, IsReader("protobuf", r), NEW pid, NEW packet, NEW next, next = ReadPacket(r, pid, packet)
  PROVE  Took(r, pid, packet, next)
  <1>1. r = [names |-> r.names, at |-> r.at, events |-> r.events]
    BY DEF IsReader
  <1>2. CASE packet.type = "process"
    <2>1. next = [r EXCEPT !.names = With(@, packet.seq, <<>>), !.at = With(@, packet.seq, Nowhere)]
      BY <1>2 DEF ReadPacket
    <2>2. /\ next.names = With(r.names, packet.seq, <<>>) /\ next.at = With(r.at, packet.seq, Nowhere)
          /\ next.events = r.events
      BY <1>1, <2>1
    <2>3. QED
      BY <1>2, <2>2, PacketRead DEF Took, Described, Where, Renames, Counts
  <1>3. CASE packet.type = "thread"
    <2>1. next = [r EXCEPT !.names = With(@, packet.seq, <<>>), !.at = With(@, packet.seq, Where(packet))]
      BY <1>3 DEF ReadPacket, Where
    <2>2. /\ next.names = With(r.names, packet.seq, <<>>) /\ next.at = With(r.at, packet.seq, Where(packet))
          /\ next.events = r.events
      BY <1>1, <2>1
    <2>3. QED
      BY <1>3, <2>2, PacketRead DEF Took, Described, Renames, Counts
  <1>4. CASE Renames(r, packet)
    <2>1. next = [r EXCEPT !.names[packet.seq] = With(@, packet.iid, packet.code)]
      BY <1>4 DEF ReadPacket, Renames
    <2>2. /\ next.names = [r.names EXCEPT ![packet.seq] = With(r.names[packet.seq], packet.iid, packet.code)]
          /\ next.at = r.at /\ next.events = r.events
      BY <1>1, <2>1
    <2>3. QED
      BY <1>4, <2>2, PacketRead DEF Took, Described, Renames, Counts
  <1>5. CASE Counts(r, pid, packet)
    <2>1. next = [r EXCEPT !.events = Append(@, SeenOfPacket(r, packet))]
      BY <1>5 DEF ReadPacket, Counts, SeenOfPacket
    <2>2. next.names = r.names /\ next.at = r.at /\ next.events = Append(r.events, SeenOfPacket(r, packet))
      BY <1>1, <2>1
    <2>3. QED
      BY <1>5, <2>2, PacketRead DEF Took, Described, Renames, Counts
  <1>6. CASE ~Described(packet) /\ ~Renames(r, packet) /\ ~Counts(r, pid, packet)
    <2>1. next = r
      BY <1>6 DEF ReadPacket, Described, Renames, Counts
    <2>2. QED
      BY <1>6, <2>1 DEF Took
  <1>7. QED
    BY <1>2, <1>3, <1>4, <1>5, <1>6 DEF Described

\* r has read all packets, s those in the sequences of p.
Agree(p, r, s) ==
    /\ IsReader("protobuf", r) /\ IsReader("protobuf", s) /\ r.events = s.events
    /\ DOMAIN r.names = DOMAIN r.at /\ DOMAIN s.names = DOMAIN s.at
    /\ \A seq \in SequencesOf(Slot(p)) :
         /\ seq \in DOMAIN r.at <=> seq \in DOMAIN s.at
         /\ seq \in DOMAIN r.at => r.names[seq] = s.names[seq] /\ r.at[seq] = s.at[seq]
    /\ \A seq \in DOMAIN r.at : seq \notin SequencesOf(Slot(p)) => r.at[seq].pid # Pid(p)

LEMMA AgreeOnOwn ==
  ASSUME NEW p \in Procs, NEW r, NEW s, Agree(p, r, s), NEW packet, packet.seq \in SequencesOf(Slot(p)),
         NEW rr, rr = ReadPacket(r, Pid(p), packet), NEW ss, ss = ReadPacket(s, Pid(p), packet)
  PROVE  Agree(p, rr, ss)
  <1>0. PICK seq : seq = packet.seq
    OBVIOUS
  <1>1. IsReader("protobuf", r) /\ IsReader("protobuf", s) /\ r.events = s.events
    BY DEF Agree
  <1>2. Took(r, Pid(p), packet, rr) /\ Took(s, Pid(p), packet, ss) /\ IsReader("protobuf", rr) /\ IsReader("protobuf", ss)
    <2>1. Took(r, Pid(p), packet, rr)
      BY <1>1, PacketDoes
    <2>2. Took(s, Pid(p), packet, ss)
      BY <1>1, PacketDoes
    <2>3. QED
      BY <2>1, <2>2 DEF Took
  <1>3. CASE Described(packet)
    <2>1. /\ rr.names = With(r.names, seq, <<>>) /\ rr.at = With(r.at, seq, Where(packet)) /\ rr.events = r.events
          /\ ss.names = With(s.names, seq, <<>>) /\ ss.at = With(s.at, seq, Where(packet)) /\ ss.events = s.events
      BY <1>0, <1>2, <1>3 DEF Took
    <2>2. /\ DOMAIN rr.names = DOMAIN r.names \cup {seq} /\ rr.names[seq] = <<>>
          /\ \A y \in DOMAIN r.names : y # seq => rr.names[y] = r.names[y]
      BY <2>1 DEF With
    <2>3. /\ DOMAIN ss.names = DOMAIN s.names \cup {seq} /\ ss.names[seq] = <<>>
          /\ \A y \in DOMAIN s.names : y # seq => ss.names[y] = s.names[y]
      BY <2>1 DEF With
    <2>4. /\ DOMAIN rr.at = DOMAIN r.at \cup {seq} /\ rr.at[seq] = Where(packet)
          /\ \A y \in DOMAIN r.at : y # seq => rr.at[y] = r.at[y]
      BY <2>1 DEF With
    <2>5. /\ DOMAIN ss.at = DOMAIN s.at \cup {seq} /\ ss.at[seq] = Where(packet)
          /\ \A y \in DOMAIN s.at : y # seq => ss.at[y] = s.at[y]
      BY <2>1 DEF With
    <2>6. QED
      BY <1>0, <1>1, <1>2, <2>1, <2>2, <2>3, <2>4, <2>5 DEF Agree
  <1>4. CASE Renames(r, packet)
    <2>1. Renames(s, packet)
      BY <1>4 DEF Agree, Renames
    <2>2. r.names[seq] = s.names[seq]
      BY <1>0, <1>4 DEF Agree, Renames
    <2>3. /\ rr.names = [r.names EXCEPT ![seq] = With(r.names[seq], packet.iid, packet.code)]
          /\ rr.at = r.at /\ rr.events = r.events
      BY <1>0, <1>2, <1>4 DEF Took
    <2>4. /\ ss.names = [s.names EXCEPT ![seq] = With(r.names[seq], packet.iid, packet.code)]
          /\ ss.at = s.at /\ ss.events = s.events
      BY <1>0, <1>2, <2>1, <2>2 DEF Took
    <2>5. QED
      BY <1>0, <1>1, <1>2, <1>4, <2>1, <2>3, <2>4 DEF Agree, Renames
  <1>5. CASE Counts(r, Pid(p), packet)
    <2>1. Counts(s, Pid(p), packet)
      BY <1>5 DEF Agree, Counts
    <2>2. SeenOfPacket(r, packet) = SeenOfPacket(s, packet)
      BY <1>5 DEF Agree, Counts, SeenOfPacket
    <2>3. rr.names = r.names /\ rr.at = r.at /\ rr.events = Append(r.events, SeenOfPacket(r, packet))
      BY <1>0, <1>2, <1>5 DEF Took
    <2>4. ss.names = s.names /\ ss.at = s.at /\ ss.events = Append(s.events, SeenOfPacket(s, packet))
      BY <1>2, <2>1 DEF Took
    <2>5. QED
      BY <1>0, <1>1, <1>2, <2>2, <2>3, <2>4 DEF Agree
  <1>6. CASE ~Described(packet) /\ ~Renames(r, packet) /\ ~Counts(r, Pid(p), packet)
    <2>1. ~Renames(s, packet) /\ ~Counts(s, Pid(p), packet)
      BY <1>6 DEF Agree, Renames, Counts
    <2>2. rr = r /\ ss = s
      BY <1>2, <1>6, <2>1 DEF Took
    <2>3. QED
      BY <2>2
  <1>7. QED
    BY <1>3, <1>4, <1>5, <1>6

LEMMA AgreeOnForeign ==
  ASSUME NEW p \in Procs, NEW r, NEW s, Agree(p, r, s), NEW packet, NEW q \in Procs, q # p, Belongs("protobuf", q, packet),
         NEW rr, rr = ReadPacket(r, Pid(p), packet)
  PROVE  Agree(p, rr, s)
  <1>0. PICK seq : seq = packet.seq
    OBVIOUS
  <1>1. IsReader("protobuf", r) /\ IsReader("protobuf", s) /\ r.events = s.events
    BY DEF Agree
  <1>2. seq \notin SequencesOf(Slot(p)) /\ (packet.type = "thread" => packet.pid # Pid(p))
    BY <1>0, SequencesApart, PidsApart DEF Belongs
  <1>3. Took(r, Pid(p), packet, rr) /\ IsReader("protobuf", rr)
    <2>1. Took(r, Pid(p), packet, rr)
      BY <1>1, PacketDoes
    <2>2. QED
      BY <2>1 DEF Took
  <1>4. CASE Described(packet)
    <2>1. rr.names = With(r.names, seq, <<>>) /\ rr.at = With(r.at, seq, Where(packet)) /\ rr.events = r.events
      BY <1>0, <1>3, <1>4 DEF Took
    <2>2. /\ DOMAIN rr.names = DOMAIN r.names \cup {seq} /\ rr.names[seq] = <<>>
          /\ \A y \in DOMAIN r.names : y # seq => rr.names[y] = r.names[y]
      BY <2>1 DEF With
    <2>3. /\ DOMAIN rr.at = DOMAIN r.at \cup {seq} /\ rr.at[seq] = Where(packet)
          /\ \A y \in DOMAIN r.at : y # seq => rr.at[y] = r.at[y]
      BY <2>1 DEF With
    <2>4. Where(packet).pid # Pid(p)
      BY <1>2, <1>4, PidsApart DEF Where, Described, Nowhere
    <2>5. QED
      BY <1>0, <1>1, <1>2, <1>3, <2>1, <2>2, <2>3, <2>4 DEF Agree
  <1>5. CASE Renames(r, packet)
    <2>1. /\ rr.names = [r.names EXCEPT ![seq] = With(r.names[seq], packet.iid, packet.code)]
          /\ rr.at = r.at /\ rr.events = r.events
      BY <1>0, <1>3, <1>5 DEF Took
    <2>2. QED
      BY <1>0, <1>1, <1>2, <1>3, <2>1 DEF Agree
  <1>6. ~Counts(r, Pid(p), packet)
    BY <1>0, <1>2 DEF Agree, Counts
  <1>7. CASE ~Described(packet) /\ ~Renames(r, packet)
    <2>1. rr = r
      BY <1>3, <1>6, <1>7 DEF Took
    <2>2. QED
      BY <2>1
  <1>8. QED
    BY <1>4, <1>5, <1>7

Owned(f, entries) == \A i \in DOMAIN entries : \E q \in Procs : Belongs(f, q, entries[i])

LEMMA ReadersAgree ==
  ASSUME NEW p \in Procs, NEW packets, IsSequence(packets), Owned("protobuf", packets)
  PROVE  ReadProto(packets, Pid(p)) = ReadOn("protobuf", p, NewReader, packets).events
  <1>1. PICK size \in Nat, zero \in Nat : size = Len(packets) /\ zero = 0
    BY SeqFacts
  <1>2. PICK f : f = "all"
    OBVIOUS
  <1>3. PICK o : o = "protobuf"
    OBVIOUS
  <1>4. PICK start : start = NewReader
    OBVIOUS
  <1>5. PICK g : g[zero] = start /\ Walks(f, p, g, packets, zero, Len(packets)) /\ ReadOn(f, p, start, packets) = g[Len(packets)]
    BY <1>1, ReadOnUnfolds
  <1>6. PICK h : h[zero] = start /\ Walks(o, p, h, packets, zero, Len(packets)) /\ ReadOn(o, p, start, packets) = h[Len(packets)]
    BY <1>1, ReadOnUnfolds
  <1> DEFINE T == {n \in Nat : Agree(p, g[n], h[n])}
  <1>7. 0 \in T
    <2>1. IsReader("protobuf", start)
      BY <1>4, SeqEmpty DEF NewReader, IsReader, Shown
    <2>2. DOMAIN start.names = {} /\ DOMAIN start.at = {}
      <3>1. DOMAIN <<>> = {}
        OBVIOUS
      <3>2. QED
        BY <1>4, <3>1 DEF NewReader
    <2>3. Agree(p, start, start)
      BY <2>1, <2>2 DEF Agree
    <2>4. QED
      BY <1>1, <1>5, <1>6, <2>3
  <1>8. ASSUME NEW n \in 1 .. size, n - 1 \in T PROVE n \in T
    <2>1. PICK r, s : r = g[n - 1] /\ s = h[n - 1]
      OBVIOUS
    <2>2. Agree(p, r, s)
      BY <1>8, <2>1
    <2>3. zero + n = n /\ zero + n - 1 = n - 1 /\ n \in DOMAIN packets
      BY <1>1, SeqFacts
    <2>4. g[n] = ReadOwn(f, p, r, packets[n]) /\ h[n] = ReadOwn(o, p, s, packets[n])
      <3>1. g[zero + n] = ReadOwn(f, p, g[zero + n - 1], packets[zero + n])
        BY <1>1, <1>5 DEF Walks
      <3>2. h[zero + n] = ReadOwn(o, p, h[zero + n - 1], packets[zero + n])
        BY <1>1, <1>6 DEF Walks
      <3>3. QED
        BY <2>1, <2>3, <3>1, <3>2
    <2>5. g[n] = ReadPacket(r, Pid(p), packets[n])
      BY <1>2, <2>4 DEF ReadOwn
    <2>6. PICK q \in Procs : Belongs("protobuf", q, packets[n])
      BY <2>3 DEF Owned
    <2>7. CASE q = p
      <3>1. packets[n].seq \in SequencesOf(Slot(p))
        BY <2>6, <2>7 DEF Belongs
      <3>2. h[n] = ReadPacket(s, Pid(p), packets[n])
        BY <1>3, <2>4, <3>1 DEF ReadOwn
      <3>3. Agree(p, g[n], h[n])
        BY <2>2, <2>5, <3>1, <3>2, AgreeOnOwn
      <3>4. QED
        BY <3>3
    <2>8. CASE q # p
      <3>1. h[n] = s
        BY <1>3, <2>4, <2>6, <2>8, ForeignRead
      <3>2. Agree(p, g[n], s)
        BY <2>2, <2>5, <2>6, <2>8, AgreeOnForeign
      <3>3. QED
        BY <3>1, <3>2
    <2>9. QED
      BY <2>7, <2>8
  <1>9. size \in T
    <2> HIDE DEF T
    <2>1. T \subseteq Nat
      BY DEF T
    <2>2. QED
      BY <1>7, <1>8, <2>1, NatSteps
  <1>10. g[size].events = h[size].events
    BY <1>9 DEF Agree
  <1>11. QED
    BY <1>1, <1>2, <1>3, <1>4, <1>5, <1>6, <1>10, ProtoRead

---------------------------------------------------------------------------
(* A packets' exporter and who reads it.                                    *)

Threads == {b.tid : b \in Batches}

\* There is a sequence for every thread.
Room == IsFiniteSet(Threads) /\ Cardinality(Threads) < SequencesPerSlot

\* The reader knows the track of tid's sequence, and the codes by the names they
\* were given.
Tells(p, x, r, tid) ==
    LET s == x.sequences[tid]
    IN /\ s = [id |-> s.id, iids |-> s.iids] /\ IsSequence(s.iids)
       /\ \E index \in 0 .. (Cardinality(DOMAIN x.sequences) - 1) : s.id = SequenceId(Slot(p), index)
       /\ s.id \in DOMAIN r.at /\ r.at[s.id].pid = Pid(p) /\ r.at[s.id].tid = tid
       /\ s.id \in DOMAIN r.names
       /\ \A i \in 1 .. Len(s.iids) : i \in DOMAIN r.names[s.id] /\ r.names[s.id][i] = s.iids[i]

\* A template is for its thread's sequence, and what it opens has a name there.
Fits(x, tid, code, opens, template) ==
    /\ tid \in DOMAIN x.sequences /\ template.seq = x.sequences[tid].id
    /\ opens => template.iid \in 1 .. Len(x.sequences[tid].iids) /\ x.sequences[tid].iids[template.iid] = code

Keyed(x) ==
    \A tid, code : \A opens \in BOOLEAN :
        TemplateKey(tid, code, opens) \in DOMAIN x.templates =>
            Fits(x, tid, code, opens, x.templates[TemplateKey(tid, code, opens)])

Follows(p, x, r) ==
    /\ x = [slot |-> Slot(p), pid |-> Pid(p), emitted |-> x.emitted, sequences |-> x.sequences,
            templates |-> x.templates, out |-> x.out]
    /\ IsSequence(x.out) /\ IsReader("protobuf", r)
    /\ IsFiniteSet(DOMAIN x.sequences) /\ DOMAIN x.sequences \subseteq Threads
    /\ \A tid \in DOMAIN x.sequences : Tells(p, x, r, tid)
    /\ \A t, u \in DOMAIN x.sequences : x.sequences[t].id = x.sequences[u].id => t = u
    /\ Keyed(x)

\* x has become y, whose reader is rr: it wrote a packet of its own, or none.
Writes(p, x, r, y, rr) ==
    \/ y.out = x.out /\ rr = r
    \/ \E packet : /\ y.out = Append(x.out, packet) /\ Belongs("protobuf", p, packet)
                   /\ rr = ReadPacket(r, Pid(p), packet)

Grows(x, y) ==
    \A tid \in DOMAIN x.sequences :
        /\ tid \in DOMAIN y.sequences /\ y.sequences[tid].id = x.sequences[tid].id
        /\ Starts(x.sequences[tid].iids, y.sequences[tid].iids)

Goes(p, x, r, y, rr) == Writes(p, x, r, y, rr) /\ Grows(x, y) /\ Follows(p, y, rr) /\ rr.events = r.events

LEMMA GrowsNot ==
  ASSUME NEW p, NEW x, NEW r, Follows(p, x, r)
  PROVE  Grows(x, x) /\ Goes(p, x, r, x, r)
  <1>1. \A tid \in DOMAIN x.sequences : IsSequence(x.sequences[tid].iids)
    BY DEF Follows, Tells
  <1>2. Grows(x, x)
    BY <1>1, StartsItself DEF Grows
  <1>3. QED
    BY <1>2 DEF Goes, Writes

\* Of what fits nothing ceases to fit.
LEMMA FitsOn ==
  ASSUME NEW x, NEW y, Grows(x, y), NEW tid, NEW code, NEW opens, NEW template, Fits(x, tid, code, opens, template)
  PROVE  Fits(y, tid, code, opens, template)
  <1>1. tid \in DOMAIN x.sequences
    BY DEF Fits
  <1>2. PICK s, t : s = x.sequences[tid].iids /\ t = y.sequences[tid].iids
    OBVIOUS
  <1>3. Starts(s, t) /\ tid \in DOMAIN y.sequences /\ y.sequences[tid].id = x.sequences[tid].id
    BY <1>1, <1>2 DEF Grows
  <1>4. Len(s) \in Nat /\ Len(t) \in Nat /\ Len(s) <= Len(t) /\ \A i \in 1 .. Len(s) : s[i] = t[i]
    BY <1>3, SeqFacts DEF Starts
  <1>5. QED
    BY <1>2, <1>3, <1>4 DEF Fits

LEMMA KeyedOn ==
  ASSUME NEW x, NEW y, Grows(x, y), Keyed(x), y.templates = x.templates
  PROVE  Keyed(y)
  BY FitsOn DEF Keyed

LEMMA GrowsOn ==
  ASSUME NEW x, NEW y, NEW z, Grows(x, y), Grows(y, z)
  PROVE  Grows(x, z)
  <1> SUFFICES ASSUME NEW tid \in DOMAIN x.sequences
               PROVE  /\ tid \in DOMAIN z.sequences /\ z.sequences[tid].id = x.sequences[tid].id
                      /\ Starts(x.sequences[tid].iids, z.sequences[tid].iids)
    BY DEF Grows
  <1>1. PICK s, t, u : s = x.sequences[tid].iids /\ t = y.sequences[tid].iids /\ u = z.sequences[tid].iids
    OBVIOUS
  <1>2. tid \in DOMAIN y.sequences /\ y.sequences[tid].id = x.sequences[tid].id /\ Starts(s, t)
    BY <1>1 DEF Grows
  <1>3. tid \in DOMAIN z.sequences /\ z.sequences[tid].id = y.sequences[tid].id /\ Starts(t, u)
    BY <1>1, <1>2 DEF Grows
  <1>4. Starts(s, u)
    BY <1>2, <1>3, StartsOn
  <1>5. QED
    BY <1>1, <1>2, <1>3, <1>4

LEMMA IdsInSlot ==
  ASSUME NEW p \in Procs, NEW index \in Nat
  PROVE  /\ SequenceId(Slot(p), index) # ProcessSequenceId(Slot(p))
         /\ \A other \in Nat : SequenceId(Slot(p), index) = SequenceId(Slot(p), other) => other = index
         /\ index <= SequencesPerSlot - 2 => SequenceId(Slot(p), index) \in SequencesOf(Slot(p))
         /\ ProcessSequenceId(Slot(p)) \in SequencesOf(Slot(p))
  <1>1. Slot(p) \in Nat /\ SequencesPerSlot \in Nat
    BY OutputAssumption, SlotAssumption DEF Slot, Procs
  <1>2. PICK base \in Nat : base = Slot(p) * SequencesPerSlot
    BY <1>1
  <1>3. /\ ProcessSequenceId(Slot(p)) = base + 1
        /\ \A i \in Nat : SequenceId(Slot(p), i) = base + 2 + i
    BY <1>1, <1>2 DEF ProcessSequenceId, SequenceId
  <1>4. index <= SequencesPerSlot - 2 => index \in 0 .. (SequencesPerSlot - 2)
    BY <1>1
  <1>5. index <= SequencesPerSlot - 2 => SequenceId(Slot(p), index) \in SequencesOf(Slot(p))
    BY <1>4 DEF SequencesOf
  <1>6. ProcessSequenceId(Slot(p)) \in SequencesOf(Slot(p))
    BY DEF SequencesOf
  <1>7. QED
    BY <1>3, <1>5, <1>6

\* A reader that is told of something else still follows.
Knows(x, r, rr) ==
    \A tid \in DOMAIN x.sequences :
        LET id == x.sequences[tid].id
        IN /\ id \in DOMAIN rr.at /\ rr.at[id] = r.at[id]
           /\ id \in DOMAIN rr.names /\ rr.names[id] = r.names[id]

Shaped(p, x, emitted, sequences, templates, out) ==
    x = [slot |-> Slot(p), pid |-> Pid(p), emitted |-> emitted, sequences |-> sequences,
         templates |-> templates, out |-> out]

LEMMA FollowsAside ==
  ASSUME NEW p \in Procs, NEW x, NEW r, Follows(p, x, r), NEW y, NEW rr, IsReader("protobuf", rr), NEW out, IsSequence(out),
         NEW emitted, Shaped(p, y, emitted, x.sequences, x.templates, out), Knows(x, r, rr)
  PROVE  Follows(p, y, rr) /\ Grows(x, y)
  <1>1. y.sequences = x.sequences /\ y.templates = x.templates /\ y.out = out /\ y.emitted = emitted
    BY DEF Shaped
  <1>2. Grows(x, y)
    BY <1>1, GrowsNot DEF Grows
  <1>3. Keyed(y)
    BY <1>1, <1>2, KeyedOn DEF Follows
  <1>4. ASSUME NEW tid \in DOMAIN x.sequences PROVE Tells(p, y, rr, tid)
    <2>1. Tells(p, x, r, tid)
      BY DEF Follows
    <2>2. QED
      BY <1>1, <2>1 DEF Tells, Knows
  <1>5. y = [slot |-> Slot(p), pid |-> Pid(p), emitted |-> y.emitted, sequences |-> y.sequences,
             templates |-> y.templates, out |-> y.out]
    BY <1>1 DEF Shaped
  <1>6. QED
    BY <1>1, <1>2, <1>3, <1>4, <1>5 DEF Follows

LEMMA PacketShaped ==
  ASSUME NEW p, NEW x, NEW e, NEW sequences, NEW templates, NEW out, Shaped(p, x, e, sequences, templates, out), NEW packet
  PROVE  Shaped(p, WritePacket(x, packet), e, sequences, templates, Append(out, packet))
  BY DEF Shaped, WritePacket

LEMMA EmittedShaped ==
  ASSUME NEW p, NEW x, NEW e, NEW sequences, NEW templates, NEW out, Shaped(p, x, e, sequences, templates, out), NEW packet
  PROVE  Shaped(p, [WritePacket(x, packet) EXCEPT !.emitted = TRUE], TRUE, sequences, templates, Append(out, packet))
  <1>1. PICK y, more, yes : y = WritePacket(x, packet) /\ more = Append(out, packet) /\ yes = TRUE
    OBVIOUS
  <1>2. Shaped(p, y, e, sequences, templates, more)
    BY <1>1, PacketShaped
  <1>3. Shaped(p, [y EXCEPT !.emitted = yes], yes, sequences, templates, more)
    BY <1>2 DEF Shaped
  <1>4. QED
    BY <1>1, <1>3, Zenon

LEMMA ProcessGoes ==
  ASSUME NEW p \in Procs, NEW x, NEW r, Follows(p, x, r)
  PROVE  \E rr : Goes(p, x, r, EnsureProcess(x), rr)
  <1> DEFINE packet == [type |-> "process", seq |-> ProcessSequenceId(x.slot), pid |-> x.pid]
             y == [WritePacket(x, packet) EXCEPT !.emitted = TRUE]
             rr == ReadPacket(r, Pid(p), packet)
  <1>1. CASE x.emitted
    <2>1. EnsureProcess(x) = x
      BY <1>1 DEF EnsureProcess
    <2>2. QED
      BY <2>1, GrowsNot
  <1>2. CASE ~x.emitted
    <2>1. EnsureProcess(x) = y
      BY <1>2 DEF EnsureProcess
    <2>2. PICK pk : pk = packet
      OBVIOUS
    <2>3. pk.type = "process" /\ pk.seq = ProcessSequenceId(Slot(p))
      BY <2>2 DEF Follows
    <2>4. Shaped(p, y, TRUE, x.sequences, x.templates, Append(x.out, pk))
      <3>1. Shaped(p, x, x.emitted, x.sequences, x.templates, x.out)
        BY DEF Follows, Shaped
      <3>2. y = [WritePacket(x, pk) EXCEPT !.emitted = TRUE]
        BY <2>2
      <3> HIDE DEF y
      <3>3. QED
        BY <3>1, <3>2, EmittedShaped
    <2>5. rr = ReadPacket(r, Pid(p), pk)
      BY <2>2
    <2> HIDE DEF packet, y, rr
    <2>6. Took(r, Pid(p), pk, rr)
      BY <2>5, PacketDoes DEF Follows
    <2>7. /\ rr.names = With(r.names, pk.seq, <<>>) /\ rr.at = With(r.at, pk.seq, Where(pk)) /\ rr.events = r.events
          /\ IsReader("protobuf", rr)
      BY <2>3, <2>6 DEF Took, Described
    <2>8. Knows(x, r, rr)
      <3> SUFFICES ASSUME NEW tid \in DOMAIN x.sequences
                   PROVE  LET id == x.sequences[tid].id
                          IN /\ id \in DOMAIN rr.at /\ rr.at[id] = r.at[id]
                             /\ id \in DOMAIN rr.names /\ rr.names[id] = r.names[id]
        BY DEF Knows
      <3>1. PICK id : id = x.sequences[tid].id
        OBVIOUS
      <3>2. Tells(p, x, r, tid)
        BY DEF Follows
      <3>3. id \in DOMAIN r.at /\ id \in DOMAIN r.names
        BY <3>1, <3>2 DEF Tells
      <3>4. PICK index \in Nat : id = SequenceId(Slot(p), index)
        <4>1. Cardinality(DOMAIN x.sequences) \in Nat
          BY FS_CardinalityType DEF Follows
        <4>2. QED
          BY <3>1, <3>2, <4>1 DEF Tells
      <3>5. id # pk.seq
        BY <2>3, <3>4, IdsInSlot
      <3>6. QED
        BY <2>7, <3>1, <3>3, <3>5 DEF With
    <2>9. y.out = Append(x.out, pk) /\ IsSequence(Append(x.out, pk))
      BY <2>4, SeqAppend DEF Follows, Shaped
    <2>10. Follows(p, y, rr) /\ Grows(x, y)
      BY <2>4, <2>7, <2>8, <2>9, FollowsAside
    <2>11. Belongs("protobuf", p, pk)
      BY <2>3, IdsInSlot DEF Belongs
    <2>12. Goes(p, x, r, y, rr)
      BY <2>5, <2>7, <2>9, <2>10, <2>11 DEF Goes, Writes
    <2>13. QED
      BY <2>1, <2>12
  <1>3. QED
    BY <1>1, <1>2

\* What the packets written so far have told the reader that was r0.
Told(p, r0, x, r) ==
    /\ IsSequence(x.out) /\ \A i \in DOMAIN x.out : Belongs("protobuf", p, x.out[i])
    /\ r = ReadOn("protobuf", p, r0, x.out)

LEMMA BelongOneMore ==
  ASSUME NEW p, NEW s, IsSequence(s), \A i \in DOMAIN s : Belongs("protobuf", p, s[i]), NEW e, Belongs("protobuf", p, e)
  PROVE  \A i \in DOMAIN Append(s, e) : Belongs("protobuf", p, Append(s, e)[i])
  <1>1. PICK t : t = Append(s, e)
    OBVIOUS
  <1>2. /\ IsSequence(t) /\ Len(t) = Len(s) + 1 /\ t[Len(s) + 1] = e
        /\ \A i \in 1 .. Len(s) : t[i] = s[i]
    BY <1>1, SeqAppend
  <1>3. Len(s) \in Nat /\ DOMAIN s = 1 .. Len(s) /\ DOMAIN t = 1 .. (Len(s) + 1)
    BY <1>2, SeqFacts
  <1>4. \A i \in DOMAIN t : i \in DOMAIN s \/ i = Len(s) + 1
    BY <1>3
  <1>5. QED
    BY <1>1, <1>2, <1>3, <1>4

LEMMA ToldOn ==
  ASSUME NEW p, NEW r0, NEW x, NEW r, NEW y, NEW rr, Told(p, r0, x, r), Writes(p, x, r, y, rr)
  PROVE  Told(p, r0, y, rr)
  <1>1. CASE y.out = x.out /\ rr = r
    BY <1>1 DEF Told
  <1>2. ASSUME NEW packet, y.out = Append(x.out, packet), Belongs("protobuf", p, packet), rr = ReadPacket(r, Pid(p), packet)
        PROVE  Told(p, r0, y, rr)
    <2>1. PICK s, t, f : s = x.out /\ t = Append(s, packet) /\ f = "protobuf"
      OBVIOUS
    <2>2. IsSequence(s) /\ (\A i \in DOMAIN s : Belongs("protobuf", p, s[i])) /\ r = ReadOn(f, p, r0, s)
      BY <2>1 DEF Told
    <2>3. IsSequence(t) /\ \A i \in DOMAIN t : Belongs("protobuf", p, t[i])
      BY <1>2, <2>1, <2>2, BelongOneMore, SeqAppend
    <2>4. ReadOn(f, p, r0, t) = ReadOwn(f, p, r, packet)
      BY <2>1, <2>2, ReadOnOne
    <2>5. packet.seq \in SequencesOf(Slot(p))
      BY <1>2 DEF Belongs
    <2>6. ReadOwn(f, p, r, packet) = rr
      BY <1>2, <2>1, <2>5 DEF ReadOwn
    <2>7. QED
      BY <1>2, <2>1, <2>3, <2>4, <2>6 DEF Told
  <1>3. QED
    BY <1>1, <1>2 DEF Writes

\* The sequence of a thread.
LEMMA RoomForOne ==
  ASSUME Room, NEW S, S \subseteq Threads, NEW tid \in Threads, tid \notin S
  PROVE  /\ IsFiniteSet(S) /\ Cardinality(S) \in Nat /\ Cardinality(S) <= SequencesPerSlot - 2
         /\ IsFiniteSet(S \cup {tid}) /\ Cardinality(S \cup {tid}) = Cardinality(S) + 1
  <1>1. IsFiniteSet(Threads) /\ Cardinality(Threads) < SequencesPerSlot
    BY DEF Room
  <1>2. IsFiniteSet(S) /\ Cardinality(S) \in Nat /\ Cardinality(Threads) \in Nat
    BY <1>1, FS_Subset, FS_CardinalityType
  <1>3. IsFiniteSet(S \cup {tid}) /\ Cardinality(S \cup {tid}) = Cardinality(S) + 1
    BY <1>2, FS_AddElement
  <1>4. S \cup {tid} \subseteq Threads
    OBVIOUS
  <1>5. Cardinality(S \cup {tid}) <= Cardinality(Threads)
    BY <1>1, <1>4, FS_Subset
  <1>6. QED
    BY <1>1, <1>2, <1>3, <1>5, SlotAssumption

LEMMA RoomForAll ==
  ASSUME Room, NEW S, S \subseteq Threads
  PROVE  Cardinality(S) \in Nat /\ Cardinality(S) <= SequencesPerSlot - 1
  <1>1. IsFiniteSet(Threads) /\ Cardinality(Threads) < SequencesPerSlot /\ Cardinality(Threads) \in Nat
    BY FS_CardinalityType DEF Room
  <1>2. IsFiniteSet(S) /\ Cardinality(S) <= Cardinality(Threads) /\ Cardinality(S) \in Nat
    BY <1>1, FS_Subset, FS_CardinalityType
  <1>3. QED
    BY <1>1, <1>2, SlotAssumption

LEMMA SequenceShaped ==
  ASSUME NEW p, NEW x, NEW e, NEW sequences, NEW templates, NEW out, Shaped(p, x, e, sequences, templates, out), NEW packet,
         NEW tid, NEW s
  PROVE  Shaped(p, [WritePacket(x, packet) EXCEPT !.sequences = With(@, tid, s)], e, With(sequences, tid, s), templates,
                Append(out, packet))
  <1>1. PICK y, more : y = WritePacket(x, packet) /\ more = Append(out, packet)
    OBVIOUS
  <1>2. Shaped(p, y, e, sequences, templates, more)
    BY <1>1, PacketShaped
  <1>3. Shaped(p, [y EXCEPT !.sequences = With(@, tid, s)], e, With(sequences, tid, s), templates, more)
    BY <1>2 DEF Shaped
  <1>4. QED
    BY <1>1, <1>3

LEMMA SequenceGoes ==
  ASSUME NEW p \in Procs, NEW x, NEW r, Follows(p, x, r), Room, NEW tid \in Threads, NEW y, y = EnsureSequence(x, tid)
  PROVE  tid \in DOMAIN y.sequences /\ \E rr : Goes(p, x, r, y, rr)
  <1>1. CASE tid \in DOMAIN x.sequences
    <2>1. y = x
      BY <1>1 DEF EnsureSequence
    <2>2. QED
      BY <1>1, <2>1, GrowsNot
  <1>2. CASE tid \notin DOMAIN x.sequences
    <2>1. PICK index : index = Cardinality(DOMAIN x.sequences)
      OBVIOUS
    <2>2. /\ index \in Nat /\ index <= SequencesPerSlot - 2 /\ IsFiniteSet(DOMAIN x.sequences)
          /\ IsFiniteSet(DOMAIN x.sequences \cup {tid}) /\ Cardinality(DOMAIN x.sequences \cup {tid}) = index + 1
      BY <1>2, <2>1, RoomForOne DEF Follows
    <2>3. PICK id : id = SequenceId(Slot(p), index)
      OBVIOUS
    <2>4. PICK pk : pk = [type |-> "thread", seq |-> id, pid |-> x.pid, tid |-> tid, track |-> <<x.pid, 1 + 1 + index>>]
      OBVIOUS
    <2>5. PICK s : s = [id |-> id, iids |-> <<>>]
      OBVIOUS
    <2>6. x.slot = Slot(p) /\ x.pid = Pid(p)
      BY DEF Follows
    <2>7. y = [WritePacket(x, pk) EXCEPT !.sequences = With(@, tid, s)]
      BY <1>2, <2>1, <2>3, <2>4, <2>5, <2>6 DEF EnsureSequence
    <2>8. PICK sequences, out : sequences = With(x.sequences, tid, s) /\ out = Append(x.out, pk)
      OBVIOUS
    <2>9. Shaped(p, y, x.emitted, sequences, x.templates, out)
      <3>1. Shaped(p, x, x.emitted, x.sequences, x.templates, x.out)
        BY DEF Follows, Shaped
      <3>2. QED
        BY <2>7, <2>8, <3>1, SequenceShaped
    <2>10. y.sequences = sequences /\ y.templates = x.templates /\ y.out = out /\ y.emitted = x.emitted
      BY <2>9 DEF Shaped
    <2>11. /\ DOMAIN sequences = DOMAIN x.sequences \cup {tid} /\ sequences[tid] = s
           /\ \A u \in DOMAIN x.sequences : sequences[u] = x.sequences[u]
      BY <1>2, <2>8 DEF With
    <2>12. PICK rr : rr = ReadPacket(r, Pid(p), pk)
      OBVIOUS
    <2>13. Took(r, Pid(p), pk, rr)
      BY <2>12, PacketDoes DEF Follows
    <2>14. /\ rr.names = With(r.names, id, <<>>) /\ rr.at = With(r.at, id, Where(pk)) /\ rr.events = r.events
           /\ IsReader("protobuf", rr)
      BY <2>4, <2>13 DEF Took, Described
    <2>15. /\ id \in DOMAIN rr.names /\ id \in DOMAIN rr.at /\ rr.at[id] = Where(pk)
           /\ \A i \in DOMAIN r.names : i # id => i \in DOMAIN rr.names /\ rr.names[i] = r.names[i]
           /\ \A i \in DOMAIN r.at : i # id => i \in DOMAIN rr.at /\ rr.at[i] = r.at[i]
      BY <2>14 DEF With
    <2>16. Where(pk).pid = Pid(p) /\ Where(pk).tid = tid
      BY <2>4, <2>6 DEF Where
    <2>17. ASSUME NEW u \in DOMAIN x.sequences PROVE x.sequences[u].id # id /\ Tells(p, y, rr, u)
      <3>1. Tells(p, x, r, u)
        BY DEF Follows
      <3>2. PICK v : v = x.sequences[u]
        OBVIOUS
      <3>3. PICK j \in 0 .. (index - 1) : v.id = SequenceId(Slot(p), j)
        BY <2>1, <3>1, <3>2 DEF Tells
      <3>4. j \in Nat /\ j # index /\ j \in 0 .. (index + 1 - 1)
        BY <2>2
      <3>5. v.id # id
        BY <2>2, <2>3, <3>3, <3>4, IdsInSlot
      <3>6. y.sequences[u] = v /\ Cardinality(DOMAIN y.sequences) = index + 1
        BY <2>2, <2>10, <2>11, <3>2
      <3>7. /\ v = [id |-> v.id, iids |-> v.iids] /\ IsSequence(v.iids)
            /\ v.id \in DOMAIN r.at /\ r.at[v.id].pid = Pid(p) /\ r.at[v.id].tid = u
            /\ v.id \in DOMAIN r.names
            /\ \A i \in 1 .. Len(v.iids) : i \in DOMAIN r.names[v.id] /\ r.names[v.id][i] = v.iids[i]
        BY <3>1, <3>2 DEF Tells
      <3>8. rr.at[v.id] = r.at[v.id] /\ rr.names[v.id] = r.names[v.id] /\ v.id \in DOMAIN rr.at /\ v.id \in DOMAIN rr.names
        BY <2>15, <3>5, <3>7
      <3>9. Tells(p, y, rr, u)
        <4>1. \E i \in 0 .. (Cardinality(DOMAIN y.sequences) - 1) : v.id = SequenceId(Slot(p), i)
          <5>1. j \in 0 .. (Cardinality(DOMAIN y.sequences) - 1)
            BY <2>2, <3>4, <3>6
          <5>2. QED
            BY <3>3, <5>1
        <4>2. QED
          BY <3>6, <3>7, <3>8, <4>1 DEF Tells
      <3>10. QED
        BY <3>2, <3>5, <3>9
    <2>18. Tells(p, y, rr, tid)
      <3>1. y.sequences[tid] = s /\ Cardinality(DOMAIN y.sequences) = index + 1 /\ index \in 0 .. (index + 1 - 1)
        BY <2>2, <2>10, <2>11
      <3>2. s = [id |-> s.id, iids |-> s.iids] /\ s.id = id /\ s.iids = <<>>
        BY <2>5
      <3>3. IsSequence(s.iids) /\ Len(s.iids) = 0
        BY <3>2, SeqEmpty
      <3>4. \A i \in 1 .. Len(s.iids) : i \in DOMAIN rr.names[s.id] /\ rr.names[s.id][i] = s.iids[i]
        BY <3>3
      <3>5. \E j \in 0 .. (Cardinality(DOMAIN y.sequences) - 1) : s.id = SequenceId(Slot(p), j)
        BY <2>3, <3>1, <3>2
      <3>6. s.id \in DOMAIN rr.at /\ rr.at[s.id].pid = Pid(p) /\ rr.at[s.id].tid = tid /\ s.id \in DOMAIN rr.names
        BY <2>15, <2>16, <3>2
      <3>7. QED
        BY <3>1, <3>2, <3>3, <3>4, <3>5, <3>6 DEF Tells
    <2>19. Grows(x, y)
      <3>1. \A u \in DOMAIN x.sequences : u \in DOMAIN y.sequences /\ y.sequences[u] = x.sequences[u]
        BY <2>10, <2>11
      <3>2. \A u \in DOMAIN x.sequences : IsSequence(x.sequences[u].iids)
        BY DEF Follows, Tells
      <3>3. QED
        BY <3>1, <3>2, StartsItself DEF Grows
    <2>20. \A t, u \in DOMAIN y.sequences : y.sequences[t].id = y.sequences[u].id => t = u
      <3>1. \A t, u \in DOMAIN x.sequences : x.sequences[t].id = x.sequences[u].id => t = u
        BY DEF Follows
      <3>2. s.id = id
        BY <2>5
      <3>3. QED
        BY <2>10, <2>11, <2>17, <3>1, <3>2
    <2>21. Keyed(y)
      BY <2>10, <2>19, KeyedOn DEF Follows
    <2>22. y = [slot |-> Slot(p), pid |-> Pid(p), emitted |-> y.emitted, sequences |-> y.sequences,
                templates |-> y.templates, out |-> y.out]
      BY <2>9, <2>10 DEF Shaped
    <2>23. IsSequence(y.out)
      BY <2>8, <2>10, SeqAppend DEF Follows
    <2>24. DOMAIN y.sequences \subseteq Threads /\ IsFiniteSet(DOMAIN y.sequences)
      BY <2>2, <2>10, <2>11 DEF Follows
    <2>25. \A u \in DOMAIN y.sequences : Tells(p, y, rr, u)
      BY <2>10, <2>11, <2>17, <2>18
    <2>26. Follows(p, y, rr)
      BY <2>14, <2>20, <2>21, <2>22, <2>23, <2>24, <2>25 DEF Follows
    <2>27. Belongs("protobuf", p, pk)
      <3>1. pk.seq = id /\ pk.pid = Pid(p)
        BY <2>4, <2>6
      <3>2. id \in SequencesOf(Slot(p))
        BY <2>2, <2>3, IdsInSlot
      <3>3. QED
        BY <3>1, <3>2 DEF Belongs
    <2>28. Goes(p, x, r, y, rr)
      BY <2>8, <2>10, <2>12, <2>14, <2>19, <2>26, <2>27 DEF Goes, Writes
    <2>29. QED
      BY <2>10, <2>11, <2>28
  <1>3. QED
    BY <1>1, <1>2

\* A code gets a name in the sequence.
LEMMA NameShaped ==
  ASSUME NEW p, NEW x, NEW e, NEW sequences, NEW templates, NEW out, Shaped(p, x, e, sequences, templates, out), NEW packet,
         NEW tid \in DOMAIN sequences, NEW s, NEW iids, sequences[tid] = [id |-> s, iids |-> iids], NEW code
  PROVE  Shaped(p, [WritePacket(x, packet) EXCEPT !.sequences[tid].iids = Append(@, code)], e,
                [sequences EXCEPT ![tid] = [id |-> s, iids |-> Append(iids, code)]], templates, Append(out, packet))
  <1>1. PICK y, more : y = WritePacket(x, packet) /\ more = Append(out, packet)
    OBVIOUS
  <1>2. Shaped(p, y, e, sequences, templates, more)
    BY <1>1, PacketShaped
  <1>3. y.sequences = sequences
    BY <1>2 DEF Shaped
  <1>4. PICK next : next = [sequences EXCEPT ![tid] = [id |-> s, iids |-> Append(iids, code)]]
    OBVIOUS
  <1>5. [y.sequences EXCEPT ![tid].iids = Append(@, code)] = next
    <2>1. PICK old, longer : old = sequences[tid] /\ longer = Append(iids, code)
      OBVIOUS
    <2>2. old = [id |-> s, iids |-> iids]
      BY <2>1
    <2>3. PICK other : other = [old EXCEPT !.iids = Append(@, code)]
      OBVIOUS
    <2>4. other = [id |-> s, iids |-> longer]
      <3>1. other = [id |-> s, iids |-> Append(iids, code)]
        BY <2>2, <2>3
      <3>2. QED
        BY <2>1, <3>1
    <2> DEFINE changed == [sequences EXCEPT ![tid].iids = Append(@, code)]
    <2>5. DOMAIN changed = DOMAIN sequences /\ DOMAIN next = DOMAIN sequences
      BY <1>4
    <2>6. \A u \in DOMAIN sequences : u # tid => changed[u] = sequences[u]
      OBVIOUS
    <2>7. changed[tid] = [sequences[tid] EXCEPT !.iids = Append(@, code)]
      OBVIOUS
    <2>8. changed = [u \in DOMAIN sequences |-> changed[u]] /\ next = [u \in DOMAIN sequences |-> next[u]]
      BY <1>4
    <2>9. \A u \in DOMAIN sequences : changed[u] = next[u]
      BY <1>4, <2>1, <2>3, <2>4, <2>6, <2>7
    <2> HIDE DEF changed
    <2>10. changed = next
      BY <2>5, <2>8, <2>9
    <2>11. QED
      BY <1>3, <2>10 DEF changed
  <1>6. [y EXCEPT !.sequences[tid].iids = Append(@, code)] = [y EXCEPT !.sequences = next]
    BY <1>2, <1>3, <1>5 DEF Shaped
  <1>7. Shaped(p, [y EXCEPT !.sequences = next], e, next, templates, more)
    BY <1>2 DEF Shaped
  <1>8. QED
    BY <1>1, <1>4, <1>6, <1>7

LEMMA NameGoes ==
  ASSUME NEW p \in Procs, NEW x, NEW r, Follows(p, x, r), Room, NEW tid \in DOMAIN x.sequences, NEW code,
         NEW y, y = CodeIid(x, tid, code)
  PROVE  /\ tid \in DOMAIN y.sequences /\ code \in ToSet(y.sequences[tid].iids) /\ IsSequence(y.sequences[tid].iids)
         /\ y.templates = x.templates
         /\ \E rr : Goes(p, x, r, y, rr)
  <1>1. PICK s, id, iids : s = x.sequences[tid] /\ id = s.id /\ iids = s.iids
    OBVIOUS
  <1>2. Tells(p, x, r, tid)
    BY DEF Follows
  <1>3. /\ s = [id |-> id, iids |-> iids] /\ IsSequence(iids)
        /\ id \in DOMAIN r.at /\ r.at[id].pid = Pid(p) /\ r.at[id].tid = tid
        /\ id \in DOMAIN r.names
        /\ \A i \in 1 .. Len(iids) : i \in DOMAIN r.names[id] /\ r.names[id][i] = iids[i]
    BY <1>1, <1>2 DEF Tells
  <1>4. PICK index \in 0 .. (Cardinality(DOMAIN x.sequences) - 1) : id = SequenceId(Slot(p), index)
    BY <1>1, <1>2 DEF Tells
  <1>5. CASE code \in ToSet(iids)
    <2>1. y = x
      BY <1>1, <1>5 DEF CodeIid
    <2>2. QED
      BY <1>1, <1>3, <1>5, <2>1, GrowsNot
  <1>6. CASE code \notin ToSet(iids)
    <2>1. PICK size \in Nat : size = Len(iids)
      BY <1>3, SeqFacts
    <2>2. PICK pk : pk = [type |-> "name", seq |-> id, iid |-> size + 1, code |-> code]
      OBVIOUS
    <2>3. y = [WritePacket(x, pk) EXCEPT !.sequences[tid].iids = Append(@, code)]
      BY <1>1, <1>6, <2>1, <2>2 DEF CodeIid
    <2>4. PICK longer, t, sequences, out :
            /\ longer = Append(iids, code) /\ t = [id |-> id, iids |-> longer]
            /\ sequences = [x.sequences EXCEPT ![tid] = t] /\ out = Append(x.out, pk)
      OBVIOUS
    <2>5. Shaped(p, y, x.emitted, sequences, x.templates, out)
      <3>1. Shaped(p, x, x.emitted, x.sequences, x.templates, x.out)
        BY DEF Follows, Shaped
      <3>2. x.sequences[tid] = [id |-> id, iids |-> iids]
        BY <1>1, <1>3
      <3>3. PICK z : z = [WritePacket(x, pk) EXCEPT !.sequences[tid].iids = Append(@, code)]
        OBVIOUS
      <3>4. Shaped(p, z, x.emitted, [x.sequences EXCEPT ![tid] = [id |-> id, iids |-> Append(iids, code)]], x.templates,
                   Append(x.out, pk))
        BY <3>1, <3>2, <3>3, NameShaped
      <3>5. QED
        BY <2>3, <2>4, <3>3, <3>4
    <2>6. y.sequences = sequences /\ y.templates = x.templates /\ y.out = out /\ y.emitted = x.emitted
      BY <2>5 DEF Shaped
    <2>7. /\ DOMAIN sequences = DOMAIN x.sequences /\ sequences[tid] = t
          /\ \A u \in DOMAIN x.sequences : u # tid => sequences[u] = x.sequences[u]
      BY <2>4
    <2>8. t.id = id /\ t.iids = longer /\ t = [id |-> t.id, iids |-> t.iids]
      BY <2>4
    <2>9. /\ IsSequence(longer) /\ Len(longer) = size + 1 /\ longer[size + 1] = code
          /\ \A i \in 1 .. size : longer[i] = iids[i]
      BY <1>3, <2>1, <2>4, SeqAppend
    <2>10. PICK rr : rr = ReadPacket(r, Pid(p), pk)
      OBVIOUS
    <2>11. Took(r, Pid(p), pk, rr)
      BY <2>10, PacketDoes DEF Follows
    <2>12. /\ rr.names = [r.names EXCEPT ![id] = With(r.names[id], size + 1, code)]
           /\ rr.at = r.at /\ rr.events = r.events /\ IsReader("protobuf", rr)
      <3>1. Renames(r, pk)
        BY <1>3, <2>2 DEF Renames
      <3>2. pk.seq = id /\ pk.iid = size + 1 /\ pk.code = code
        BY <2>2
      <3>3. QED
        BY <2>11, <3>1, <3>2 DEF Took
    <2>13. /\ DOMAIN rr.names = DOMAIN r.names /\ rr.names[id] = With(r.names[id], size + 1, code)
           /\ \A i \in DOMAIN r.names : i # id => rr.names[i] = r.names[i]
      BY <1>3, <2>12
    <2>14. /\ DOMAIN rr.names[id] = DOMAIN r.names[id] \cup {size + 1} /\ rr.names[id][size + 1] = code
           /\ \A i \in DOMAIN r.names[id] : i # size + 1 => rr.names[id][i] = r.names[id][i]
      BY <2>13 DEF With
    <2>15. Tells(p, y, rr, tid)
      <3>1. y.sequences[tid] = t /\ DOMAIN y.sequences = DOMAIN x.sequences
        BY <2>6, <2>7
      <3>2. ASSUME NEW i \in 1 .. Len(longer) PROVE i \in DOMAIN rr.names[id] /\ rr.names[id][i] = longer[i]
        <4>1. CASE i = size + 1
          BY <2>9, <2>14, <4>1
        <4>2. CASE i # size + 1
          <5>1. i \in 1 .. size
            BY <2>9, <4>2
          <5>2. i \in DOMAIN r.names[id] /\ r.names[id][i] = iids[i] /\ longer[i] = iids[i]
            BY <1>3, <2>1, <2>9, <5>1
          <5>3. QED
            BY <2>14, <4>2, <5>2
        <4>3. QED
          BY <4>1, <4>2
      <3>3. QED
        BY <1>3, <1>4, <2>8, <2>9, <2>12, <2>13, <3>1, <3>2 DEF Tells
    <2>16. ASSUME NEW u \in DOMAIN x.sequences, u # tid PROVE Tells(p, y, rr, u)
      <3>1. Tells(p, x, r, u)
        BY DEF Follows
      <3>2. PICK v : v = x.sequences[u]
        OBVIOUS
      <3>3. v.id # id
        BY <1>1, <2>16, <3>2 DEF Follows
      <3>4. v.id \in DOMAIN r.names
        BY <3>1, <3>2 DEF Tells
      <3>5. rr.names[v.id] = r.names[v.id] /\ y.sequences[u] = v /\ DOMAIN y.sequences = DOMAIN x.sequences
        BY <2>6, <2>7, <2>13, <2>16, <3>2, <3>3, <3>4
      <3>6. QED
        BY <2>12, <2>13, <3>1, <3>2, <3>5 DEF Tells
    <2>17. Grows(x, y)
      <3>1. Starts(iids, longer)
        BY <1>3, <2>4, StartsPushed
      <3>2. \A u \in DOMAIN x.sequences : IsSequence(x.sequences[u].iids)
        BY DEF Follows, Tells
      <3>3. \A u \in DOMAIN x.sequences : Starts(x.sequences[u].iids, x.sequences[u].iids)
        BY <3>2, StartsItself
      <3>4. QED
        BY <1>1, <2>6, <2>7, <2>8, <3>1, <3>3 DEF Grows
    <2>18. \A t1, u \in DOMAIN y.sequences : y.sequences[t1].id = y.sequences[u].id => t1 = u
      <3>1. \A u \in DOMAIN x.sequences : y.sequences[u].id = x.sequences[u].id
        BY <2>17 DEF Grows
      <3>2. DOMAIN y.sequences = DOMAIN x.sequences
        BY <2>6, <2>7
      <3>3. QED
        BY <3>1, <3>2 DEF Follows
    <2>19. Keyed(y)
      BY <2>6, <2>17, KeyedOn DEF Follows
    <2>20. y = [slot |-> Slot(p), pid |-> Pid(p), emitted |-> y.emitted, sequences |-> y.sequences,
                templates |-> y.templates, out |-> y.out]
      BY <2>5, <2>6 DEF Shaped
    <2>21. IsSequence(y.out)
      BY <2>4, <2>6, SeqAppend DEF Follows
    <2>22. DOMAIN y.sequences \subseteq Threads /\ IsFiniteSet(DOMAIN y.sequences)
      BY <2>6, <2>7 DEF Follows
    <2>23. \A u \in DOMAIN y.sequences : Tells(p, y, rr, u)
      BY <2>6, <2>7, <2>15, <2>16
    <2>24. Follows(p, y, rr)
      BY <2>12, <2>18, <2>19, <2>20, <2>21, <2>22, <2>23 DEF Follows
    <2>25. Belongs("protobuf", p, pk)
      <3>1. pk.type = "name" /\ pk.seq = id
        BY <2>2
      <3>2. DOMAIN x.sequences \subseteq Threads
        BY DEF Follows
      <3>3. id \in SequencesOf(Slot(p))
        <4>1. PICK known : known = Cardinality(DOMAIN x.sequences)
          OBVIOUS
        <4>2. known \in Nat /\ known <= SequencesPerSlot - 1
          BY <3>2, <4>1, RoomForAll
        <4>3. index \in 0 .. (known - 1)
          BY <1>4, <4>1
        <4>4. index \in Nat /\ index <= SequencesPerSlot - 2
          BY <4>2, <4>3, SlotAssumption
        <4>5. QED
          BY <1>4, <4>4, IdsInSlot
      <3>4. QED
        BY <3>1, <3>3 DEF Belongs
    <2>26. Goes(p, x, r, y, rr)
      BY <2>4, <2>6, <2>10, <2>12, <2>17, <2>24, <2>25 DEF Goes, Writes
    <2>27. code \in ToSet(longer)
      <3>1. size + 1 \in DOMAIN longer
        BY <2>9, SeqFacts
      <3>2. QED
        BY <2>9, <3>1 DEF ToSet
    <2>28. QED
      BY <2>6, <2>7, <2>8, <2>9, <2>26, <2>27
  <1>7. QED
    BY <1>5, <1>6

\* Its name is where it stands among those of the sequence.
LEMMA NameFound ==
  ASSUME NEW x, NEW tid, NEW s, s = x.sequences[tid].iids, IsSequence(s), NEW code, code \in ToSet(s)
  PROVE  IidOf(x, tid, code) \in 1 .. Len(s) /\ s[IidOf(x, tid, code)] = code
  <1> DEFINE I == {i \in 1 .. Len(s) : s[i] = code}
             n == IidOf(x, tid, code)
  <1>1. Len(s) \in Nat /\ DOMAIN s = 1 .. Len(s)
    BY SeqFacts
  <1>2. I # {} /\ I \subseteq Nat
    BY <1>1 DEF ToSet
  <1>3. n = Min(I)
    BY <1>2 DEF SelectInSeq, IidOf
  <1> HIDE DEF I, n
  <1>4. PICK least \in I : \A m \in I : least <= m
    BY <1>2, Least
  <1>5. n \in I
    BY <1>3, <1>4 DEF Min
  <1>6. n \in 1 .. Len(s) /\ s[n] = code
    BY <1>5 DEF I
  <1>7. QED
    BY <1>6 DEF n

\* A template for what is not known yet: only it is new.
LEMMA TemplateKept ==
  ASSUME NEW p, NEW named, NEW r, Follows(p, named, r), NEW tid, NEW code, NEW opens \in BOOLEAN,
         NEW template, Fits(named, tid, code, opens, template),
         NEW templates, templates = With(named.templates, TemplateKey(tid, code, opens), template),
         NEW y, Shaped(p, y, named.emitted, named.sequences, templates, named.out)
  PROVE  /\ y.out = named.out /\ y.sequences = named.sequences
         /\ TemplateKey(tid, code, opens) \in DOMAIN y.templates
         /\ y.templates[TemplateKey(tid, code, opens)] = template
         /\ Follows(p, y, r)
  <1>1. PICK key : key = TemplateKey(tid, code, opens)
    OBVIOUS
  <1>2. templates = With(named.templates, key, template)
    BY <1>1
  <1>4. y = [slot |-> Slot(p), pid |-> Pid(p), emitted |-> named.emitted, sequences |-> named.sequences,
             templates |-> templates, out |-> named.out]
    BY DEF Shaped
  <1>5. y.emitted = named.emitted /\ y.sequences = named.sequences /\ y.templates = templates /\ y.out = named.out
    BY <1>4
  <1>6. /\ DOMAIN templates = DOMAIN named.templates \cup {key} /\ templates[key] = template
        /\ \A k \in DOMAIN named.templates : k # key => templates[k] = named.templates[k]
    BY <1>2 DEF With
  <1>7. Keyed(y)
    <2> SUFFICES ASSUME NEW t, NEW c, NEW o \in BOOLEAN, TemplateKey(t, c, o) \in DOMAIN y.templates
                 PROVE  Fits(y, t, c, o, y.templates[TemplateKey(t, c, o)])
      BY DEF Keyed
    <2>1. CASE TemplateKey(t, c, o) = key
      <3>1. t = tid /\ o = opens /\ (opens => c = code)
        <4>1. <<t, IF o THEN c ELSE 0, o>> = <<tid, IF opens THEN code ELSE 0, opens>>
          BY <1>1, <2>1 DEF TemplateKey
        <4>2. t = tid /\ o = opens /\ (IF o THEN c ELSE 0) = (IF opens THEN code ELSE 0)
          BY <4>1
        <4>3. QED
          BY <4>2
      <3>2. QED
        BY <1>5, <1>6, <2>1, <3>1 DEF Fits
    <2>2. CASE TemplateKey(t, c, o) # key
      <3>1. Fits(named, t, c, o, named.templates[TemplateKey(t, c, o)])
        BY <1>5, <1>6, <2>2 DEF Follows, Keyed
      <3>2. QED
        BY <1>5, <1>6, <2>2, <3>1 DEF Fits
    <2>3. QED
      BY <2>1, <2>2
  <1>8. \A u \in DOMAIN y.sequences : Tells(p, y, r, u)
    BY <1>5 DEF Follows, Tells
  <1>9. Follows(p, y, r)
    BY <1>4, <1>5, <1>7, <1>8 DEF Follows
  <1>10. QED
    BY <1>1, <1>5, <1>6, <1>9

LEMMA TemplateGoes ==
  ASSUME NEW p \in Procs, NEW x, NEW r, Follows(p, x, r), Room, NEW tid \in DOMAIN x.sequences, NEW code,
         NEW opens \in BOOLEAN, NEW y, y = Template(x, tid, code, opens)
  PROVE  /\ Fits(y, tid, code, opens, y.templates[TemplateKey(tid, code, opens)])
         /\ \E rr : Goes(p, x, r, y, rr)
  <1>1. PICK key : key = TemplateKey(tid, code, opens)
    OBVIOUS
  <1>2. CASE key \in DOMAIN x.templates
    <2>1. y = x
      BY <1>1, <1>2 DEF Template
    <2>2. Fits(x, tid, code, opens, x.templates[key])
      BY <1>1, <1>2 DEF Follows, Keyed
    <2>3. QED
      BY <1>1, <2>1, <2>2, GrowsNot
  <1>3. CASE key \notin DOMAIN x.templates
    <2>1. PICK named : named = IF opens THEN CodeIid(x, tid, code) ELSE x
      OBVIOUS
    <2>2. /\ tid \in DOMAIN named.sequences
          /\ opens => code \in ToSet(named.sequences[tid].iids) /\ IsSequence(named.sequences[tid].iids)
          /\ \E rr : Goes(p, x, r, named, rr)
      <3>1. CASE opens
        BY <2>1, <3>1, NameGoes
      <3>2. CASE ~opens
        BY <2>1, <3>2, GrowsNot
      <3>3. QED
        BY <3>1, <3>2
    <2>3. PICK rr : Goes(p, x, r, named, rr)
      BY <2>2
    <2>4. PICK template : template = [seq |-> named.sequences[tid].id, iid |-> IF opens THEN IidOf(named, tid, code) ELSE 0]
      OBVIOUS
    <2>5. Fits(named, tid, code, opens, template)
      <3>1. ASSUME opens
            PROVE  /\ template.iid \in 1 .. Len(named.sequences[tid].iids)
                   /\ named.sequences[tid].iids[template.iid] = code
        <4>1. template.iid = IidOf(named, tid, code)
          BY <2>4, <3>1
        <4>2. PICK s : s = named.sequences[tid].iids
          OBVIOUS
        <4>3. IsSequence(s) /\ code \in ToSet(s)
          BY <2>2, <3>1, <4>2
        <4>4. QED
          BY <4>1, <4>2, <4>3, NameFound
      <3>2. template.seq = named.sequences[tid].id
        BY <2>4
      <3>3. QED
        BY <2>2, <3>1, <3>2 DEF Fits
    <2>6. y = [named EXCEPT !.templates = With(@, TemplateKey(tid, code, opens), template)]
      BY <1>1, <1>3, <2>1, <2>4 DEF Template
    <2>7. Follows(p, named, rr)
      BY <2>3 DEF Goes
    <2>8. /\ y.out = named.out /\ y.sequences = named.sequences
          /\ y.templates[TemplateKey(tid, code, opens)] = template
          /\ Follows(p, y, rr)
      <3>1. PICK templates : templates = With(named.templates, TemplateKey(tid, code, opens), template)
        OBVIOUS
      <3>2. y = [named EXCEPT !.templates = templates]
        BY <2>6, <3>1
      <3>3. Shaped(p, named, named.emitted, named.sequences, named.templates, named.out)
        BY <2>7 DEF Follows, Shaped
      <3>4. Shaped(p, y, named.emitted, named.sequences, templates, named.out)
        BY <3>2, <3>3 DEF Shaped
      <3>5. QED
        BY <2>5, <2>7, <3>1, <3>4, TemplateKept
    <2>9. Goes(p, x, r, y, rr)
      <3>1. Writes(p, x, r, named, rr) /\ Grows(x, named) /\ rr.events = r.events
        BY <2>3 DEF Goes
      <3>2. Writes(p, x, r, y, rr)
        BY <2>8, <3>1 DEF Writes
      <3>3. Grows(x, y)
        BY <2>8, <3>1 DEF Grows
      <3>4. QED
        BY <2>8, <3>1, <3>2, <3>3 DEF Goes
    <2>10. Fits(y, tid, code, opens, template)
      BY <2>5, <2>8 DEF Fits
    <2>11. QED
      BY <2>8, <2>9, <2>10
  <1>4. QED
    BY <1>2, <1>3

---------------------------------------------------------------------------
(* A batch of events.                                                       *)

OpensOf(ev) == OpensSlice(KindOf(ev.word))

\* The packet of an event says what a reader needs, once it knows the names.
Points(x, ev, packet) ==
    /\ packet.type = "event" /\ packet.opens = OpensOf(ev) /\ packet.ts = ev.ts
    /\ Fits(x, ev.tid, CodeIdOf(ev.word), OpensOf(ev), packet)

PointsAll(x, events, buf) ==
    /\ IsSequence(buf) /\ Len(buf) <= Len(events)
    /\ \A i \in 1 .. Len(buf) : Points(x, events[i], buf[i])

LEMMA OpensBoolean == ASSUME NEW ev PROVE OpensOf(ev) \in BOOLEAN
  BY SMT DEF OpensOf, OpensSlice

LEMMA PointsOn ==
  ASSUME NEW x, NEW y, Grows(x, y), NEW events, NEW buf, PointsAll(x, events, buf)
  PROVE  PointsAll(y, events, buf)
  BY FitsOn DEF PointsAll, Points

Pushes(p, r0, r, acc, ev, next) ==
    /\ \E packet : next.buf = Append(acc.buf, packet) /\ Points(next.x, ev, packet)
    /\ \E rr : Follows(p, next.x, rr) /\ Told(p, r0, next.x, rr) /\ Grows(acc.x, next.x) /\ rr.events = r.events

LEMMA PushGoes ==
  ASSUME NEW p \in Procs, NEW acc, NEW r, NEW r0, Follows(p, acc.x, r), Told(p, r0, acc.x, r), Room,
         NEW ev, ev.tid \in Threads, NEW next, next = PushProto(acc, ev)
  PROVE  Pushes(p, r0, r, acc, ev, next)
  <1>1. PICK x, tid, code, opens :
          x = acc.x /\ tid = ev.tid /\ code = CodeIdOf(ev.word) /\ opens = OpensOf(ev)
    OBVIOUS
  <1>2. PICK y : y = EnsureSequence(x, tid)
    OBVIOUS
  <1>3. tid \in DOMAIN y.sequences /\ \E rr : Goes(p, x, r, y, rr)
    BY <1>1, <1>2, SequenceGoes
  <1>4. PICK ry : Goes(p, x, r, y, ry)
    BY <1>3
  <1>5. PICK z : z = Template(y, tid, code, opens)
    OBVIOUS
  <1>6. opens \in BOOLEAN
    BY <1>1, OpensBoolean
  <1>7. Follows(p, y, ry)
    BY <1>4 DEF Goes
  <1>8. /\ Fits(z, tid, code, opens, z.templates[TemplateKey(tid, code, opens)])
        /\ \E rr : Goes(p, y, ry, z, rr)
    BY <1>3, <1>5, <1>6, <1>7, TemplateGoes
  <1>9. PICK rz : Goes(p, y, ry, z, rz)
    BY <1>8
  <1>10. PICK template : template = z.templates[TemplateKey(tid, code, opens)]
    OBVIOUS
  <1>11. PICK packet : packet = [type |-> "event", seq |-> template.seq, opens |-> opens, iid |-> template.iid, ts |-> ev.ts]
    OBVIOUS
  <1>12. next = [x |-> z, buf |-> Append(acc.buf, packet)]
    BY <1>1, <1>2, <1>5, <1>10, <1>11 DEF PushProto, OpensOf
  <1>13. Points(z, ev, packet)
    <2>1. /\ packet.type = "event" /\ packet.opens = opens /\ packet.ts = ev.ts
          /\ packet.seq = template.seq /\ packet.iid = template.iid
      BY <1>11
    <2>2. Fits(z, tid, code, opens, packet)
      BY <1>8, <1>10, <2>1 DEF Fits
    <2>3. QED
      BY <1>1, <2>1, <2>2 DEF Points
  <1>14. Told(p, r0, y, ry) /\ Grows(x, y) /\ ry.events = r.events
    BY <1>1, <1>4, ToldOn DEF Goes
  <1>15. Told(p, r0, z, rz) /\ Grows(y, z) /\ rz.events = ry.events /\ Follows(p, z, rz)
    BY <1>9, <1>14, ToldOn DEF Goes
  <1>16. Grows(x, z)
    BY <1>14, <1>15, GrowsOn
  <1>17. next.x = z /\ next.buf = Append(acc.buf, packet)
    BY <1>12
  <1>18. Follows(p, next.x, rz) /\ Told(p, r0, next.x, rz) /\ Grows(acc.x, next.x) /\ rz.events = r.events
    BY <1>1, <1>14, <1>15, <1>16, <1>17
  <1>19. QED
    BY <1>13, <1>17, <1>18 DEF Pushes

\* So far x has told its reader what the first of the events need, and buf has
\* their packets.
Pushed(p, r0, acc, events, n) ==
    /\ Len(acc.buf) = n /\ PointsAll(acc.x, events, acc.buf)
    /\ \E r : Follows(p, acc.x, r) /\ Told(p, r0, acc.x, r) /\ r.events = r0.events

LEMMA PushedOne ==
  ASSUME NEW p \in Procs, NEW r0, Room, NEW events, IsSequence(events), NEW n \in 1 .. Len(events),
         events[n].tid \in Threads, NEW acc, Pushed(p, r0, acc, events, n - 1), NEW next, next = PushProto(acc, events[n])
  PROVE  Pushed(p, r0, next, events, n)
  <1>1. PICK r : Follows(p, acc.x, r) /\ Told(p, r0, acc.x, r) /\ r.events = r0.events
    BY DEF Pushed
  <1>2. PICK ev : ev = events[n]
    OBVIOUS
  <1>3. Pushes(p, r0, r, acc, ev, next)
    <2>1. ev.tid \in Threads /\ next = PushProto(acc, ev)
      BY <1>2
    <2>2. QED
      BY <1>1, <2>1, PushGoes
  <1>4. PICK packet : next.buf = Append(acc.buf, packet) /\ Points(next.x, ev, packet)
    BY <1>3 DEF Pushes
  <1>5. PICK rr : Follows(p, next.x, rr) /\ Told(p, r0, next.x, rr) /\ Grows(acc.x, next.x) /\ rr.events = r.events
    BY <1>3 DEF Pushes
  <1>6. PointsAll(next.x, events, acc.buf) /\ Len(acc.buf) = n - 1
    BY <1>5, PointsOn DEF Pushed
  <1>7. PICK buf : buf = next.buf
    OBVIOUS
  <1>8. /\ IsSequence(buf) /\ Len(buf) = n /\ buf[n] = packet
        /\ \A i \in 1 .. (n - 1) : buf[i] = acc.buf[i]
    <2>1. IsSequence(acc.buf) /\ n - 1 + 1 = n
      BY <1>6, SeqFacts DEF PointsAll
    <2>2. QED
      BY <1>4, <1>6, <1>7, <2>1, SeqAppend
  <1>9. PointsAll(next.x, events, buf)
    <2>1. n \in Nat /\ n <= Len(events)
      BY SeqFacts
    <2>2. ASSUME NEW i \in 1 .. n PROVE Points(next.x, events[i], buf[i])
      <3>1. CASE i = n
        BY <1>2, <1>4, <1>8, <3>1
      <3>2. CASE i # n
        <4>1. i \in 1 .. (n - 1)
          BY <2>1, <3>2
        <4>2. QED
          BY <1>6, <1>8, <4>1 DEF PointsAll
      <3>3. QED
        BY <3>1, <3>2
    <2>3. QED
      BY <1>8, <2>1, <2>2 DEF PointsAll
  <1>10. QED
    BY <1>1, <1>5, <1>7, <1>8, <1>9 DEF Pushed

---------------------------------------------------------------------------
(* What a reader sees of a batch.                                           *)

Seens(p, events) == [i \in DOMAIN events |-> Seen(p, events[i])]

Tracks(f, p, x, r) == IsReader(f, r) /\ IF f = "json" THEN x = [pid |-> Pid(p), out |-> x.out] ELSE Follows(p, x, r)

Conveys(f, x, ev, entry) == IF f = "json" THEN entry = JsonEvent(x, ev) ELSE Points(x, ev, entry)

ConveysAll(f, x, events, entries) ==
    /\ IsSequence(entries) /\ Len(entries) = Len(events)
    /\ \A i \in 1 .. Len(events) : Conveys(f, x, events[i], entries[i])

BelongAll(f, p, entries) == \A i \in DOMAIN entries : Belongs(f, p, entries[i])

LEMMA PacketSeen ==
  ASSUME NEW p \in Procs, NEW x, NEW r, Follows(p, x, r), Room, NEW ev, NEW packet, Points(x, ev, packet),
         format # "json", NEW rr, rr = ReadPacket(r, Pid(p), packet)
  PROVE  Belongs("protobuf", p, packet) /\ Follows(p, x, rr) /\ rr.events = Append(r.events, Seen(p, ev))
  <1>1. PICK tid, code, opens : tid = ev.tid /\ code = CodeIdOf(ev.word) /\ opens = OpensOf(ev)
    OBVIOUS
  <1>2. PICK s, id, iids : s = x.sequences[tid] /\ id = s.id /\ iids = s.iids
    OBVIOUS
  <1>3. /\ packet.type = "event" /\ packet.opens = opens /\ packet.ts = ev.ts
        /\ tid \in DOMAIN x.sequences /\ packet.seq = id
        /\ opens => packet.iid \in 1 .. Len(iids) /\ iids[packet.iid] = code
    BY <1>1, <1>2 DEF Points, Fits
  <1>4. Tells(p, x, r, tid)
    BY <1>3 DEF Follows
  <1>5. /\ id \in DOMAIN r.at /\ r.at[id].pid = Pid(p) /\ r.at[id].tid = tid
        /\ \A i \in 1 .. Len(iids) : i \in DOMAIN r.names[id] /\ r.names[id][i] = iids[i]
    BY <1>2, <1>4 DEF Tells
  <1>6. Counts(r, Pid(p), packet)
    BY <1>3, <1>5 DEF Counts
  <1>7. Took(r, Pid(p), packet, rr)
    BY PacketDoes DEF Follows
  <1>8. /\ rr.names = r.names /\ rr.at = r.at /\ rr.events = Append(r.events, SeenOfPacket(r, packet))
        /\ IsReader("protobuf", rr)
    BY <1>6, <1>7 DEF Took
  <1>9. SeenOfPacket(r, packet) = Seen(p, ev)
    <2>1. SeenOfPacket(r, packet) =
            [pid |-> Pid(p), tid |-> tid, opens |-> opens, ts |-> ev.ts,
             code |-> IF opens /\ packet.iid \in DOMAIN r.names[id] THEN r.names[id][packet.iid] ELSE 0]
      BY <1>3, <1>5 DEF SeenOfPacket
    <2>2. (IF opens /\ packet.iid \in DOMAIN r.names[id] THEN r.names[id][packet.iid] ELSE 0) = IF opens THEN code ELSE 0
      BY <1>3, <1>5
    <2>3. Seen(p, ev) = [pid |-> Pid(p), tid |-> tid, opens |-> opens, ts |-> ev.ts, code |-> IF opens THEN code ELSE 0]
      BY <1>1 DEF Seen, OpensOf
    <2>4. QED
      BY <2>1, <2>2, <2>3
  <1>10. Follows(p, x, rr)
    <2>1. Shaped(p, x, x.emitted, x.sequences, x.templates, x.out) /\ IsSequence(x.out)
      BY DEF Follows, Shaped
    <2>2. Knows(x, r, rr)
      <3>1. \A u \in DOMAIN x.sequences : x.sequences[u].id \in DOMAIN r.at /\ x.sequences[u].id \in DOMAIN r.names
        BY DEF Follows, Tells
      <3>2. QED
        BY <1>8, <3>1 DEF Knows
    <2>3. QED
      BY <1>8, <2>1, <2>2, FollowsAside
  <1>11. Belongs("protobuf", p, packet)
    <2>1. PICK known : known = Cardinality(DOMAIN x.sequences)
      OBVIOUS
    <2>2. known \in Nat /\ known <= SequencesPerSlot - 1
      BY <2>1, RoomForAll DEF Follows
    <2>3. PICK index \in 0 .. (known - 1) : id = SequenceId(Slot(p), index)
      BY <1>2, <1>4, <2>1 DEF Tells
    <2>4. index \in Nat /\ index <= SequencesPerSlot - 2
      BY <2>2, <2>3, SlotAssumption
    <2>5. id \in SequencesOf(Slot(p))
      BY <2>3, <2>4, IdsInSlot
    <2>6. QED
      BY <1>3, <2>5 DEF Belongs
  <1>12. QED
    BY <1>8, <1>9, <1>10, <1>11

Sees(f, p, x, r, ev, entry, rr) ==
    Belongs(f, p, entry) /\ Tracks(f, p, x, rr) /\ Shown(f, rr) = Append(Shown(f, r), Seen(p, ev))

LEMMA EntrySeen ==
  ASSUME NEW p \in Procs, NEW x, NEW f \in {"protobuf", "json"}, f = format, NEW r, Tracks(f, p, x, r), Room, NEW ev, NEW entry,
         Conveys(f, x, ev, entry), NEW rr, rr = ReadOwn(f, p, r, entry)
  PROVE  Sees(f, p, x, r, ev, entry, rr)
  <1>1. IsReader(f, rr)
    BY OwnRead DEF Tracks
  <1>2. CASE f = "json"
    <2>1. x.pid = Pid(p) /\ entry = JsonEvent(x, ev)
      BY <1>2 DEF Tracks, Conveys
    <2>2. /\ entry.type = "event" /\ entry.pid = Pid(p) /\ entry.tid = ev.tid /\ entry.code = CodeIdOf(ev.word)
          /\ entry.opens = OpensSlice(KindOf(ev.word)) /\ entry.ts = ev.ts
      BY <2>1 DEF JsonEvent
    <2>3. PICK seen : seen = [pid |-> entry.pid, tid |-> entry.tid, code |-> entry.code, opens |-> entry.opens, ts |-> entry.ts]
      OBVIOUS
    <2>4. rr = Append(r, seen)
      BY <1>2, <2>2, <2>3 DEF ReadOwn, ReadObject
    <2>5. seen = Seen(p, ev)
      BY <1>2, <2>2, <2>3 DEF Seen
    <2>6. QED
      BY <1>1, <1>2, <2>1, <2>2, <2>4, <2>5 DEF Shown, Belongs, Tracks, Sees
  <1>3. CASE f = "protobuf"
    <2>1. Follows(p, x, r) /\ Points(x, ev, entry) /\ format # "json"
      BY <1>3 DEF Tracks, Conveys
    <2>2. PICK ss : ss = ReadPacket(r, Pid(p), entry)
      OBVIOUS
    <2>3. Belongs("protobuf", p, entry) /\ Follows(p, x, ss) /\ ss.events = Append(r.events, Seen(p, ev))
      BY <2>1, <2>2, PacketSeen
    <2>4. entry.seq \in SequencesOf(Slot(p))
      BY <2>3 DEF Belongs
    <2>5. rr = ss
      BY <1>3, <2>2, <2>4 DEF ReadOwn
    <2>6. QED
      BY <1>1, <1>3, <2>3, <2>5 DEF Shown, Tracks, Sees
  <1>4. QED
    BY <1>2, <1>3

\* n events more than in s, those of more.
Extends(t, s, more, n) ==
    /\ IsSequence(t) /\ Len(t) = Len(s) + n
    /\ \A i \in 1 .. Len(s) : t[i] = s[i]
    /\ \A i \in 1 .. n : t[Len(s) + i] = more[i]

LEMMA ExtendsOne ==
  ASSUME NEW s, IsSequence(s), NEW t, NEW more, NEW n \in Nat \ {0}, Extends(t, s, more, n - 1),
         NEW u, u = Append(t, more[n])
  PROVE  Extends(u, s, more, n)
  <1>1. /\ IsSequence(u) /\ Len(u) = Len(t) + 1 /\ u[Len(t) + 1] = more[n]
        /\ \A i \in 1 .. Len(t) : u[i] = t[i]
    BY SeqAppend DEF Extends
  <1>2. PICK size \in Nat : size = Len(s)
    BY SeqFacts
  <1>3. Len(t) = size + (n - 1) /\ Len(u) = size + n
    BY <1>1, <1>2 DEF Extends
  <1>4. ASSUME NEW i \in 1 .. size PROVE u[i] = s[i]
    <2>1. i \in 1 .. Len(t)
      BY <1>3
    <2>2. QED
      BY <1>1, <1>2, <2>1 DEF Extends
  <1>5. ASSUME NEW i \in 1 .. n PROVE u[size + i] = more[i]
    <2>1. CASE i = n
      BY <1>1, <1>3, <2>1
    <2>2. CASE i # n
      <3>1. i \in 1 .. (n - 1) /\ size + i \in 1 .. Len(t)
        BY <1>3, <2>2
      <3>2. QED
        BY <1>1, <1>2, <3>1 DEF Extends
    <2>3. QED
      BY <2>1, <2>2
  <1>6. QED
    BY <1>1, <1>2, <1>3, <1>4, <1>5 DEF Extends

LEMMA SeensListed ==
  ASSUME NEW p, NEW events, IsSequence(events)
  PROVE  /\ IsSequence(Seens(p, events)) /\ Len(Seens(p, events)) = Len(events)
         /\ \A i \in 1 .. Len(events) : Seens(p, events)[i] = Seen(p, events[i])
  <1>1. PICK seens : seens = Seens(p, events)
    OBVIOUS
  <1>2. seens = [i \in DOMAIN events |-> seens[i]] /\ \A i \in DOMAIN events : seens[i] = Seen(p, events[i])
    BY <1>1 DEF Seens
  <1>3. QED
    BY <1>1, <1>2, SeqLike, SeqFacts

LEMMA EntriesSeen ==
  ASSUME NEW p \in Procs, NEW x, NEW f \in {"protobuf", "json"}, f = format, NEW r, Tracks(f, p, x, r), Room,
         NEW events, IsSequence(events), NEW entries, ConveysAll(f, x, events, entries), NEW rr, rr = ReadOn(f, p, r, entries)
  PROVE  BelongAll(f, p, entries) /\ Tracks(f, p, x, rr) /\ Joins(Shown(f, rr), Shown(f, r), Seens(p, events))
  <1>1. PICK size \in Nat, zero \in Nat : size = Len(events) /\ zero = 0
    BY SeqFacts
  <1>2. PICK seens : seens = Seens(p, events)
    OBVIOUS
  <1>3. IsSequence(seens) /\ Len(seens) = size /\ \A i \in 1 .. size : seens[i] = Seen(p, events[i])
    BY <1>1, <1>2, SeensListed
  <1>4. /\ IsSequence(entries) /\ Len(entries) = size /\ DOMAIN entries = 1 .. size
        /\ \A i \in 1 .. size : Conveys(f, x, events[i], entries[i])
    BY <1>1, SeqFacts DEF ConveysAll
  <1>5. PICK g : g[zero] = r /\ Walks(f, p, g, entries, zero, Len(entries)) /\ ReadOn(f, p, r, entries) = g[Len(entries)]
    BY <1>1, <1>4, ReadOnUnfolds
  <1>6. PICK s : s = Shown(f, r)
    OBVIOUS
  <1>7. IsSequence(s)
    BY <1>6 DEF Tracks, IsReader
  <1> DEFINE T == {n \in Nat : Tracks(f, p, x, g[n]) /\ Extends(Shown(f, g[n]), s, seens, n)}
  <1>8. 0 \in T
    <2>1. g[0] = r
      BY <1>1, <1>5
    <2>2. Extends(s, s, seens, 0)
      BY <1>7, SeqFacts DEF Extends
    <2>3. QED
      BY <1>6, <2>1, <2>2
  <1>9. ASSUME NEW n \in 1 .. size PROVE zero + n = n /\ zero + n - 1 = n - 1 /\ g[n] = ReadOwn(f, p, g[n - 1], entries[n])
    <2>1. zero + n = n /\ zero + n - 1 = n - 1
      BY <1>1
    <2>2. g[zero + n] = ReadOwn(f, p, g[zero + n - 1], entries[zero + n])
      BY <1>4, <1>5 DEF Walks
    <2>3. QED
      BY <2>1, <2>2
  <1>10. ASSUME NEW n \in 1 .. size, n - 1 \in T PROVE n \in T /\ Belongs(f, p, entries[n])
    <2>1. PICK m, next, ev, entry : m = g[n - 1] /\ next = g[n] /\ ev = events[n] /\ entry = entries[n]
      OBVIOUS
    <2>2. Tracks(f, p, x, m) /\ Extends(Shown(f, m), s, seens, n - 1)
      BY <1>10, <2>1
    <2>3. next = ReadOwn(f, p, m, entry) /\ Conveys(f, x, ev, entry)
      BY <1>4, <1>9, <2>1
    <2>4. Belongs(f, p, entry) /\ Tracks(f, p, x, next) /\ Shown(f, next) = Append(Shown(f, m), Seen(p, ev))
      <3>1. Sees(f, p, x, m, ev, entry, next)
        BY <2>2, <2>3, EntrySeen
      <3>2. QED
        BY <3>1 DEF Sees
    <2>5. PICK t, u : t = Shown(f, m) /\ u = Shown(f, next)
      OBVIOUS
    <2>6. u = Append(t, seens[n])
      BY <1>3, <2>1, <2>4, <2>5
    <2>7. n \in Nat \ {0} /\ Extends(t, s, seens, n - 1)
      BY <2>2, <2>5
    <2>8. Extends(u, s, seens, n)
      BY <1>7, <2>6, <2>7, ExtendsOne
    <2>9. QED
      BY <2>1, <2>4, <2>5, <2>7, <2>8
  <1> DEFINE U == {n \in Nat : n \in T /\ \A i \in 1 .. n : Belongs(f, p, entries[i])}
  <1>11. 0 \in U
    BY <1>8
  <1>12. ASSUME NEW n \in 1 .. size, n - 1 \in U PROVE n \in U
    <2> HIDE DEF T
    <2>1. n - 1 \in T /\ n \in Nat /\ \A i \in 1 .. n : i = n \/ i \in 1 .. (n - 1)
      BY <1>12
    <2>2. n \in T /\ Belongs(f, p, entries[n])
      BY <1>10, <2>1
    <2>3. QED
      BY <1>12, <2>1, <2>2
  <1>13. size \in U
    <2> HIDE DEF U
    <2>1. U \subseteq Nat
      BY DEF U
    <2>2. QED
      BY <1>1, <1>11, <1>12, <2>1, NatSteps
  <1>14. BelongAll(f, p, entries)
    BY <1>4, <1>13 DEF BelongAll
  <1>15. rr = g[size] /\ Tracks(f, p, x, rr) /\ Extends(Shown(f, rr), s, seens, size)
    BY <1>4, <1>5, <1>13
  <1>16. Joins(Shown(f, rr), s, seens)
    BY <1>3, <1>7, <1>15 DEF Extends, Joins
  <1>17. QED
    BY <1>2, <1>6, <1>14, <1>15, <1>16

---------------------------------------------------------------------------
(* What an exporter hands over, as its reader sees it.                      *)

\* x has become y, whose buffer tells the reader of p, who was r, of the events
\* more, and the reader keeps track.
Hands(f, p, r, y, more) ==
    /\ IsSequence(y.out) /\ BelongAll(f, p, y.out)
    /\ Tracks(f, p, [y EXCEPT !.out = <<>>], ReadOn(f, p, r, y.out))
    /\ Joins(Shown(f, ReadOn(f, p, r, y.out)), Shown(f, r), more)

LEMMA EmptiedFollows ==
  ASSUME NEW p \in Procs, NEW y, NEW e, NEW sequences, NEW templates, NEW out, Shaped(p, y, e, sequences, templates, out),
         NEW x, x.sequences = sequences, x.templates = templates, NEW r, Follows(p, x, r)
  PROVE  Follows(p, [y EXCEPT !.out = <<>>], r)
  <1>1. PICK z, nothing : z = [y EXCEPT !.out = nothing] /\ nothing = <<>>
    OBVIOUS
  <1>2. Shaped(p, z, e, x.sequences, x.templates, nothing)
    BY <1>1 DEF Shaped
  <1>3. IsSequence(nothing) /\ IsReader("protobuf", r)
    BY <1>1, SeqEmpty DEF Follows
  <1>4. Knows(x, r, r)
    <2>1. \A u \in DOMAIN x.sequences : x.sequences[u].id \in DOMAIN r.at /\ x.sequences[u].id \in DOMAIN r.names
      BY DEF Follows, Tells
    <2>2. QED
      BY <2>1 DEF Knows
  <1>5. Follows(p, z, r)
    BY <1>2, <1>3, <1>4, FollowsAside
  <1>6. QED
    BY <1>1, <1>5

LEMMA ToldNothing ==
  ASSUME NEW p, NEW r, NEW x, x.out = <<>>
  PROVE  Told(p, r, x, r)
  <1>1. PICK f : f = "protobuf"
    OBVIOUS
  <1>2. IsSequence(x.out) /\ r = ReadOn(f, p, r, x.out)
    BY SeqEmpty, ReadOnNothing
  <1>3. DOMAIN x.out = {}
    OBVIOUS
  <1>4. QED
    BY <1>1, <1>2, <1>3 DEF Told

LEMMA JoinsConcat ==
  ASSUME NEW s, IsSequence(s), NEW t, IsSequence(t)
  PROVE  Joins(s \o t, s, t)
  <1>1. PICK both : both = s \o t
    OBVIOUS
  <1>2. /\ IsSequence(both) /\ Len(both) = Len(s) + Len(t)
        /\ \A i \in 1 .. Len(s) : both[i] = s[i]
        /\ \A i \in 1 .. Len(t) : both[Len(s) + i] = t[i]
    BY <1>1, SeqConcat
  <1>3. Joins(both, s, t)
    BY <1>2 DEF Joins
  <1>4. QED
    BY <1>1, <1>3

LEMMA BelongJoined ==
  ASSUME NEW f, NEW p, NEW both, NEW s, NEW t, Joins(both, s, t), BelongAll(f, p, s), BelongAll(f, p, t)
  PROVE  BelongAll(f, p, both)
  <1>1. PICK k \in Nat, l \in Nat : k = Len(s) /\ l = Len(t)
    BY SeqFacts DEF Joins
  <1>2. DOMAIN both = 1 .. (k + l) /\ DOMAIN s = 1 .. k /\ DOMAIN t = 1 .. l
    BY <1>1, SeqFacts DEF Joins
  <1>3. ASSUME NEW i \in 1 .. (k + l) PROVE Belongs(f, p, both[i])
    <2>1. CASE i <= k
      <3>1. i \in 1 .. k
        BY <2>1
      <3>2. both[i] = s[i]
        BY <1>1, <3>1 DEF Joins
      <3>3. QED
        BY <1>2, <3>1, <3>2 DEF BelongAll
    <2>2. CASE ~(i <= k)
      <3>1. i - k \in 1 .. l /\ k + (i - k) = i
        BY <2>2
      <3>2. both[k + (i - k)] = t[i - k]
        BY <1>1, <3>1 DEF Joins
      <3>3. QED
        BY <1>2, <3>1, <3>2 DEF BelongAll
    <2>3. QED
      BY <2>1, <2>2
  <1>4. QED
    BY <1>2, <1>3 DEF BelongAll

LEMMA ProtoHands ==
  ASSUME NEW p \in Procs, format = "protobuf", NEW x, NEW r, Follows(p, x, r), x.out = <<>>, Room,
         NEW events, IsSequence(events), \A i \in 1 .. Len(events) : events[i].tid \in Threads,
         NEW y, y = ProtoWriteBatch(x, events)
  PROVE  Hands("protobuf", p, r, y, Seens(p, events))
  <1> DEFINE g == CHOOSE g : ProtoFolds(x, events, Len(events), g)
  <1>1. PICK size \in Nat : size = Len(events)
    BY SeqFacts
  <1>2. ProtoFolds(x, events, Len(events), g)
    BY <1>1, ProtoFoldExists
  <1>3. y = [g[Len(events)].x EXCEPT !.out = @ \o g[Len(events)].buf]
    BY DEF ProtoWriteBatch, ProtoFolds
  <1> HIDE DEF g
  <1>4. PICK first : first = [x |-> EnsureProcess(x), buf |-> <<>>]
    OBVIOUS
  <1>5. /\ g[0] = first
        /\ \A n \in 1 .. size : g[n] = PushProto(g[n - 1], events[n])
    BY <1>1, <1>2, <1>4 DEF ProtoFolds
  <1> DEFINE T == {n \in Nat : Pushed(p, r, g[n], events, n)}
  <1>6. 0 \in T
    <2>1. PICK z : z = EnsureProcess(x)
      OBVIOUS
    <2>2. PICK rz : Goes(p, x, r, z, rz)
      BY <2>1, ProcessGoes
    <2>3. Told(p, r, x, r)
      BY ToldNothing
    <2>4. Told(p, r, z, rz) /\ Follows(p, z, rz) /\ rz.events = r.events
      BY <2>2, <2>3, ToldOn DEF Goes
    <2>5. first.x = z /\ first.buf = <<>>
      BY <1>4, <2>1
    <2>6. IsSequence(first.buf) /\ Len(first.buf) = 0
      BY <2>5, SeqEmpty
    <2>7. PointsAll(first.x, events, first.buf)
      BY <1>1, <2>6 DEF PointsAll
    <2>8. Pushed(p, r, first, events, 0)
      BY <2>4, <2>5, <2>6, <2>7 DEF Pushed
    <2>9. QED
      BY <1>5, <2>8
  <1>7. ASSUME NEW n \in 1 .. size, n - 1 \in T PROVE n \in T
    <2>1. PICK acc, next : acc = g[n - 1] /\ next = g[n]
      OBVIOUS
    <2>2. Pushed(p, r, acc, events, n - 1) /\ next = PushProto(acc, events[n])
      BY <1>5, <1>7, <2>1
    <2>3. n \in 1 .. Len(events) /\ events[n].tid \in Threads /\ n \in Nat
      BY <1>1
    <2>4. Pushed(p, r, next, events, n)
      BY <2>2, <2>3, PushedOne
    <2>5. QED
      BY <2>1, <2>3, <2>4
  <1>8. size \in T
    <2> HIDE DEF T
    <2>1. T \subseteq Nat
      BY DEF T
    <2>2. QED
      BY <1>6, <1>7, <2>1, NatSteps
  <1>9. PICK all, buf, z : all = g[size] /\ buf = all.buf /\ z = all.x
    OBVIOUS
  <1>10. Pushed(p, r, all, events, size)
    BY <1>8, <1>9
  <1>11. PICK rz : Follows(p, z, rz) /\ Told(p, r, z, rz) /\ rz.events = r.events
    BY <1>9, <1>10 DEF Pushed
  <1>12. Len(buf) = size /\ IsSequence(buf) /\ \A i \in 1 .. size : Points(z, events[i], buf[i])
    BY <1>9, <1>10 DEF Pushed, PointsAll
  <1>13. PICK f : f = "protobuf"
    OBVIOUS
  <1>14. ConveysAll(f, z, events, buf)
    BY <1>1, <1>12, <1>13 DEF ConveysAll, Conveys
  <1>15. IsReader("protobuf", rz)
    BY <1>11 DEF Follows
  <1>16. Tracks(f, p, z, rz) /\ f \in {"protobuf", "json"} /\ f = format
    BY <1>11, <1>13, <1>15 DEF Tracks
  <1>17. PICK rr : rr = ReadOn(f, p, rz, buf)
    OBVIOUS
  <1>18. BelongAll(f, p, buf) /\ Tracks(f, p, z, rr) /\ Joins(Shown(f, rr), Shown(f, rz), Seens(p, events))
    BY <1>14, <1>16, <1>17, EntriesSeen
  <1>19. y = [z EXCEPT !.out = @ \o buf]
    BY <1>1, <1>3, <1>9
  <1>20. PICK out : out = z.out \o buf
    OBVIOUS
  <1>21. Shaped(p, y, z.emitted, z.sequences, z.templates, out)
    <2>1. Shaped(p, z, z.emitted, z.sequences, z.templates, z.out)
      BY <1>11 DEF Follows, Shaped
    <2>2. y = [z EXCEPT !.out = out]
      BY <1>19, <1>20
    <2>3. QED
      BY <2>1, <2>2 DEF Shaped
  <1>22. y.out = out
    BY <1>21 DEF Shaped
  <1>23. /\ IsSequence(z.out) /\ (\A i \in DOMAIN z.out : Belongs("protobuf", p, z.out[i])) /\ rz = ReadOn("protobuf", p, r, z.out)
    BY <1>11 DEF Told
  <1>24. Joins(out, z.out, buf)
    BY <1>12, <1>20, <1>23, JoinsConcat
  <1>25. ReadOn(f, p, r, out) = rr
    BY <1>13, <1>17, <1>23, <1>24, ReadOnJoined
  <1>26. BelongAll(f, p, out)
    <2>1. BelongAll(f, p, z.out)
      BY <1>13, <1>23 DEF BelongAll
    <2>2. QED
      BY <1>18, <1>24, <2>1, BelongJoined
  <1>27. Tracks(f, p, [y EXCEPT !.out = <<>>], rr)
    <2>1. Follows(p, z, rr) /\ IsReader(f, rr)
      BY <1>13, <1>18 DEF Tracks
    <2>2. Follows(p, [y EXCEPT !.out = <<>>], rr)
      BY <1>21, <2>1, EmptiedFollows
    <2>3. QED
      BY <1>13, <2>1, <2>2 DEF Tracks
  <1>28. Shown(f, rz) = Shown(f, r)
    BY <1>11, <1>13 DEF Shown
  <1>29. IsSequence(out)
    BY <1>24 DEF Joins
  <1>30. Hands(f, p, r, y, Seens(p, events))
    BY <1>18, <1>22, <1>25, <1>26, <1>27, <1>28, <1>29 DEF Hands
  <1>31. QED
    BY <1>13, <1>30

\* Entries that change nothing for the reader.
Unread(f, p, r, entries) == \A i \in DOMAIN entries : ReadOwn(f, p, r, entries[i]) = r

LEMMA PassedOver ==
  ASSUME NEW f, NEW p, NEW r, NEW entries, IsSequence(entries), Unread(f, p, r, entries)
  PROVE  ReadOn(f, p, r, entries) = r
  <1>1. PICK size \in Nat, zero \in Nat : size = Len(entries) /\ zero = 0
    BY SeqFacts
  <1>2. PICK g : g[zero] = r /\ Walks(f, p, g, entries, zero, Len(entries)) /\ ReadOn(f, p, r, entries) = g[Len(entries)]
    BY <1>1, ReadOnUnfolds
  <1> DEFINE T == {n \in Nat : g[n] = r}
  <1>3. 0 \in T
    BY <1>1, <1>2
  <1>4. ASSUME NEW n \in 1 .. size, n - 1 \in T PROVE n \in T
    <2>1. zero + n = n /\ zero + n - 1 = n - 1
      BY <1>1
    <2>2. g[zero + n] = ReadOwn(f, p, g[zero + n - 1], entries[zero + n])
      BY <1>1, <1>2 DEF Walks
    <2>3. g[n] = ReadOwn(f, p, r, entries[n])
      BY <1>4, <2>1, <2>2
    <2>4. n \in DOMAIN entries
      BY <1>1, SeqFacts
    <2>5. QED
      BY <2>3, <2>4 DEF Unread
  <1>5. size \in T
    <2> HIDE DEF T
    <2>1. T \subseteq Nat
      BY DEF T
    <2>2. QED
      BY <1>3, <1>4, <2>1, NatSteps
  <1>6. QED
    BY <1>1, <1>2, <1>5

LEMMA JoinsNothing ==
  ASSUME NEW s, IsSequence(s)
  PROVE  Joins(s, s, <<>>)
  <1>1. PICK nothing : nothing = <<>>
    OBVIOUS
  <1>2. IsSequence(nothing) /\ Len(nothing) = 0 /\ Len(s) \in Nat
    BY <1>1, SeqEmpty, SeqFacts
  <1>3. Joins(s, s, nothing)
    BY <1>2 DEF Joins
  <1>4. QED
    BY <1>1, <1>3

LEMMA UnreadHands ==
  ASSUME NEW f, NEW p, NEW y, NEW r, IsReader(f, r), IsSequence(y.out), BelongAll(f, p, y.out), Unread(f, p, r, y.out),
         Tracks(f, p, [y EXCEPT !.out = <<>>], r)
  PROVE  Hands(f, p, r, y, <<>>)
  <1>1. ReadOn(f, p, r, y.out) = r
    BY PassedOver
  <1>2. Joins(Shown(f, r), Shown(f, r), <<>>)
    BY JoinsNothing DEF IsReader
  <1>3. QED
    BY <1>1, <1>2 DEF Hands

LEMMA ToldHands ==
  ASSUME NEW p \in Procs, NEW r, NEW y, NEW rr, Told(p, r, y, rr), Follows(p, y, rr), rr.events = r.events
  PROVE  Hands("protobuf", p, r, y, <<>>)
  <1>1. PICK f : f = "protobuf"
    OBVIOUS
  <1>2. IsSequence(y.out) /\ BelongAll(f, p, y.out) /\ ReadOn(f, p, r, y.out) = rr
    BY <1>1 DEF Told, BelongAll
  <1>3. Follows(p, [y EXCEPT !.out = <<>>], rr)
    <2>1. Shaped(p, y, y.emitted, y.sequences, y.templates, y.out)
      BY DEF Follows, Shaped
    <2>2. QED
      BY <2>1, EmptiedFollows
  <1>4. IsReader(f, rr) /\ Tracks(f, p, [y EXCEPT !.out = <<>>], rr)
    BY <1>1, <1>3 DEF Tracks, Follows
  <1>5. Shown(f, rr) = Shown(f, r) /\ Joins(Shown(f, rr), Shown(f, rr), <<>>)
    BY <1>1, <1>4, JoinsNothing DEF Shown, IsReader
  <1>6. Hands(f, p, r, y, <<>>)
    BY <1>2, <1>4, <1>5 DEF Hands
  <1>7. QED
    BY <1>1, <1>6

LEMMA ProtoEndHands ==
  ASSUME NEW p \in Procs, NEW x, NEW r, Follows(p, x, r), x.out = <<>>, NEW dropped, NEW y, y = ProtoFinish(x, dropped)
  PROVE  Hands("protobuf", p, r, y, <<>>)
  <1>1. Told(p, r, x, r)
    BY ToldNothing
  <1>2. CASE dropped = 0
    <2>1. y = x
      BY <1>2 DEF ProtoFinish
    <2>2. QED
      BY <1>1, <2>1, ToldHands
  <1>3. CASE dropped # 0
    <2>1. PICK z : z = EnsureProcess(x)
      OBVIOUS
    <2>2. PICK rz : Goes(p, x, r, z, rz)
      BY <2>1, ProcessGoes
    <2>3. Told(p, r, z, rz) /\ Follows(p, z, rz) /\ rz.events = r.events
      BY <1>1, <2>2, ToldOn DEF Goes
    <2>4. PICK pk : pk = [type |-> "dropped", seq |-> ProcessSequenceId(x.slot), pid |-> x.pid, count |-> dropped]
      OBVIOUS
    <2>5. y = WritePacket(z, pk)
      BY <1>3, <2>1, <2>4 DEF ProtoFinish
    <2>6. pk.type = "dropped" /\ pk.seq = ProcessSequenceId(Slot(p))
      BY <2>4 DEF Follows
    <2>7. PICK out : out = Append(z.out, pk)
      OBVIOUS
    <2>8. Shaped(p, y, z.emitted, z.sequences, z.templates, out) /\ IsSequence(out)
      <3>1. Shaped(p, z, z.emitted, z.sequences, z.templates, z.out) /\ IsSequence(z.out)
        BY <2>3 DEF Follows, Shaped
      <3>2. QED
        BY <2>5, <2>7, <3>1, PacketShaped, SeqAppend
    <2>9. y.out = out
      BY <2>8 DEF Shaped
    <2>10. rz = ReadPacket(rz, Pid(p), pk)
      <3>1. PICK rr : rr = ReadPacket(rz, Pid(p), pk)
        OBVIOUS
      <3>2. Took(rz, Pid(p), pk, rr)
        BY <2>3, <3>1, PacketDoes DEF Follows
      <3>3. QED
        BY <2>6, <3>1, <3>2 DEF Took, Described, Renames, Counts
    <2>11. Belongs("protobuf", p, pk)
      BY <2>6, IdsInSlot DEF Belongs
    <2>12. Writes(p, z, rz, y, rz)
      BY <2>7, <2>9, <2>10, <2>11 DEF Writes
    <2>13. Told(p, r, y, rz)
      BY <2>3, <2>12, ToldOn
    <2>14. Follows(p, y, rz)
      <3>1. Knows(z, rz, rz)
        <4>1. \A u \in DOMAIN z.sequences : z.sequences[u].id \in DOMAIN rz.at /\ z.sequences[u].id \in DOMAIN rz.names
          BY <2>3 DEF Follows, Tells
        <4>2. QED
          BY <4>1 DEF Knows
      <3>2. IsReader("protobuf", rz)
        BY <2>3 DEF Follows
      <3>3. QED
        BY <2>3, <2>8, <3>1, <3>2, FollowsAside
    <2>15. QED
      BY <2>3, <2>13, <2>14, ToldHands
  <1>4. QED
    BY <1>2, <1>3

LEMMA NewProtoFollows ==
  ASSUME NEW p, NEW r, IsReader("protobuf", r)
  PROVE  Follows(p, NewProto(Slot(p), Pid(p)), r)
  <1>1. PICK x, nothing : x = NewProto(Slot(p), Pid(p)) /\ nothing = <<>>
    OBVIOUS
  <1>2. DOMAIN nothing = {} /\ IsSequence(nothing)
    BY <1>1, SeqEmpty
  <1>3. /\ x = [slot |-> Slot(p), pid |-> Pid(p), emitted |-> x.emitted, sequences |-> x.sequences,
                templates |-> x.templates, out |-> x.out]
        /\ x.sequences = nothing /\ x.templates = nothing /\ x.out = nothing
    BY <1>1 DEF NewProto
  <1>4. IsFiniteSet(DOMAIN x.sequences)
    BY <1>2, <1>3, FS_EmptySet
  <1>5. Keyed(x)
    BY <1>2, <1>3 DEF Keyed
  <1>6. Follows(p, x, r)
    BY <1>2, <1>3, <1>4, <1>5 DEF Follows
  <1>7. QED
    BY <1>1, <1>6

LEMMA JsonOpenHands ==
  ASSUME NEW p, NEW append, NEW r, IsReader("json", r), NEW y, y = NewJson(Pid(p), append)
  PROVE  Hands("json", p, r, y, <<>>)
  <1>1. PICK f, out : f = "json" /\ out = y.out
    OBVIOUS
  <1>2. y = [pid |-> Pid(p), out |-> out] /\ out = IF append THEN <<>> ELSE <<[type |-> "head"]>>
    BY <1>1 DEF NewJson
  <1>3. IsSequence(out) /\ \A i \in DOMAIN out : out[i].type = "head"
    <2>1. CASE append
      BY <1>2, <2>1, SeqEmpty
    <2>2. CASE ~append
      <3>1. PICK e : e = [type |-> "head"]
        OBVIOUS
      <3>2. out = <<e>> /\ e.type = "head"
        BY <1>2, <2>2, <3>1
      <3>3. IsSequence(out) /\ Len(out) = 1 /\ out[1] = e
        BY <3>2, SeqOne
      <3>4. DOMAIN out = {1}
        BY <3>3, SeqFacts
      <3>5. QED
        BY <3>2, <3>3, <3>4
    <2>3. QED
      BY <2>1, <2>2
  <1>4. BelongAll(f, p, out) /\ Unread(f, p, r, out)
    BY <1>1, <1>3 DEF BelongAll, Belongs, Unread, ReadOwn, ReadObject
  <1>5. Tracks(f, p, [y EXCEPT !.out = <<>>], r)
    <2>1. PICK z : z = [y EXCEPT !.out = <<>>]
      OBVIOUS
    <2>2. z = [pid |-> Pid(p), out |-> <<>>]
      BY <1>2, <2>1
    <2>3. QED
      BY <1>1, <2>1, <2>2 DEF Tracks
  <1>6. Hands(f, p, r, y, <<>>)
    BY <1>1, <1>3, <1>4, <1>5, UnreadHands
  <1>7. QED
    BY <1>1, <1>6

LEMMA JsonHands ==
  ASSUME NEW p \in Procs, format = "json", NEW x, NEW r, Tracks("json", p, x, r), x.out = <<>>, Room,
         NEW events, IsSequence(events), NEW y, y = JsonWriteBatch(x, events)
  PROVE  Hands("json", p, r, y, Seens(p, events))
  <1>1. PICK f : f = "json"
    OBVIOUS
  <1>2. PICK entries : entries = [i \in DOMAIN events |-> JsonEvent(x, events[i])]
    OBVIOUS
  <1>3. entries = [i \in DOMAIN events |-> entries[i]] /\ \A i \in DOMAIN events : entries[i] = JsonEvent(x, events[i])
    BY <1>2
  <1>4. IsSequence(entries) /\ Len(entries) = Len(events) /\ DOMAIN events = 1 .. Len(events)
    BY <1>3, SeqLike, SeqFacts
  <1>5. ConveysAll(f, x, events, entries)
    BY <1>1, <1>3, <1>4 DEF ConveysAll, Conveys
  <1>6. x = [pid |-> Pid(p), out |-> x.out]
    BY DEF Tracks
  <1>7. y = [pid |-> Pid(p), out |-> entries]
    <2>1. y = [x EXCEPT !.out = @ \o entries]
      BY <1>2 DEF JsonWriteBatch
    <2>2. PICK out : out = x.out \o entries
      OBVIOUS
    <2>3. out = entries
      <3>1. PICK S : entries \in Seq(S)
        BY <1>4 DEF IsSequence
      <3>2. QED
        BY <2>2, <3>1, ConcatEmptySeq
    <2>4. y = [x EXCEPT !.out = out]
      BY <2>1, <2>2
    <2>5. QED
      BY <1>6, <2>3, <2>4
  <1>8. PICK rr : rr = ReadOn(f, p, r, entries)
    OBVIOUS
  <1>9. BelongAll(f, p, entries) /\ Tracks(f, p, x, rr) /\ Joins(Shown(f, rr), Shown(f, r), Seens(p, events))
    <2>1. f \in {"protobuf", "json"} /\ f = format /\ Tracks(f, p, x, r)
      BY <1>1
    <2>2. QED
      BY <1>5, <1>8, <2>1, EntriesSeen
  <1>10. Tracks(f, p, [y EXCEPT !.out = <<>>], rr)
    <2>1. PICK z : z = [y EXCEPT !.out = <<>>]
      OBVIOUS
    <2>2. z = [pid |-> Pid(p), out |-> <<>>]
      BY <1>7, <2>1
    <2>3. QED
      BY <1>1, <1>9, <2>1, <2>2 DEF Tracks
  <1>11. y.out = entries
    BY <1>7
  <1>12. Hands(f, p, r, y, Seens(p, events))
    BY <1>4, <1>8, <1>9, <1>10, <1>11 DEF Hands
  <1>13. QED
    BY <1>1, <1>12

LEMMA JsonEndHands ==
  ASSUME NEW p, NEW x, NEW r, Tracks("json", p, x, r), x.out = <<>>, NEW names, IsFiniteSet(names), NEW dropped,
         NEW y, y = JsonFinish(x, names, dropped)
  PROVE  Hands("json", p, r, y, <<>>)
  <1>1. PICK f, out : f = "json" /\ out = y.out
    OBVIOUS
  <1>2. x = [pid |-> Pid(p), out |-> x.out] /\ Buffers(x)
    BY SeqEmpty DEF Tracks, Buffers
  <1>3. IsSequence(out) /\ \A i \in DOMAIN out : out[i].type \in {"thread_name", "dropped"}
    <2>1. /\ Buffers(y)
          /\ \A i \in DOMAIN y.out : y.out[i].type \in {"thread_name", "dropped"}
      BY <1>2, JsonFinishBuffered
    <2>2. QED
      BY <1>1, <2>1 DEF Buffers
  <1>4. BelongAll(f, p, out) /\ Unread(f, p, r, out)
    BY <1>1, <1>3 DEF BelongAll, Belongs, Unread, ReadOwn, ReadObject
  <1>5. Tracks(f, p, [y EXCEPT !.out = <<>>], r)
    <2>1. PICK z : z = [y EXCEPT !.out = <<>>]
      OBVIOUS
    <2>2. PICK some : y = [x EXCEPT !.out = some]
      BY DEF JsonFinish
    <2>3. z = [pid |-> Pid(p), out |-> <<>>]
      <3>1. y = [pid |-> Pid(p), out |-> some]
        BY <1>2, <2>2
      <3>2. QED
        BY <2>1, <3>1
    <2>4. QED
      BY <1>1, <2>1, <2>3 DEF Tracks
  <1>6. IsReader(f, r)
    BY <1>1 DEF Tracks
  <1>7. Hands(f, p, r, y, <<>>)
    BY <1>1, <1>3, <1>4, <1>5, <1>6, UnreadHands
  <1>8. QED
    BY <1>1, <1>7

---------------------------------------------------------------------------
(* What stands in a file, is pending and was given, as a reader sees it.    *)

LEMMA SameSequence ==
  ASSUME NEW s, IsSequence(s), NEW t, IsSequence(t), Len(s) = Len(t), \A i \in 1 .. Len(s) : s[i] = t[i]
  PROVE  s = t
  <1>1. DOMAIN s = 1 .. Len(s) /\ DOMAIN t = 1 .. Len(t) /\ s = [i \in DOMAIN s |-> s[i]] /\ t = [i \in DOMAIN t |-> t[i]]
    BY SeqFacts
  <1>2. QED
    BY <1>1

\* Seen and SeenOf, whatever the format is.
SeenBy(f, p, ev) ==
    [pid |-> Pid(p), tid |-> ev.tid, opens |-> OpensSlice(KindOf(ev.word)), ts |-> ev.ts,
     code |-> IF f = "json" \/ OpensSlice(KindOf(ev.word)) THEN CodeIdOf(ev.word) ELSE 0]

SeensBy(f, p, events) == [i \in DOMAIN events |-> SeenBy(f, p, events[i])]

SeenAll(f, p, some) == SeensBy(f, p, FlattenSeq(some))

LEMMA SeenIsBy ==
  ASSUME NEW f, f = format, NEW p
  PROVE  /\ \A events : Seens(p, events) = SeensBy(f, p, events)
         /\ \A some : SeenOf(p, some) = SeenAll(f, p, some)
  BY DEF Seens, SeensBy, Seen, SeenBy, SeenOf, SeenAll

LEMMA SeensByListed ==
  ASSUME NEW f, NEW p, NEW events, IsSequence(events)
  PROVE  /\ IsSequence(SeensBy(f, p, events)) /\ Len(SeensBy(f, p, events)) = Len(events)
         /\ \A i \in 1 .. Len(events) : SeensBy(f, p, events)[i] = SeenBy(f, p, events[i])
  <1>1. PICK seen : seen = SeensBy(f, p, events)
    OBVIOUS
  <1>2. seen = [i \in DOMAIN events |-> SeenBy(f, p, events[i])]
    BY <1>1 DEF SeensBy
  <1>3. seen = [i \in DOMAIN events |-> seen[i]]
    BY <1>2
  <1>4. IsSequence(seen) /\ Len(seen) = Len(events) /\ DOMAIN events = 1 .. Len(events)
    BY <1>3, SeqLike, SeqFacts
  <1>5. QED
    BY <1>1, <1>2, <1>4

\* A sequence of sequences.
Twofold(some) == IsSequence(some) /\ \A i \in DOMAIN some : IsSequence(some[i])

LEMMA TwofoldIn ==
  ASSUME NEW some, Twofold(some), NEW events, IsSequence(events)
  PROVE  \E S : some \in Seq(Seq(S)) /\ events \in Seq(S)
  <1> DEFINE S == UNION {{s[i] : i \in DOMAIN s} : s \in {some[i] : i \in DOMAIN some} \cup {events}}
  <1>1. ASSUME NEW s, IsSequence(s), s \in {some[i] : i \in DOMAIN some} \cup {events}
        PROVE  s \in Seq(S)
    <2>1. \A i \in DOMAIN s : s[i] \in S
      BY <1>1
    <2> HIDE DEF S
    <2>2. Len(s) \in Nat /\ DOMAIN s = 1 .. Len(s) /\ s = [i \in DOMAIN s |-> s[i]]
      BY <1>1, SeqFacts
    <2>3. s \in [1 .. Len(s) -> S]
      BY <2>1, <2>2
    <2>4. QED
      BY <2>2, <2>3
  <1>2. events \in Seq(S)
    BY <1>1
  <1>3. \A i \in DOMAIN some : some[i] \in Seq(S)
    BY <1>1 DEF Twofold
  <1> HIDE DEF S
  <1>4. Len(some) \in Nat /\ DOMAIN some = 1 .. Len(some) /\ some = [i \in DOMAIN some |-> some[i]]
    BY SeqFacts DEF Twofold
  <1>5. some \in [1 .. Len(some) -> Seq(S)]
    BY <1>3, <1>4
  <1>6. some \in Seq(Seq(S))
    BY <1>4, <1>5
  <1>7. QED
    BY <1>2, <1>6

LEMMA SeenAppended ==
  ASSUME NEW f, NEW p, NEW some, Twofold(some), NEW events, IsSequence(events)
  PROVE  /\ IsSequence(SeenAll(f, p, some))
         /\ Joins(SeenAll(f, p, Append(some, events)), SeenAll(f, p, some), SeensBy(f, p, events))
  <1>1. PICK S : some \in Seq(Seq(S)) /\ events \in Seq(S)
    BY TwofoldIn
  <1>2. PICK flat, both : flat = FlattenSeq(some) /\ both = FlattenSeq(Append(some, events))
    OBVIOUS
  <1>3. both = flat \o events /\ flat \in Seq(S)
    BY <1>1, <1>2, FlattenAppend
  <1>4. IsSequence(flat) /\ Joins(both, flat, events)
    BY <1>3, JoinsConcat DEF IsSequence
  <1>5. PICK s, t, u : s = SeensBy(f, p, both) /\ t = SeensBy(f, p, flat) /\ u = SeensBy(f, p, events)
    OBVIOUS
  <1>6. /\ IsSequence(both) /\ Len(both) = Len(flat) + Len(events) /\ Len(flat) \in Nat /\ Len(events) \in Nat
        /\ \A i \in 1 .. Len(flat) : both[i] = flat[i]
        /\ \A i \in 1 .. Len(events) : both[Len(flat) + i] = events[i]
    BY <1>4, SeqFacts DEF Joins
  <1>7. /\ IsSequence(s) /\ Len(s) = Len(both) /\ \A i \in 1 .. Len(both) : s[i] = SeenBy(f, p, both[i])
    BY <1>5, <1>6, SeensByListed
  <1>8. /\ IsSequence(t) /\ Len(t) = Len(flat) /\ \A i \in 1 .. Len(flat) : t[i] = SeenBy(f, p, flat[i])
    BY <1>4, <1>5, SeensByListed
  <1>9. /\ IsSequence(u) /\ Len(u) = Len(events) /\ \A i \in 1 .. Len(events) : u[i] = SeenBy(f, p, events[i])
    BY <1>5, SeensByListed
  <1>10. \A i \in 1 .. Len(t) : s[i] = t[i]
    <2>1. \A i \in 1 .. Len(t) : i \in 1 .. Len(both) /\ i \in 1 .. Len(flat)
      BY <1>6, <1>8
    <2>2. QED
      BY <1>6, <1>7, <1>8, <2>1
  <1>11. \A i \in 1 .. Len(u) : s[Len(t) + i] = u[i]
    <2>1. \A i \in 1 .. Len(u) : Len(flat) + i \in 1 .. Len(both) /\ i \in 1 .. Len(events)
      BY <1>6, <1>9
    <2>2. QED
      BY <1>6, <1>7, <1>8, <1>9, <2>1
  <1>12. Joins(s, t, u)
    BY <1>6, <1>7, <1>8, <1>9, <1>10, <1>11 DEF Joins
  <1>13. QED
    BY <1>2, <1>5, <1>8, <1>12 DEF SeenAll

LEMMA SeenNothing ==
  ASSUME NEW f, NEW p
  PROVE  SeenAll(f, p, <<>>) = <<>>
  <1>1. FlattenSeq(<<>>) = <<>>
    BY DEF FlattenSeq
  <1>2. PICK none : none = FlattenSeq(<<>>)
    OBVIOUS
  <1>3. IsSequence(none) /\ Len(none) = 0
    BY <1>1, <1>2, SeqEmpty
  <1>4. PICK seen : seen = SeensBy(f, p, none)
    OBVIOUS
  <1>5. IsSequence(seen) /\ Len(seen) = 0
    BY <1>3, <1>4, SeensByListed
  <1>6. seen = <<>>
    BY <1>5, SeqFacts
  <1>7. QED
    BY <1>2, <1>4, <1>6 DEF SeenAll

---------------------------------------------------------------------------
(* A reader of the file that goes on with what p has pending.               *)

Origin(f) == IF f = "json" THEN <<>> ELSE NewReader

Entries(items) == [i \in DOMAIN items |-> items[i].entry]

\* The second half of an entry adds nothing to the first.
Rest(items) == IF items # <<>> /\ items[1].part = "tail" THEN Tail(Entries(items)) ELSE Entries(items)

ReaderOf(f, p, items) == ReadOn(f, p, Origin(f), Entries(items))

LEMMA EntriesListed ==
  ASSUME NEW items, IsSequence(items)
  PROVE  /\ IsSequence(Entries(items)) /\ Len(Entries(items)) = Len(items) /\ DOMAIN Entries(items) = DOMAIN items
         /\ \A i \in DOMAIN items : Entries(items)[i] = items[i].entry
  <1>1. PICK entries : entries = Entries(items)
    OBVIOUS
  <1>2. entries = [i \in DOMAIN items |-> items[i].entry]
    BY <1>1 DEF Entries
  <1>3. entries = [i \in DOMAIN items |-> entries[i]]
    BY <1>2
  <1>4. IsSequence(entries) /\ Len(entries) = Len(items) /\ DOMAIN entries = DOMAIN items
    BY <1>3, SeqLike
  <1>5. QED
    BY <1>1, <1>2, <1>4

LEMMA OriginReads ==
  ASSUME NEW f \in {"protobuf", "json"}
  PROVE  IsReader(f, Origin(f)) /\ Shown(f, Origin(f)) = <<>>
  <1>1. PICK r : r = Origin(f)
    OBVIOUS
  <1>2. f # "json" => r = [names |-> <<>>, at |-> <<>>, events |-> <<>>]
    BY <1>1 DEF Origin, NewReader
  <1>3. f # "json" => r.names = <<>> /\ r.at = <<>> /\ r.events = <<>>
    BY <1>2
  <1>4. f = "json" => r = <<>>
    BY <1>1 DEF Origin
  <1>5. QED
    BY <1>1, <1>2, <1>3, <1>4, SeqEmpty DEF IsReader, Shown

LEMMA ReaderReads ==
  ASSUME NEW f \in {"protobuf", "json"}, NEW p, NEW items, IsSequence(items)
  PROVE  IsReader(f, ReaderOf(f, p, items)) /\ IsSequence(Shown(f, ReaderOf(f, p, items)))
  <1>1. PICK r, entries : r = Origin(f) /\ entries = Entries(items)
    OBVIOUS
  <1>2. IsReader(f, r) /\ IsSequence(entries)
    BY <1>1, OriginReads, EntriesListed
  <1>3. IsReader(f, ReadOn(f, p, r, entries))
    BY <1>2, OnRead
  <1>4. QED
    BY <1>1, <1>3 DEF ReaderOf, IsReader

\* The file shows the events that were given, if none of what p wrote is cut; it
\* never shows others; and with what is pending it shows all of them.
Settled(p, items) == \A i \in DOMAIN items : items[i].by = p => items[i].part = "whole"

Lasting(f, p, items, some, all) ==
    /\ Settled(p, items) => Shown(f, ReaderOf(f, p, items)) = SeenAll(f, p, some)
    /\ Starts(Shown(f, ReaderOf(f, p, items)), SeenAll(f, p, all))

Pends(f, p, r, more, x, all) ==
    /\ Tracks(f, p, x, ReadOn(f, p, r, Rest(more)))
    /\ Shown(f, ReadOn(f, p, r, Rest(more))) = SeenAll(f, p, all)

Recounts(f, p, items, more, x, some, under, at) ==
    /\ Lasting(f, p, items, some, some \o under)
    /\ at \in Working => Pends(f, p, ReaderOf(f, p, items), more, x, some \o under)
    /\ at = "idle" \/ (at = "commit" /\ more = <<>>) => under = <<>>

\* Steps that add nothing.
LEMMA RecountsAside ==
  ASSUME NEW f, NEW p, NEW items, NEW more, NEW x, NEW some, NEW under, NEW at, NEW next, NEW to,
         Recounts(f, p, items, more, x, some, under, at),
         \/ to \notin Working
         \/ /\ next = more /\ at \in Working
            /\ to = "idle" => at = "commit" /\ more = <<>>
            /\ to = "commit" => at = "commit"
  PROVE  Recounts(f, p, items, next, x, some, under, to)
  BY DEF Recounts, Working

\* Another process adds to the file.
LEMMA RecountsOther ==
  ASSUME NEW f \in {"protobuf", "json"}, NEW p \in Procs, NEW items, IsSequence(items), NEW new, NEW es,
         Joins(Entries(new), Entries(items), es), Foreign(f, p, es),
         \A i \in DOMAIN items : items[i].by = p => i \in DOMAIN new /\ new[i] = items[i],
         NEW more, NEW x, NEW some, NEW under, NEW at, Recounts(f, p, items, more, x, some, under, at)
  PROVE  Recounts(f, p, new, more, x, some, under, at)
  <1>1. PICK r, o, s, both : r = ReaderOf(f, p, items) /\ o = Origin(f) /\ s = Entries(items) /\ both = Entries(new)
    OBVIOUS
  <1>2. Joins(both, s, es) /\ IsSequence(es)
    BY <1>1 DEF Joins
  <1>3. ReadOn(f, p, o, both) = ReadOn(f, p, ReadOn(f, p, o, s), es)
    BY <1>2, ReadOnJoined
  <1>4. ReadOn(f, p, o, s) = r
    BY <1>1 DEF ReaderOf
  <1>5. ReadOn(f, p, r, es) = r
    BY <1>2, ForeignPassed
  <1>6. ReaderOf(f, p, new) = ReaderOf(f, p, items)
    BY <1>1, <1>3, <1>4, <1>5 DEF ReaderOf
  <1>7. Settled(p, new) => Settled(p, items)
    BY DEF Settled
  <1>8. QED
    BY <1>6, <1>7 DEF Recounts, Lasting

LEMMA ConcatNothing == ASSUME NEW s, IsSequence(s) PROVE s \o <<>> = s
  <1>1. PICK none, both : none = <<>> /\ both = s \o none
    OBVIOUS
  <1>2. IsSequence(none) /\ Len(none) = 0 /\ Len(s) \in Nat
    BY <1>1, SeqEmpty, SeqFacts
  <1>3. IsSequence(both) /\ Len(both) = Len(s) /\ \A i \in 1 .. Len(both) : both[i] = s[i]
    BY <1>1, <1>2, SeqConcat
  <1>4. both = s
    BY <1>3, SameSequence
  <1>5. QED
    BY <1>1, <1>4

LEMMA ConcatOne == ASSUME NEW s, IsSequence(s), NEW e PROVE s \o <<e>> = Append(s, e)
  <1>1. PICK t, u : t = s \o <<e>> /\ u = Append(s, e)
    OBVIOUS
  <1>2. IsSequence(t) /\ Len(t) = Len(s) + 1 /\ t[Len(s) + 1] = e /\ \A i \in 1 .. Len(s) : t[i] = s[i]
    BY <1>1, SeqPush
  <1>3. IsSequence(u) /\ Len(u) = Len(s) + 1 /\ u[Len(s) + 1] = e /\ \A i \in 1 .. Len(s) : u[i] = s[i]
    BY <1>1, SeqAppend
  <1>4. Len(s) \in Nat
    BY SeqFacts
  <1>5. ASSUME NEW i \in 1 .. Len(t) PROVE t[i] = u[i]
    <2>1. i \in 1 .. Len(s) \/ i = Len(s) + 1
      BY <1>2, <1>4
    <2>2. QED
      BY <1>2, <1>3, <2>1
  <1>6. t = u
    BY <1>2, <1>3, <1>5, SameSequence
  <1>7. QED
    BY <1>1, <1>6

LEMMA JoinsSame ==
  ASSUME NEW t, NEW u, NEW s, NEW more, Joins(t, s, more), Joins(u, s, more)
  PROVE  t = u
  <1>1. IsSequence(t) /\ IsSequence(u) /\ Len(t) = Len(s) + Len(more) /\ Len(u) = Len(t) /\ Len(s) \in Nat /\ Len(more) \in Nat
    BY SeqFacts DEF Joins
  <1>2. ASSUME NEW i \in 1 .. Len(t) PROVE t[i] = u[i]
    <2>1. CASE i <= Len(s)
      <3>1. i \in 1 .. Len(s)
        BY <1>1, <2>1
      <3>2. QED
        BY <3>1 DEF Joins
    <2>2. CASE i > Len(s)
      <3>1. PICK j \in 1 .. Len(more) : i = Len(s) + j
        <4>1. i - Len(s) \in 1 .. Len(more) /\ i = Len(s) + (i - Len(s))
          BY <1>1, <2>2
        <4>2. QED
          BY <4>1
      <3>2. QED
        BY <3>1 DEF Joins
    <2>3. QED
      BY <1>1, <2>1, <2>2
  <1>3. QED
    BY <1>1, <1>2, SameSequence

LEMMA JoinsStarts ==
  ASSUME NEW t, NEW s, NEW more, Joins(t, s, more)
  PROVE  Starts(s, t)
  <1>1. Len(s) \in Nat /\ Len(more) \in Nat
    BY SeqFacts DEF Joins
  <1>2. QED
    BY <1>1 DEF Joins, Starts

LEMMA RestOfItems ==
  ASSUME NEW p, NEW entries, IsSequence(entries)
  PROVE  Rest(Items(p, entries)) = entries
  <1>1. PICK items : items = Items(p, entries)
    OBVIOUS
  <1>2. /\ IsSequence(items) /\ Len(items) = Len(entries) /\ DOMAIN items = DOMAIN entries
        /\ \A i \in DOMAIN items : items[i].part = "whole" /\ items[i].entry = entries[i]
    BY <1>1, ItemsListed
  <1>3. PICK es : es = Entries(items)
    OBVIOUS
  <1>4. /\ IsSequence(es) /\ Len(es) = Len(items) /\ \A i \in DOMAIN items : es[i] = items[i].entry
    BY <1>2, <1>3, EntriesListed
  <1>5. DOMAIN entries = 1 .. Len(entries)
    BY SeqFacts
  <1>6. es = entries
    BY <1>2, <1>4, <1>5, SameSequence
  <1>7. items # <<>> => items[1].part = "whole"
    <2>1. items # <<>> => 1 \in DOMAIN items
      BY <1>2, SeqTail
    <2>2. QED
      BY <1>2, <2>1
  <1>8. Rest(items) = es
    BY <1>3, <1>7 DEF Rest
  <1>9. QED
    BY <1>1, <1>6, <1>8

LEMMA RestOfNothing == Rest(<<>>) = <<>>
  <1>1. PICK none, es : none = <<>> /\ es = Entries(none)
    OBVIOUS
  <1>2. IsSequence(none) /\ Len(none) = 0
    BY <1>1, SeqEmpty
  <1>3. IsSequence(es) /\ Len(es) = 0
    BY <1>1, <1>2, EntriesListed
  <1>4. es = <<>>
    BY <1>3, SeqFacts
  <1>5. QED
    BY <1>1, <1>4 DEF Rest

\* The exporter has handed over what it makes of more.
LEMMA HandsPends ==
  ASSUME NEW f, NEW p, NEW r, NEW y, NEW more, Hands(f, p, r, y, more), NEW some, NEW all,
         Shown(f, r) = SeenAll(f, p, some), Joins(SeenAll(f, p, all), SeenAll(f, p, some), more)
  PROVE  Pends(f, p, r, Items(p, y.out), [y EXCEPT !.out = <<>>], all)
  <1>1. PICK x, entries, shown : x = [y EXCEPT !.out = <<>>] /\ entries = y.out /\ shown = Shown(f, r)
    OBVIOUS
  <1>2. /\ IsSequence(entries) /\ Tracks(f, p, x, ReadOn(f, p, r, entries))
        /\ Joins(Shown(f, ReadOn(f, p, r, entries)), shown, more)
    BY <1>1 DEF Hands
  <1>3. Rest(Items(p, entries)) = entries
    BY <1>2, RestOfItems
  <1>4. Joins(SeenAll(f, p, all), shown, more)
    BY <1>1
  <1>5. Shown(f, ReadOn(f, p, r, entries)) = SeenAll(f, p, all)
    BY <1>2, <1>4, JoinsSame
  <1>6. QED
    BY <1>1, <1>2, <1>3, <1>5 DEF Pends

Idles(f, p, items, x, some, under) ==
    /\ under = <<>> /\ Tracks(f, p, x, ReaderOf(f, p, items))
    /\ Shown(f, ReaderOf(f, p, items)) = SeenAll(f, p, some)

LEMMA IdleTracks ==
  ASSUME NEW f, NEW p, NEW items, NEW x, NEW some, Twofold(some), NEW under,
         NEW more, more = <<>>, NEW at, at = "idle", Recounts(f, p, items, more, x, some, under, at)
  PROVE  Idles(f, p, items, x, some, under)
  <1>1. under = <<>> /\ Pends(f, p, ReaderOf(f, p, items), <<>>, x, some \o under)
    BY DEF Recounts, Working
  <1>2. some \o under = some
    BY <1>1, ConcatNothing DEF Twofold
  <1>3. PICK r : r = ReaderOf(f, p, items)
    OBVIOUS
  <1>4. ReadOn(f, p, r, <<>>) = r
    BY ReadOnNothing
  <1>5. QED
    BY <1>1, <1>2, <1>3, <1>4, RestOfNothing DEF Pends, Idles

LEMMA EndRecounts ==
  ASSUME NEW f \in {"protobuf", "json"}, NEW p, NEW items, IsSequence(items), NEW some, Twofold(some),
         Shown(f, ReaderOf(f, p, items)) = SeenAll(f, p, some),
         NEW y, Hands(f, p, ReaderOf(f, p, items), y, <<>>), NEW to
  PROVE  Recounts(f, p, items, Items(p, y.out), [y EXCEPT !.out = <<>>], some, <<>>, to)
  <1>1. PICK r, seen, none : r = ReaderOf(f, p, items) /\ seen = SeenAll(f, p, some) /\ none = <<>>
    OBVIOUS
  <1>2. some \o none = some
    BY <1>1, ConcatNothing DEF Twofold
  <1>3. IsSequence(seen) /\ Shown(f, r) = seen
    BY <1>1, ReaderReads
  <1>4. Joins(seen, seen, none)
    BY <1>1, <1>3, JoinsNothing
  <1>5. Pends(f, p, r, Items(p, y.out), [y EXCEPT !.out = <<>>], some)
    BY <1>1, <1>3, <1>4, HandsPends
  <1>6. Starts(seen, seen)
    BY <1>3, StartsItself
  <1>7. Lasting(f, p, items, some, some)
    BY <1>1, <1>3, <1>6 DEF Lasting
  <1>8. QED
    BY <1>1, <1>2, <1>5, <1>7 DEF Recounts

LEMMA BatchRecounts ==
  ASSUME NEW f \in {"protobuf", "json"}, NEW p, NEW items, IsSequence(items), NEW some, Twofold(some),
         Shown(f, ReaderOf(f, p, items)) = SeenAll(f, p, some), NEW events, IsSequence(events),
         NEW y, Hands(f, p, ReaderOf(f, p, items), y, SeensBy(f, p, events))
  PROVE  /\ y.out = <<>> => Recounts(f, p, items, Items(p, y.out), [y EXCEPT !.out = <<>>], Append(some, events), <<>>, "idle")
         /\ y.out # <<>> => Recounts(f, p, items, Items(p, y.out), [y EXCEPT !.out = <<>>], some, <<events>>, "commit")
  <1>1. PICK r, seen, none, all, next : /\ r = ReaderOf(f, p, items) /\ seen = SeenAll(f, p, some) /\ none = <<>>
                                  /\ all = Append(some, events) /\ next = SeenAll(f, p, all)
    OBVIOUS
  <1>2. some \o <<events>> = all /\ all \o none = all
    <2>1. IsSequence(some) /\ IsSequence(all)
      BY <1>1, SeqAppend DEF Twofold
    <2>2. QED
      BY <1>1, <2>1, ConcatOne, ConcatNothing
  <1>3. Joins(next, seen, SeensBy(f, p, events)) /\ Shown(f, r) = seen
    BY <1>1, SeenAppended
  <1>4. Pends(f, p, r, Items(p, y.out), [y EXCEPT !.out = <<>>], all)
    BY <1>1, <1>3, HandsPends
  <1>5. Starts(seen, next)
    BY <1>3, JoinsStarts
  <1>6. ASSUME y.out = <<>>
        PROVE  Recounts(f, p, items, Items(p, y.out), [y EXCEPT !.out = <<>>], all, none, "idle")
    <2>1. PICK out : out = y.out
      OBVIOUS
    <2>2. Rest(Items(p, out)) = out /\ ReadOn(f, p, r, out) = r
      BY <1>1, <1>6, <2>1, RestOfItems, ReadOnNothing, SeqEmpty
    <2>3. next = seen
      BY <1>1, <1>3, <1>4, <2>1, <2>2 DEF Pends
    <2>4. Lasting(f, p, items, all, all)
      BY <1>1, <1>3, <1>5, <2>3 DEF Lasting
    <2>5. QED
      BY <1>1, <1>2, <1>4, <2>4 DEF Recounts
  <1>7. ASSUME y.out # <<>>
        PROVE  Recounts(f, p, items, Items(p, y.out), [y EXCEPT !.out = <<>>], some, <<events>>, "commit")
    <2>1. Items(p, y.out) # <<>>
      <3>1. PICK more, out : more = Items(p, out) /\ out = y.out
        OBVIOUS
      <3>2. IsSequence(out)
        BY <3>1 DEF Hands
      <3>3. IsSequence(more) /\ Len(more) = Len(out)
        BY <3>1, <3>2, ItemsListed
      <3>4. more # <<>>
        BY <1>7, <3>1, <3>2, <3>3, SeqFacts
      <3>5. QED
        BY <3>1, <3>4
    <2>2. Lasting(f, p, items, some, all)
      BY <1>1, <1>3, <1>5 DEF Lasting
    <2>3. QED
      BY <1>1, <1>2, <1>4, <2>1, <2>2 DEF Recounts
  <1>8. QED
    BY <1>1, <1>6, <1>7

\* p adds to the file, and is then still at it, or done.
LEMMA GrownReader ==
  ASSUME NEW f, NEW p, NEW items, NEW new, NEW es, Joins(Entries(new), Entries(items), es)
  PROVE  ReaderOf(f, p, new) = ReadOn(f, p, ReaderOf(f, p, items), es)
  <1>1. PICK o, s, both : o = Origin(f) /\ s = Entries(items) /\ both = Entries(new)
    OBVIOUS
  <1>2. ReadOn(f, p, o, both) = ReadOn(f, p, ReadOn(f, p, o, s), es)
    BY <1>1, ReadOnJoined
  <1>3. QED
    BY <1>1, <1>2 DEF ReaderOf

LEMMA PartRecounts ==
  ASSUME NEW f \in {"protobuf", "json"}, NEW p, NEW items, IsSequence(items), NEW new, NEW es,
         Joins(Entries(new), Entries(items), es), ~Settled(p, new), NEW more, NEW next, Joins(Rest(more), es, Rest(next)),
         NEW x, NEW some, NEW under, Recounts(f, p, items, more, x, some, under, "write")
  PROVE  Recounts(f, p, new, next, x, some, under, "write")
  <1>1. PICK r, rr, s, t, u, all : /\ r = ReaderOf(f, p, items) /\ rr = ReaderOf(f, p, new) /\ s = Rest(more) /\ t = Rest(next)
                                   /\ all = some \o under /\ u = ReadOn(f, p, rr, t)
    OBVIOUS
  <1>2. rr = ReadOn(f, p, r, es) /\ ReadOn(f, p, r, s) = ReadOn(f, p, ReadOn(f, p, r, es), t)
    BY <1>1, GrownReader, ReadOnJoined
  <1>3. Pends(f, p, r, more, x, all)
    BY <1>1 DEF Recounts, Working
  <1>4. Pends(f, p, rr, next, x, all) /\ Shown(f, u) = SeenAll(f, p, all)
    BY <1>1, <1>2, <1>3 DEF Pends
  <1>5. Starts(Shown(f, rr), Shown(f, u))
    <2>1. IsReader(f, r) /\ IsSequence(es) /\ IsSequence(t)
      BY <1>1, ReaderReads DEF Joins
    <2>2. IsReader(f, rr)
      BY <1>2, <2>1, OnRead
    <2>3. QED
      BY <1>1, <2>1, <2>2, OnRead
  <1>6. Lasting(f, p, new, some, all)
    BY <1>1, <1>4, <1>5 DEF Lasting
  <1>7. QED
    BY <1>1, <1>4, <1>6 DEF Recounts

LEMMA RestRecounts ==
  ASSUME NEW f \in {"protobuf", "json"}, NEW p, NEW items, IsSequence(items), NEW new, NEW more,
         Joins(Entries(new), Entries(items), Rest(more)), NEW x, NEW some, NEW under, IsSequence(some), IsSequence(under),
         Recounts(f, p, items, more, x, some, under, "write"), NEW to
  PROVE  Recounts(f, p, new, <<>>, x, some \o under, <<>>, to)
  <1>1. PICK r, rr, s, all, none : /\ r = ReaderOf(f, p, items) /\ rr = ReaderOf(f, p, new) /\ s = Rest(more)
                             /\ all = some \o under /\ none = <<>>
    OBVIOUS
  <1>2. rr = ReadOn(f, p, r, s)
    BY <1>1, GrownReader
  <1>3. Tracks(f, p, x, rr) /\ Shown(f, rr) = SeenAll(f, p, all)
    BY <1>1, <1>2 DEF Recounts, Working, Pends
  <1>4. Rest(none) = none /\ ReadOn(f, p, rr, none) = rr
    BY <1>1, RestOfNothing, ReadOnNothing
  <1>5. Pends(f, p, rr, none, x, all)
    BY <1>3, <1>4 DEF Pends
  <1>6. IsSequence(Shown(f, rr)) /\ Starts(Shown(f, rr), Shown(f, rr))
    <2>1. IsReader(f, rr)
      BY <1>3 DEF Tracks
    <2>2. QED
      BY <2>1, StartsItself DEF IsReader
  <1>7. Lasting(f, p, new, all, all)
    BY <1>1, <1>3, <1>6 DEF Lasting
  <1>8. all \o none = all
    BY <1>1, SeqConcat, ConcatNothing
  <1>9. QED
    BY <1>1, <1>5, <1>7, <1>8 DEF Recounts

---------------------------------------------------------------------------
(* What processes have written and given, whatever step they take.          *)

Marks(f, items) == \A i \in DOMAIN items : Belongs(f, items[i].by, items[i].entry)

Retold ==
    format # "pprof" /\ ~unsettled =>
        /\ Marks(format, file[Root])
        /\ \A p \in Procs :
             /\ Marks(format, pending[p])
             /\ Recounts(format, p, file[Root], pending[p], exporter[p], given[p], batch[p], pc[p])

LEMMA RetoldAside ==
  ASSUME Retold, NEW p \in Procs,
         file' = file, exporter' = exporter, given' = given, batch' = batch, format' = format,
         ~unsettled' => ~unsettled,
         \A q \in Procs \ {p} : pc'[q] = pc[q] /\ pending'[q] = pending[q],
         \/ pc'[p] \notin Working /\ (pending'[p] = pending[p] \/ pending'[p] = <<>>)
         \/ /\ pending'[p] = pending[p] /\ pc[p] \in Working
            /\ pc'[p] = "idle" => pc[p] = "commit" /\ pending[p] = <<>>
            /\ pc'[p] = "commit" => pc[p] = "commit"
  PROVE  Retold'
  <1> SUFFICES ASSUME format' # "pprof", ~unsettled' PROVE Retold'
    BY DEF Retold
  <1>1. /\ Marks(format, file[Root])
        /\ \A q \in Procs : /\ Marks(format, pending[q])
                            /\ Recounts(format, q, file[Root], pending[q], exporter[q], given[q], batch[q], pc[q])
    BY DEF Retold
  <1>2. Marks(format, <<>>)
    BY DEF Marks
  <1>3. Marks(format', pending'[p]) /\ Recounts(format', p, file'[Root], pending'[p], exporter'[p], given'[p], batch'[p], pc'[p])
    <2>1. Marks(format, pending'[p])
      BY <1>1, <1>2
    <2>2. Recounts(format, p, file[Root], pending'[p], exporter[p], given[p], batch[p], pc'[p])
      <3>1. PICK f, items, more, x, some, under, at :
              /\ f = format /\ items = file[Root] /\ more = pending[p] /\ x = exporter[p] /\ some = given[p]
              /\ under = batch[p] /\ at = pc[p]
        OBVIOUS
      <3>2. Recounts(f, p, items, more, x, some, under, at)
        BY <1>1, <3>1
      <3>3. PICK next, to : next = pending'[p] /\ to = pc'[p]
        OBVIOUS
      <3>4. \/ to \notin Working
            \/ /\ next = more /\ at \in Working
               /\ to = "idle" => at = "commit" /\ more = <<>>
               /\ to = "commit" => at = "commit"
        BY <3>1, <3>3
      <3>5. Recounts(f, p, items, next, x, some, under, to)
        BY <3>2, <3>4, RecountsAside
      <3>6. QED
        BY <3>1, <3>3, <3>5
    <2>3. QED
      BY <2>1, <2>2
  <1>4. ASSUME NEW q \in Procs, q # p
        PROVE  Marks(format', pending'[q]) /\ Recounts(format', q, file'[Root], pending'[q], exporter'[q], given'[q], batch'[q], pc'[q])
    BY <1>1, <1>4
  <1>5. Marks(format', file'[Root])
    BY <1>1
  <1>6. \A q \in Procs :
          Marks(format', pending'[q]) /\ Recounts(format', q, file'[Root], pending'[q], exporter'[q], given'[q], batch'[q], pc'[q])
    BY <1>3, <1>4
  <1>7. QED
    BY <1>5, <1>6 DEF Retold

LEMMA AsideRetold ==
  ASSUME IInv, Retold,
         \/ Advertise \/ \E c \in Kids, forked \in BOOLEAN : Launch(c, forked)
         \/ \E p \in Procs : CommitNothing(p) \/ Acquire(p) \/ AcquireFails(p) \/ WriteFails(p) \/ Kill(p)
  PROVE  Retold'
  <1>1. Root \in Procs /\ Kids \subseteq Procs /\ DOMAIN pc = Procs /\ DOMAIN pending = Procs
    BY DEF Procs, IInv, Shape
  <1>2. CASE Advertise
    <2>1. /\ file' = file /\ exporter' = exporter /\ given' = given /\ batch' = batch /\ format' = format
          /\ unsettled' = unsettled /\ pending' = pending
          /\ pc'[Root] = "start" /\ \A q \in Procs \ {Root} : pc'[q] = pc[q]
      BY <1>1, <1>2 DEF Advertise
    <2>2. QED
      BY <1>1, <2>1, RetoldAside DEF Working
  <1>3. ASSUME NEW c \in Kids, NEW forked \in BOOLEAN, Launch(c, forked) PROVE Retold'
    <2>1. /\ file' = file /\ exporter' = exporter /\ given' = given /\ batch' = batch /\ format' = format
          /\ pending' = pending /\ pc'[c] = "start" /\ c \in Procs
          /\ \A q \in Procs \ {c} : pc'[q] = pc[q]
      BY <1>1, <1>3 DEF Launch
    <2>2. ~unsettled' => ~unsettled
      BY <1>3, Zenon DEF Launch
    <2>3. QED
      BY <2>1, <2>2, RetoldAside DEF Working
  <1>4. ASSUME NEW p \in Procs, CommitNothing(p) PROVE Retold'
    <2>1. /\ file' = file /\ exporter' = exporter /\ given' = given /\ batch' = batch /\ format' = format
          /\ unsettled' = unsettled /\ pending' = pending /\ pending[p] = <<>>
          /\ pc[p] = "commit" /\ pc'[p] \in {"idle", "closed", "failed"}
          /\ \A q \in Procs \ {p} : pc'[q] = pc[q]
      BY <1>4 DEF CommitNothing, Done, IInv, Shape
    <2>2. QED
      BY <2>1, RetoldAside DEF Working
  <1>5. ASSUME NEW p \in Procs, Acquire(p) PROVE Retold'
    <2>1. /\ file' = file /\ exporter' = exporter /\ given' = given /\ batch' = batch /\ format' = format
          /\ unsettled' = unsettled /\ pending' = pending /\ pending[p] # <<>>
          /\ pc[p] = "commit" /\ pc'[p] = "write"
          /\ \A q \in Procs \ {p} : pc'[q] = pc[q]
      BY <1>5 DEF Acquire, IInv, Shape
    <2>2. QED
      BY <2>1, RetoldAside DEF Working
  <1>6. ASSUME NEW p \in Procs, AcquireFails(p) PROVE Retold'
    <2>1. /\ file' = file /\ exporter' = exporter /\ given' = given /\ batch' = batch /\ format' = format
          /\ unsettled' = unsettled /\ pc[p] = "commit"
          /\ \A q \in Procs \ {p} : pc'[q] = pc[q] /\ pending'[q] = pending[q]
          /\ \/ pc'[p] = "commit" /\ pending'[p] = pending[p]
             \/ pc'[p] = "failed" /\ pending'[p] = <<>>
      BY <1>6 DEF AcquireFails, Done, IInv, Shape
    <2>2. QED
      BY <2>1, RetoldAside DEF Working
  <1>7. ASSUME NEW p \in Procs, WriteFails(p) PROVE Retold'
    <2>1. /\ file' = file /\ exporter' = exporter /\ given' = given /\ batch' = batch /\ format' = format
          /\ unsettled' = unsettled /\ pc'[p] = "failed" /\ pending'[p] = <<>>
          /\ \A q \in Procs \ {p} : pc'[q] = pc[q] /\ pending'[q] = pending[q]
      BY <1>7 DEF WriteFails, IInv, Shape
    <2>2. QED
      BY <2>1, RetoldAside DEF Working
  <1>8. ASSUME NEW p \in Procs, Kill(p) PROVE Retold'
    <2>1. /\ file' = file /\ exporter' = exporter /\ given' = given /\ batch' = batch /\ format' = format
          /\ unsettled' = unsettled /\ pc'[p] = "dead" /\ pending'[p] = <<>>
          /\ \A q \in Procs \ {p} : pc'[q] = pc[q] /\ pending'[q] = pending[q]
      BY <1>8 DEF Kill, IInv, Shape
    <2>2. QED
      BY <2>1, RetoldAside DEF Working
  <1>9. QED
    BY <1>2, <1>3, <1>4, <1>5, <1>6, <1>7, <1>8

\* What the exporter of the format hands over.
LEMMA StartHands ==
  ASSUME NEW f \in {"protobuf", "json"}, NEW p \in Procs, NEW r, IsReader(f, r), NEW y, y = NewExporter(f, p)
  PROVE  Hands(f, p, r, y, <<>>)
  <1>1. CASE f = "json"
    <2>1. PICK append : append = (p # Root)
      OBVIOUS
    <2>2. y = NewJson(Pid(p), append)
      BY <1>1, <2>1 DEF NewExporter
    <2>3. QED
      BY <1>1, <2>2, JsonOpenHands
  <1>2. CASE f = "protobuf"
    <2>1. y = NewProto(Slot(p), Pid(p))
      BY <1>2 DEF NewExporter
    <2>2. y.out = <<>>
      BY <2>1 DEF NewProto
    <2>3. Told(p, r, y, r)
      BY <2>2, ToldNothing
    <2>4. Follows(p, y, r)
      BY <1>2, <2>1, NewProtoFollows
    <2>5. QED
      BY <1>2, <2>3, <2>4, ToldHands
  <1>3. QED
    BY <1>1, <1>2

LEMMA EventsHands ==
  ASSUME NEW f \in {"protobuf", "json"}, f = format, NEW p \in Procs, NEW r, Tracks(f, p, exporter[p], r), exporter[p].out = <<>>,
         Room, NEW events, IsSequence(events), \A i \in 1 .. Len(events) : events[i].tid \in Threads,
         NEW y, y = WriteEvents(p, events)
  PROVE  Hands(f, p, r, y, SeensBy(f, p, events))
  <1>1. PICK x : x = exporter[p]
    OBVIOUS
  <1>2. Seens(p, events) = SeensBy(f, p, events)
    BY SeenIsBy
  <1>3. CASE f = "json"
    <2>1. y = JsonWriteBatch(x, events) /\ Tracks("json", p, x, r) /\ x.out = <<>>
      BY <1>1, <1>3 DEF WriteEvents
    <2>2. Hands("json", p, r, y, Seens(p, events))
      BY <1>3, <2>1, JsonHands
    <2>3. QED
      BY <1>2, <1>3, <2>2
  <1>4. CASE f = "protobuf"
    <2>1. y = ProtoWriteBatch(x, events) /\ Follows(p, x, r) /\ x.out = <<>>
      BY <1>1, <1>4 DEF WriteEvents, Tracks
    <2>2. Hands("protobuf", p, r, y, Seens(p, events))
      BY <1>4, <2>1, ProtoHands
    <2>3. QED
      BY <1>2, <1>4, <2>2
  <1>5. QED
    BY <1>3, <1>4

LEMMA EndHands ==
  ASSUME NEW f \in {"protobuf", "json"}, f = format, NEW p \in Procs, NEW r, Tracks(f, p, exporter[p], r), exporter[p].out = <<>>,
         NEW names, IsFiniteSet(names), NEW dropped, NEW y, y = WriteEnd(p, names, dropped)
  PROVE  Hands(f, p, r, y, <<>>)
  <1>1. PICK x : x = exporter[p]
    OBVIOUS
  <1>2. CASE f = "json"
    <2>1. y = JsonFinish(x, names, dropped) /\ Tracks("json", p, x, r) /\ x.out = <<>>
      BY <1>1, <1>2 DEF WriteEnd
    <2>2. QED
      BY <1>2, <2>1, JsonEndHands
  <1>3. CASE f = "protobuf"
    <2>1. y = ProtoFinish(x, dropped) /\ Follows(p, x, r) /\ x.out = <<>>
      BY <1>1, <1>3 DEF WriteEnd, Tracks
    <2>2. QED
      BY <1>3, <2>1, ProtoEndHands
  <1>4. QED
    BY <1>2, <1>3

LEMMA RetoldOne ==
  ASSUME Retold, format # "pprof", ~unsettled, format' = format, file'[Root] = file[Root], NEW p \in Procs,
         \A q \in Procs \ {p} : /\ pending'[q] = pending[q] /\ exporter'[q] = exporter[q] /\ given'[q] = given[q]
                                /\ batch'[q] = batch[q] /\ pc'[q] = pc[q],
         Marks(format, pending'[p]),
         Recounts(format, p, file[Root], pending'[p], exporter'[p], given'[p], batch'[p], pc'[p])
  PROVE  Retold'
  <1>1. /\ Marks(format, file[Root])
        /\ \A q \in Procs : /\ Marks(format, pending[q])
                            /\ Recounts(format, q, file[Root], pending[q], exporter[q], given[q], batch[q], pc[q])
    BY DEF Retold
  <1>2. ASSUME NEW q \in Procs
        PROVE  Marks(format', pending'[q]) /\ Recounts(format', q, file'[Root], pending'[q], exporter'[q], given'[q], batch'[q], pc'[q])
    <2>1. CASE q = p
      BY <2>1
    <2>2. CASE q # p
      BY <1>1, <2>2
    <2>3. QED
      BY <2>1, <2>2
  <1>3. Marks(format', file'[Root])
    BY <1>1
  <1>4. QED
    BY <1>2, <1>3 DEF Retold

LEMMA HandsMarks ==
  ASSUME NEW f, NEW p, NEW r, NEW y, NEW more, Hands(f, p, r, y, more)
  PROVE  Marks(f, Items(p, y.out))
  <1>1. PICK entries, items : entries = y.out /\ items = Items(p, entries)
    OBVIOUS
  <1>2. IsSequence(entries) /\ BelongAll(f, p, entries)
    BY <1>1 DEF Hands
  <1>3. DOMAIN items = DOMAIN entries /\ \A i \in DOMAIN items : items[i].by = p /\ items[i].entry = entries[i]
    BY <1>1, <1>2, ItemsListed
  <1>4. Marks(f, items)
    BY <1>2, <1>3 DEF BelongAll, Marks
  <1>5. QED
    BY <1>1, <1>4

\* What is known of a process that is idle.
LEMMA IdleReads ==
  ASSUME IInv, Written, Retold, NEW f \in {"protobuf", "json"}, f = format, ~unsettled, NEW p \in Procs, pc[p] = "idle"
  PROVE  /\ IsSequence(file[Root]) /\ Twofold(given[p]) /\ exporter[p].out = <<>> /\ batch[p] = <<>>
         /\ Tracks(f, p, exporter[p], ReaderOf(f, p, file[Root]))
         /\ Shown(f, ReaderOf(f, p, file[Root])) = SeenAll(f, p, given[p])
  <1>1. IsSequence(file[Root]) /\ Twofold(given[p]) /\ exporter[p].out = <<>>
    <2>1. Root \in Procs
      BY DEF Procs
    <2>2. QED
      BY <2>1 DEF Written, Stands, Listed, Twofold, Working
  <1>2. pending[p] = <<>>
    BY DEF IInv, Pending
  <1>3. PICK items, x, some, under : items = file[Root] /\ x = exporter[p] /\ some = given[p] /\ under = batch[p]
    OBVIOUS
  <1>4. PICK more, at : more = <<>> /\ at = "idle" /\ Recounts(f, p, items, more, x, some, under, at)
    BY <1>2, <1>3 DEF Retold
  <1>5. Idles(f, p, items, x, some, under)
    <2>1. Twofold(some)
      BY <1>1, <1>3
    <2>2. QED
      BY <1>4, <2>1, IdleTracks
  <1>6. QED
    BY <1>1, <1>3, <1>5 DEF Idles

LEMMA WriteBatchRetold ==
  ASSUME Room, IInv, Written, Retold, NEW p \in Procs, NEW b \in Batches, WriteBatch(p, b)
  PROVE  Retold'
  <1> DEFINE base == 3 * Len(given[p])
             events == [i \in DOMAIN b.packed |-> FromPacked(Clocks[p], base, b.tid, b.packed[i])]
             y == WriteEvents(p, events)
  <1>1. /\ exporter' = [exporter EXCEPT ![p] = [y EXCEPT !.out = <<>>]]
        /\ pending' = [pending EXCEPT ![p] = Items(p, y.out)]
        /\ pc' = [pc EXCEPT ![p] = IF y.out = <<>> THEN "idle" ELSE "commit"]
        /\ format' = format /\ pc[p] = "idle" /\ file' = file /\ unsettled' = unsettled
        /\ IF y.out = <<>>
           THEN given' = [given EXCEPT ![p] = Append(@, events)] /\ batch' = batch
           ELSE batch' = [batch EXCEPT ![p] = <<events>>] /\ given' = given
    BY DEF WriteBatch
  <1>2. IsSequence(events) /\ \A i \in 1 .. Len(events) : events[i].tid \in Threads
    <2>1. IsSequence(b.packed)
      BY OutputAssumption DEF IsSequence
    <2>2. events = [i \in DOMAIN b.packed |-> events[i]]
      OBVIOUS
    <2>3. \A i \in DOMAIN b.packed : events[i].tid \in Threads
      BY DEF FromPacked, Threads
    <2> HIDE DEF events
    <2>4. IsSequence(events) /\ DOMAIN events = DOMAIN b.packed
      BY <2>1, <2>2, SeqLike
    <2>5. QED
      BY <2>3, <2>4, SeqFacts
  <1> HIDE DEF events
  <1> SUFFICES ASSUME format # "pprof", ~unsettled PROVE Retold'
    BY <1>1 DEF Retold
  <1>3. PICK f \in {"protobuf", "json"} : f = format
    BY OutputAssumption DEF IInv, Shape
  <1>4. PICK r, some, evs : r = ReaderOf(f, p, file[Root]) /\ some = given[p] /\ evs = events
    OBVIOUS
  <1>5. /\ IsSequence(file[Root]) /\ Twofold(some) /\ exporter[p].out = <<>> /\ batch[p] = <<>>
        /\ Tracks(f, p, exporter[p], r) /\ Shown(f, r) = SeenAll(f, p, some)
    BY <1>1, <1>3, <1>4, IdleReads
  <1>6. IsSequence(evs) /\ \A i \in 1 .. Len(evs) : evs[i].tid \in Threads
    BY <1>2, <1>4
  <1>7. PICK z : z = WriteEvents(p, evs)
    OBVIOUS
  <1>8. Hands(f, p, r, z, SeensBy(f, p, evs))
    BY <1>3, <1>5, <1>6, <1>7, EventsHands
  <1>9. y = z
    BY <1>4, <1>7
  <1> HIDE DEF y
  <1>10. PICK items : items = file[Root]
    OBVIOUS
  <1>11. /\ z.out = <<>> => Recounts(f, p, items, Items(p, z.out), [z EXCEPT !.out = <<>>], Append(some, evs), <<>>, "idle")
         /\ z.out # <<>> => Recounts(f, p, items, Items(p, z.out), [z EXCEPT !.out = <<>>], some, <<evs>>, "commit")
    <2>1. Shown(f, ReaderOf(f, p, items)) = SeenAll(f, p, some) /\ Hands(f, p, ReaderOf(f, p, items), z, SeensBy(f, p, evs))
      BY <1>4, <1>5, <1>8, <1>10
    <2>2. QED
      BY <1>5, <1>6, <1>10, <2>1, BatchRecounts
  <1>12. Marks(f, Items(p, z.out))
    BY <1>8, HandsMarks
  <1>13. /\ exporter'[p] = [z EXCEPT !.out = <<>>] /\ pending'[p] = Items(p, z.out)
         /\ pc'[p] = IF z.out = <<>> THEN "idle" ELSE "commit"
         /\ \A q \in Procs \ {p} : pending'[q] = pending[q] /\ exporter'[q] = exporter[q] /\ pc'[q] = pc[q]
    <2>1. DOMAIN exporter = Procs /\ DOMAIN pending = Procs /\ DOMAIN pc = Procs
      BY DEF IInv, Shape, Written, Stands, Listed
    <2>2. PICK x : x = [z EXCEPT !.out = <<>>]
      OBVIOUS
    <2>3. exporter' = [exporter EXCEPT ![p] = x]
      BY <1>1, <1>9, <2>2
    <2>4. QED
      BY <1>1, <1>9, <2>1, <2>2, <2>3
  <1>14. \A q \in Procs \ {p} : given'[q] = given[q] /\ batch'[q] = batch[q]
    BY <1>1 DEF Written, Stands, Listed
  <1>15. /\ z.out = <<>> => given'[p] = Append(some, evs) /\ batch'[p] = <<>>
         /\ z.out # <<>> => given'[p] = some /\ batch'[p] = <<evs>>
    BY <1>1, <1>4, <1>5, <1>9 DEF Written, Stands, Listed
  <1>16. Recounts(f, p, items, pending'[p], exporter'[p], given'[p], batch'[p], pc'[p])
    BY <1>11, <1>13, <1>15
  <1>17. QED
    BY <1>1, <1>3, <1>10, <1>12, <1>13, <1>14, <1>16, RetoldOne

LEMMA FinishRetold ==
  ASSUME IInv, Written, Retold, NEW p \in Procs, NEW dropped \in Losses, Finish(p, dropped)
  PROVE  Retold'
  <1> DEFINE names == {ev.tid : ev \in UNION {ToSet(b) : b \in ToSet(given[p])}}
             y == WriteEnd(p, names, dropped)
  <1>1. /\ exporter' = [exporter EXCEPT ![p] = [y EXCEPT !.out = <<>>]]
        /\ pending' = [pending EXCEPT ![p] = Items(p, y.out)]
        /\ pc' = [pc EXCEPT ![p] = "commit"]
        /\ format' = format /\ pc[p] = "idle" /\ file' = file /\ unsettled' = unsettled /\ given' = given
        /\ batch' = [batch EXCEPT ![p] = <<>>]
    BY DEF Finish
  <1>2. IsFiniteSet(names)
    BY NamesFinite DEF Written, Stands
  <1> HIDE DEF names
  <1> SUFFICES ASSUME format # "pprof", ~unsettled PROVE Retold'
    BY <1>1 DEF Retold
  <1>3. PICK f \in {"protobuf", "json"} : f = format
    BY OutputAssumption DEF IInv, Shape
  <1>4. PICK r, some, items : r = ReaderOf(f, p, items) /\ some = given[p] /\ items = file[Root]
    OBVIOUS
  <1>5. /\ IsSequence(items) /\ Twofold(some) /\ exporter[p].out = <<>> /\ batch[p] = <<>>
        /\ Tracks(f, p, exporter[p], r) /\ Shown(f, r) = SeenAll(f, p, some)
    BY <1>1, <1>3, <1>4, IdleReads
  <1>6. PICK z : z = WriteEnd(p, names, dropped)
    OBVIOUS
  <1>7. Hands(f, p, r, z, <<>>)
    BY <1>2, <1>3, <1>5, <1>6, EndHands
  <1>8. y = z
    BY <1>6
  <1> HIDE DEF y
  <1>9. Recounts(f, p, items, Items(p, z.out), [z EXCEPT !.out = <<>>], some, <<>>, "commit")
    BY <1>4, <1>5, <1>7, EndRecounts
  <1>10. Marks(f, Items(p, z.out))
    BY <1>7, HandsMarks
  <1>11. /\ exporter'[p] = [z EXCEPT !.out = <<>>] /\ pending'[p] = Items(p, z.out) /\ pc'[p] = "commit"
         /\ \A q \in Procs \ {p} : pending'[q] = pending[q] /\ exporter'[q] = exporter[q] /\ pc'[q] = pc[q]
         /\ \A q \in Procs \ {p} : given'[q] = given[q] /\ batch'[q] = batch[q]
         /\ given'[p] = some /\ batch'[p] = <<>>
    <2>1. DOMAIN exporter = Procs /\ DOMAIN pending = Procs /\ DOMAIN pc = Procs /\ DOMAIN batch = Procs
      BY DEF IInv, Shape, Written, Stands, Listed
    <2>2. PICK x : x = [z EXCEPT !.out = <<>>]
      OBVIOUS
    <2>3. exporter' = [exporter EXCEPT ![p] = x]
      BY <1>1, <1>8, <2>2
    <2>4. QED
      BY <1>1, <1>4, <1>8, <2>1, <2>2, <2>3
  <1>12. Recounts(f, p, items, pending'[p], exporter'[p], given'[p], batch'[p], pc'[p])
    BY <1>9, <1>11
  <1>13. QED
    BY <1>1, <1>3, <1>4, <1>10, <1>11, <1>12, RetoldOne

\* Of who has not written anything a reader sees nothing.
LEMMA FreshReads ==
  ASSUME NEW f \in {"protobuf", "json"}, NEW p \in Procs, NEW items, IsSequence(items), Foreign(f, p, Entries(items))
  PROVE  ReaderOf(f, p, items) = Origin(f) /\ Shown(f, ReaderOf(f, p, items)) = SeenAll(f, p, <<>>)
  <1>1. PICK r, o, entries : r = ReaderOf(f, p, items) /\ o = Origin(f) /\ entries = Entries(items)
    OBVIOUS
  <1>2. IsSequence(entries) /\ IsReader(f, o) /\ Shown(f, o) = <<>>
    BY <1>1, EntriesListed, OriginReads
  <1>3. ReadOn(f, p, o, entries) = o
    BY <1>1, <1>2, ForeignPassed
  <1>4. r = o
    BY <1>1, <1>3 DEF ReaderOf
  <1>5. QED
    BY <1>1, <1>2, <1>4, SeenNothing

LEMMA EmptyEntries == \A f, p : Foreign(f, p, Entries(<<>>))
  BY DEF Foreign, Entries

LEMMA EmptyLasting ==
  ASSUME NEW f \in {"protobuf", "json"}, NEW p \in Procs, NEW under, Twofold(under), NEW none, none = <<>>
  PROVE  Lasting(f, p, none, none, none \o under)
  <1>1. IsSequence(none) /\ Len(none) = 0
    BY SeqEmpty
  <1>2. Shown(f, ReaderOf(f, p, none)) = SeenAll(f, p, none) /\ SeenAll(f, p, none) = none
    BY <1>1, FreshReads, EmptyEntries, SeenNothing
  <1>3. PICK both, seen : both = none \o under /\ seen = SeenAll(f, p, both)
    OBVIOUS
  <1>4. both = under
    <2>1. IsSequence(both) /\ Len(both) = 0 + Len(under) /\ \A i \in 1 .. Len(under) : both[0 + i] = under[i]
      BY <1>1, <1>3, SeqConcat DEF Twofold
    <2>2. IsSequence(under) /\ Len(under) \in Nat
      BY SeqFacts DEF Twofold
    <2>3. Len(both) = Len(under) /\ \A i \in 1 .. Len(both) : both[i] = under[i]
      BY <2>1, <2>2
    <2>4. QED
      BY <2>1, <2>2, <2>3, SameSequence
  <1>5. IsSequence(seen)
    <2>1. PICK events : IsSequence(events)
      BY SeqEmpty
    <2>2. QED
      BY <1>3, <1>4, <2>1, SeenAppended
  <1>6. Starts(none, seen)
    <2>1. Len(seen) \in Nat
      BY <1>5, SeqFacts
    <2>2. QED
      BY <1>1, <1>5, <2>1 DEF Starts
  <1>7. QED
    BY <1>2, <1>3, <1>6 DEF Lasting

LEMMA OpenRecounts ==
  ASSUME NEW f \in {"protobuf", "json"}, NEW p \in Procs, NEW items, IsSequence(items), Foreign(f, p, Entries(items)),
         NEW y, y = NewExporter(f, p), NEW to, NEW none, none = <<>>
  PROVE  /\ Marks(f, Items(p, y.out))
         /\ Recounts(f, p, items, Items(p, y.out), [y EXCEPT !.out = none], none, none, to)
  <1>1. PICK r : r = ReaderOf(f, p, items)
    OBVIOUS
  <1>2. IsReader(f, r) /\ Shown(f, r) = SeenAll(f, p, none)
    BY <1>1, FreshReads, ReaderReads
  <1>3. Hands(f, p, r, y, none)
    BY <1>2, StartHands
  <1>4. Twofold(none)
    BY SeqEmpty DEF Twofold
  <1>5. Recounts(f, p, items, Items(p, y.out), [y EXCEPT !.out = none], none, none, to)
    BY <1>1, <1>2, <1>3, <1>4, EndRecounts
  <1>6. QED
    BY <1>3, <1>5, HandsMarks

LEMMA OpenRetold ==
  ASSUME IInv, Written, Retold, NEW p \in Procs, Open(p)
  PROVE  Retold'
  <1> DEFINE y == NewExporter(format, p)
  <1>1. /\ exporter' = [exporter EXCEPT ![p] = [y EXCEPT !.out = <<>>]]
        /\ pending' = [pending EXCEPT ![p] = Items(p, y.out)]
        /\ pc' = [pc EXCEPT ![p] = IF y.out = <<>> THEN "idle" ELSE "commit"]
        /\ format' = format /\ pc[p] = "start"
        /\ file' = IF StartsOver(p) THEN [file EXCEPT ![Path(p)] = <<>>] ELSE file
        /\ given' = [q \in Procs |-> IF q = p \/ (StartsOver(p) /\ Path(q) = Path(p)) THEN <<>> ELSE given[q]]
        /\ batch' = [batch EXCEPT ![p] = <<>>]
        /\ unsettled' = (unsettled \/ (p = Root /\ \E c \in Kids : pc[c] \notin {"unborn", "closed", "failed", "dead"}))
    BY DEF Open
  <1> HIDE DEF y
  <1> SUFFICES ASSUME format' # "pprof", ~unsettled' PROVE Retold'
    BY DEF Retold
  <1>2. format # "pprof" /\ ~unsettled /\ (p = Root => \A c \in Kids : pc[c] \in {"unborn", "closed", "failed", "dead"})
    BY <1>1
  <1>3. PICK f \in {"protobuf", "json"} : f = format
    BY <1>2, OutputAssumption DEF IInv, Shape
  <1>4. /\ Root \in Procs /\ \A q \in Procs : Path(q) = Root
        /\ DOMAIN exporter = Procs /\ DOMAIN pending = Procs /\ DOMAIN pc = Procs /\ DOMAIN batch = Procs
        /\ DOMAIN file = Procs /\ DOMAIN given = Procs
    BY <1>2 DEF Procs, Path, IInv, Shape, Written, Stands, Listed
  <1>5. PICK items, none, z, to : items = file'[Root] /\ none = <<>> /\ z = y /\ to = pc'[p]
    OBVIOUS
  <1>6. /\ exporter'[p] = [z EXCEPT !.out = none] /\ pending'[p] = Items(p, z.out)
        /\ \A q \in Procs \ {p} : pending'[q] = pending[q] /\ exporter'[q] = exporter[q] /\ pc'[q] = pc[q] /\ batch'[q] = batch[q]
        /\ given'[p] = none /\ batch'[p] = none
    <2>1. PICK x : x = [z EXCEPT !.out = <<>>]
      OBVIOUS
    <2>2. exporter' = [exporter EXCEPT ![p] = x]
      BY <1>1, <1>5, <2>1
    <2>3. QED
      BY <1>1, <1>4, <1>5, <2>1, <2>2
  <1>7. /\ Marks(format, file[Root])
        /\ \A q \in Procs : /\ Marks(format, pending[q])
                            /\ Recounts(format, q, file[Root], pending[q], exporter[q], given[q], batch[q], pc[q])
    BY <1>2 DEF Retold
  <1>8. CASE p = Root
    <2>1. items = none /\ \A q \in Procs : given'[q] = none
      BY <1>1, <1>4, <1>5, <1>8 DEF StartsOver
    <2>2. Marks(f, Items(p, z.out)) /\ Recounts(f, p, items, Items(p, z.out), [z EXCEPT !.out = none], none, none, to)
      <3>1. IsSequence(items) /\ Foreign(f, p, Entries(items)) /\ z = NewExporter(f, p)
        BY <1>3, <1>5, <2>1, SeqEmpty, EmptyEntries DEF y
      <3>2. QED
        BY <1>5, <3>1, OpenRecounts
    <2>3. ASSUME NEW q \in Procs, q # p
          PROVE  Recounts(f, q, items, pending[q], exporter[q], none, batch[q], pc[q])
      <3>1. pc[q] \notin Working
        BY <1>2, <1>8, <2>3 DEF Working, Procs
      <3>2. PICK under : under = batch[q]
        OBVIOUS
      <3>3. Twofold(under)
        BY <3>2 DEF Twofold, Written, Stands, Listed
      <3>4. Lasting(f, q, none, none, none \o under)
        BY <1>5, <3>3, EmptyLasting
      <3>5. QED
        BY <2>1, <3>1, <3>2, <3>4 DEF Recounts, Working
    <2>4. ASSUME NEW q \in Procs
          PROVE  Marks(format', pending'[q]) /\ Recounts(format', q, file'[Root], pending'[q], exporter'[q], given'[q], batch'[q], pc'[q])
      <3>1. CASE q = p
        BY <1>1, <1>3, <1>5, <1>6, <2>2, <3>1
      <3>2. CASE q # p
        BY <1>1, <1>3, <1>5, <1>6, <1>7, <2>1, <2>3, <3>2
      <3>3. QED
        BY <3>1, <3>2
    <2>5. Marks(format', file'[Root])
      BY <1>5, <2>1 DEF Marks
    <2>6. QED
      BY <2>4, <2>5 DEF Retold
  <1>9. CASE p # Root
    <2>1. file' = file /\ \A q \in Procs \ {p} : given'[q] = given[q]
      BY <1>1, <1>2, <1>9 DEF StartsOver
    <2>2. IsSequence(items) /\ Foreign(f, p, Entries(items))
      <3>1. IsSequence(items)
        BY <1>4, <1>5, <2>1 DEF Written, Stands, Listed
      <3>2. \A i \in DOMAIN items : items[i].by \in Procs \ {p}
        BY <1>1, <1>4, <1>5, <1>9, <2>1 DEF Written, Stands, Placed, Procs
      <3>3. Marks(f, items)
        BY <1>3, <1>5, <1>7, <2>1
      <3>4. PICK entries : entries = Entries(items)
        OBVIOUS
      <3>5. DOMAIN entries = DOMAIN items /\ \A i \in DOMAIN items : entries[i] = items[i].entry
        BY <3>1, <3>4, EntriesListed
      <3>6. Foreign(f, p, entries)
        BY <3>2, <3>3, <3>5 DEF Foreign, Marks
      <3>7. QED
        BY <3>1, <3>4, <3>6
    <2>3. Marks(f, Items(p, z.out)) /\ Recounts(f, p, items, Items(p, z.out), [z EXCEPT !.out = none], none, none, to)
      <3>1. z = NewExporter(f, p)
        BY <1>3, <1>5 DEF y
      <3>2. QED
        BY <1>5, <2>2, <3>1, OpenRecounts
    <2>4. Recounts(f, p, items, pending'[p], exporter'[p], given'[p], batch'[p], pc'[p])
      BY <1>5, <1>6, <2>3
    <2>5. QED
      BY <1>1, <1>2, <1>3, <1>5, <1>6, <2>1, <2>3, <2>4, RetoldOne
  <1>10. QED
    BY <1>8, <1>9

\* p adds entries to the file.
OthersStay(p) ==
    \A q \in Procs \ {p} : /\ pending'[q] = pending[q] /\ exporter'[q] = exporter[q] /\ given'[q] = given[q]
                           /\ batch'[q] = batch[q] /\ pc'[q] = pc[q]

KeepsForeign(p, items, new) == \A i \in DOMAIN items : items[i].by # p => i \in DOMAIN new /\ new[i] = items[i]

Owns(p, items) == \A i \in DOMAIN items : items[i].by = p

LEMMA RetoldWrites ==
  ASSUME Retold, Stands, NEW f \in {"protobuf", "json"}, f = format, ~unsettled, format' = format, NEW p \in Procs,
         NEW items, items = file[Root], NEW new, new = file'[Root], NEW es, Joins(Entries(new), Entries(items), es),
         BelongAll(f, p, es), KeepsForeign(p, items, new), OthersStay(p),
         Marks(f, new), Marks(f, pending'[p]),
         Recounts(f, p, new, pending'[p], exporter'[p], given'[p], batch'[p], pc'[p])
  PROVE  Retold'
  <1>1. \A q \in Procs : /\ Marks(f, pending[q])
                         /\ Recounts(f, q, items, pending[q], exporter[q], given[q], batch[q], pc[q])
    BY DEF Retold
  <1>2. ASSUME NEW q \in Procs, q # p
        PROVE  Recounts(f, q, new, pending[q], exporter[q], given[q], batch[q], pc[q])
    <2>1. PICK more, x, some, under, at : /\ more = pending[q] /\ x = exporter[q] /\ some = given[q] /\ under = batch[q]
                                          /\ at = pc[q]
      OBVIOUS
    <2>2. Recounts(f, q, items, more, x, some, under, at)
      BY <1>1, <2>1
    <2>3. Foreign(f, q, es)
      BY <1>2 DEF Foreign, BelongAll
    <2>4. \A i \in DOMAIN items : items[i].by = q => i \in DOMAIN new /\ new[i] = items[i]
      BY <1>2 DEF KeepsForeign
    <2>5. IsSequence(items)
      BY DEF Stands, Listed, Procs
    <2>6. Recounts(f, q, new, more, x, some, under, at)
      BY <2>2, <2>3, <2>4, <2>5, RecountsOther
    <2>7. QED
      BY <2>1, <2>6
  <1>3. ASSUME NEW q \in Procs
        PROVE  Marks(format', pending'[q]) /\ Recounts(format', q, file'[Root], pending'[q], exporter'[q], given'[q], batch'[q], pc'[q])
    <2>1. CASE q = p
      BY <2>1
    <2>2. CASE q # p
      BY <1>1, <1>2, <2>2 DEF OthersStay
    <2>3. QED
      BY <2>1, <2>2
  <1>4. Marks(format', file'[Root])
    OBVIOUS
  <1>5. QED
    BY <1>3, <1>4 DEF Retold

LEMMA EntriesJoined ==
  ASSUME NEW new, NEW items, NEW more, Joins(new, items, more)
  PROVE  Joins(Entries(new), Entries(items), Entries(more))
  <1>1. PICK s, t, u : s = Entries(new) /\ t = Entries(items) /\ u = Entries(more)
    OBVIOUS
  <1>2. /\ IsSequence(new) /\ IsSequence(items) /\ IsSequence(more) /\ Len(new) = Len(items) + Len(more)
        /\ Len(items) \in Nat /\ Len(more) \in Nat
        /\ DOMAIN new = 1 .. Len(new) /\ DOMAIN items = 1 .. Len(items) /\ DOMAIN more = 1 .. Len(more)
    BY SeqFacts DEF Joins
  <1>3. IsSequence(s) /\ Len(s) = Len(new) /\ \A i \in DOMAIN new : s[i] = new[i].entry
    BY <1>1, <1>2, EntriesListed
  <1>4. IsSequence(t) /\ Len(t) = Len(items) /\ \A i \in DOMAIN items : t[i] = items[i].entry
    BY <1>1, <1>2, EntriesListed
  <1>5. IsSequence(u) /\ Len(u) = Len(more) /\ \A i \in DOMAIN more : u[i] = more[i].entry
    BY <1>1, <1>2, EntriesListed
  <1>6. \A i \in 1 .. Len(t) : s[i] = t[i]
    <2>1. \A i \in 1 .. Len(t) : i \in DOMAIN new /\ i \in DOMAIN items /\ new[i] = items[i]
      BY <1>2, <1>4 DEF Joins
    <2>2. QED
      BY <1>3, <1>4, <2>1
  <1>7. \A i \in 1 .. Len(u) : s[Len(t) + i] = u[i]
    <2>1. \A i \in 1 .. Len(u) : Len(items) + i \in DOMAIN new /\ i \in DOMAIN more /\ new[Len(items) + i] = more[i]
      BY <1>2, <1>5 DEF Joins
    <2>2. QED
      BY <1>3, <1>4, <1>5, <2>1
  <1>8. Joins(s, t, u)
    BY <1>2, <1>3, <1>4, <1>5, <1>6, <1>7 DEF Joins
  <1>9. QED
    BY <1>1, <1>8

LEMMA RestListed ==
  ASSUME NEW items, IsSequence(items)
  PROVE  /\ IsSequence(Rest(items))
         /\ items # <<>> /\ items[1].part = "tail" =>
              /\ Len(Rest(items)) = Len(items) - 1
              /\ \A i \in DOMAIN Rest(items) : i + 1 \in DOMAIN items /\ Rest(items)[i] = items[i + 1].entry
         /\ ~(items # <<>> /\ items[1].part = "tail") => Rest(items) = Entries(items)
  <1>1. PICK entries, rest : entries = Entries(items) /\ rest = Rest(items)
    OBVIOUS
  <1>2. /\ IsSequence(entries) /\ Len(entries) = Len(items) /\ DOMAIN entries = DOMAIN items
        /\ \A i \in DOMAIN items : entries[i] = items[i].entry
    BY <1>1, EntriesListed
  <1>3. CASE ~(items # <<>> /\ items[1].part = "tail")
    BY <1>1, <1>2, <1>3 DEF Rest
  <1>4. CASE items # <<>> /\ items[1].part = "tail"
    <2>1. rest = Tail(entries) /\ entries # <<>>
      BY <1>1, <1>2, <1>4, SeqFacts, SeqEmpty DEF Rest
    <2>2. IsSequence(rest) /\ Len(rest) = Len(entries) - 1 /\ \A i \in DOMAIN rest : i + 1 \in DOMAIN entries /\ rest[i] = entries[i + 1]
      BY <1>2, <2>1, SeqTail
    <2>3. QED
      BY <1>1, <1>2, <1>4, <2>2
  <1>5. QED
    BY <1>3, <1>4

\* n items and half of the next, and the half and those that are left.
Parts(p, pend, n, more, next) ==
    LET cut == pend[n + 1].entry
    IN /\ IsSequence(more) /\ Len(more) = n + 1 /\ n \in Nat /\ n + 1 \in DOMAIN pend
       /\ more[n + 1] = Item(p, cut, "head") /\ \A i \in 1 .. n : more[i] = pend[i] /\ i \in DOMAIN pend
       /\ IsSequence(next) /\ next # <<>> /\ Len(next) = Len(pend) - n /\ next[1] = Item(p, cut, "tail")
       /\ \A i \in DOMAIN next : i # 1 => n + i \in DOMAIN pend /\ next[i] = pend[n + i]
       /\ \A i \in DOMAIN pend : pend[i].part = "whole"

LEMMA PartsJoin ==
  ASSUME NEW p, NEW pend, IsSequence(pend), NEW n, NEW more, NEW next, Parts(p, pend, n, more, next)
  PROVE  Joins(Rest(pend), Entries(more), Rest(next))
  <1>1. PICK cut, s, t, u : cut = pend[n + 1].entry /\ s = Rest(pend) /\ t = Entries(more) /\ u = Rest(next)
    OBVIOUS
  <1>2. /\ IsSequence(more) /\ Len(more) = n + 1 /\ n \in Nat /\ n + 1 \in DOMAIN pend
        /\ more[n + 1].entry = cut /\ \A i \in 1 .. n : more[i] = pend[i] /\ i \in DOMAIN pend
        /\ IsSequence(next) /\ next # <<>> /\ Len(next) = Len(pend) - n /\ next[1].part = "tail"
        /\ \A i \in DOMAIN next : i # 1 => n + i \in DOMAIN pend /\ next[i] = pend[n + i]
        /\ \A i \in DOMAIN pend : pend[i].part = "whole"
    BY <1>1 DEF Parts, Item
  <1>3. /\ Len(pend) \in Nat /\ DOMAIN pend = 1 .. Len(pend) /\ DOMAIN more = 1 .. Len(more)
        /\ DOMAIN next = 1 .. Len(next) /\ Len(next) \in Nat
    BY <1>2, SeqFacts
  <1>4. ~(pend # <<>> /\ pend[1].part = "tail")
    <2>1. pend # <<>> => 1 \in DOMAIN pend
      BY SeqTail
    <2>2. QED
      BY <1>2, <2>1
  <1>5. IsSequence(s) /\ Len(s) = Len(pend) /\ \A i \in DOMAIN pend : s[i] = pend[i].entry
    <2>1. s = Entries(pend)
      BY <1>1, <1>4, RestListed
    <2>2. QED
      BY <2>1, EntriesListed
  <1>6. IsSequence(t) /\ Len(t) = n + 1 /\ \A i \in DOMAIN more : t[i] = more[i].entry
    BY <1>1, <1>2, EntriesListed
  <1>7. /\ IsSequence(u) /\ Len(u) = Len(next) - 1
        /\ \A i \in DOMAIN u : i + 1 \in DOMAIN next /\ u[i] = next[i + 1].entry
    BY <1>1, <1>2, RestListed
  <1>8. Len(s) = Len(t) + Len(u)
    BY <1>2, <1>3, <1>5, <1>6, <1>7
  <1>9. ASSUME NEW i \in 1 .. Len(t) PROVE s[i] = t[i]
    <2>1. i \in DOMAIN more /\ (i \in 1 .. n \/ i = n + 1)
      BY <1>2, <1>3, <1>6
    <2>2. QED
      BY <1>1, <1>2, <1>5, <1>6, <2>1
  <1>10. ASSUME NEW i \in 1 .. Len(u) PROVE s[Len(t) + i] = u[i]
    <2>1. i \in DOMAIN u /\ i \in Nat /\ i + 1 # 1
      BY <1>7, SeqFacts
    <2>2. u[i] = next[i + 1].entry /\ n + (i + 1) \in DOMAIN pend /\ next[i + 1] = pend[n + (i + 1)]
      BY <1>2, <1>7, <2>1
    <2>3. n + (i + 1) = Len(t) + i
      BY <1>2, <1>6, <2>1
    <2>4. QED
      BY <1>5, <2>2, <2>3
  <1>11. Joins(s, t, u)
    BY <1>5, <1>6, <1>7, <1>8, <1>9, <1>10 DEF Joins
  <1>12. QED
    BY <1>1, <1>11

LEMMA PartsMark ==
  ASSUME NEW f, NEW p, NEW pend, IsSequence(pend), NEW n, NEW more, NEW next, Parts(p, pend, n, more, next), Marks(f, pend), Owns(p, pend)
  PROVE  /\ Marks(f, more) /\ Marks(f, next) /\ BelongAll(f, p, Entries(more))
         /\ Owns(p, more)
  <1>1. PICK cut : cut = pend[n + 1].entry
    OBVIOUS
  <1>2. /\ IsSequence(more) /\ Len(more) = n + 1 /\ n \in Nat /\ n + 1 \in DOMAIN pend
        /\ more[n + 1].entry = cut /\ more[n + 1].by = p /\ \A i \in 1 .. n : more[i] = pend[i] /\ i \in DOMAIN pend
        /\ next[1].by = p /\ next[1].entry = cut
        /\ \A i \in DOMAIN next : i # 1 => n + i \in DOMAIN pend /\ next[i] = pend[n + i]
    BY <1>1 DEF Parts, Item
  <1>3. Belongs(f, p, cut)
    BY <1>1, <1>2 DEF Marks, Owns
  <1>4. ASSUME NEW i \in DOMAIN more PROVE more[i].by = p /\ Belongs(f, p, more[i].entry)
    <2>1. i \in 1 .. n \/ i = n + 1
      BY <1>2, SeqFacts
    <2>2. CASE i \in 1 .. n
      BY <1>2, <2>2 DEF Marks, Owns
    <2>3. CASE i = n + 1
      BY <1>2, <1>3, <2>3
    <2>4. QED
      BY <2>1, <2>2, <2>3
  <1>5. Marks(f, next)
    <2> SUFFICES ASSUME NEW i \in DOMAIN next PROVE Belongs(f, next[i].by, next[i].entry)
      BY DEF Marks
    <2>1. CASE i = 1
      BY <1>2, <1>3, <2>1
    <2>2. CASE i # 1
      BY <1>2, <2>2 DEF Marks
    <2>3. QED
      BY <2>1, <2>2
  <1>6. BelongAll(f, p, Entries(more))
    <2>1. PICK entries : entries = Entries(more)
      OBVIOUS
    <2>2. DOMAIN entries = DOMAIN more /\ \A i \in DOMAIN more : entries[i] = more[i].entry
      BY <1>2, <2>1, EntriesListed
    <2>3. BelongAll(f, p, entries)
      BY <1>4, <2>2 DEF BelongAll
    <2>4. QED
      BY <2>1, <2>3
  <1>7. QED
    BY <1>4, <1>5, <1>6 DEF Marks, Owns

LEMMA JoinedMarks ==
  ASSUME NEW f, NEW new, NEW items, NEW more, Joins(new, items, more), Marks(f, items), Marks(f, more)
  PROVE  Marks(f, new)
  <1> SUFFICES ASSUME NEW i \in DOMAIN new PROVE Belongs(f, new[i].by, new[i].entry)
    BY DEF Marks
  <1>1. /\ IsSequence(new) /\ IsSequence(items) /\ IsSequence(more) /\ Len(new) = Len(items) + Len(more)
        /\ Len(items) \in Nat /\ Len(more) \in Nat /\ i \in 1 .. Len(new)
        /\ DOMAIN items = 1 .. Len(items) /\ DOMAIN more = 1 .. Len(more)
    BY SeqFacts DEF Joins
  <1>2. CASE i <= Len(items)
    <2>1. i \in DOMAIN items /\ new[i] = items[i]
      BY <1>1, <1>2 DEF Joins
    <2>2. QED
      BY <2>1 DEF Marks
  <1>3. CASE i > Len(items)
    <2>1. PICK j \in DOMAIN more : i = Len(items) + j
      <3>1. i - Len(items) \in DOMAIN more /\ i = Len(items) + (i - Len(items))
        BY <1>1, <1>3
      <3>2. QED
        BY <3>1
    <2>2. new[i] = more[j]
      BY <1>1, <2>1 DEF Joins
    <2>3. QED
      BY <2>2 DEF Marks
  <1>4. QED
    BY <1>1, <1>2, <1>3

LEMMA WritePartRetold ==
  ASSUME IInv, Written, Retold, NEW p \in Procs, NEW n \in 0 .. (Len(pending[p]) - 1), WritePart(p, n)
  PROVE  Retold'
  <1> SUFFICES ASSUME format # "pprof", ~unsettled PROVE Retold'
    BY DEF Retold, WritePart
  <1>1. PICK f \in {"protobuf", "json"} : f = format
    BY OutputAssumption DEF IInv, Shape
  <1>2. Root \in Procs /\ Path(p) = Root /\ IsSequence(file[Root]) /\ DOMAIN file = Procs /\ IsSequence(pending[p])
    BY DEF Procs, Path, Written, Stands, Listed
  <1> DEFINE path == Path(p)
             half == pending[p][n + 1].entry
             part == SubSeq(pending[p], 1, n) \o <<Item(p, half, "head")>>
             all == file[path] \o part
  <1>3. /\ IsSequence(part) /\ Len(part) = n + 1 /\ n \in Nat
        /\ part[n + 1] = Item(p, half, "head")
        /\ \A i \in 1 .. n : part[i] = pending[p][i] /\ i \in DOMAIN pending[p]
        /\ file' = [file EXCEPT ![path] = all]
        /\ IsSequence(pending'[p]) /\ pending'[p] # <<>>
        /\ Len(pending'[p]) = Len(pending[p]) - n
        /\ pending'[p][1] = Item(p, half, "tail")
        /\ \A i \in DOMAIN pending'[p] : i # 1 =>
             n + i \in DOMAIN pending[p] /\ pending'[p][i] = pending[p][n + i]
        /\ \A q \in Procs \ {p} : pending'[q] = pending[q]
        /\ \A i \in DOMAIN pending[p] : pending[p][i].part = "whole"
        /\ n + 1 \in DOMAIN pending[p]
    BY PartDoes DEF Written, Stands
  <1> HIDE DEF part
  <1>4. PICK items, pend, more, new, next :
          /\ items = file[Root] /\ pend = pending[p] /\ more = part /\ new = items \o more /\ next = pending'[p]
    OBVIOUS
  <1>5. IsSequence(pend) /\ IsSequence(items) /\ IsSequence(more)
    BY <1>2, <1>3, <1>4
  <1>6. Parts(p, pend, n, more, next)
    BY <1>3, <1>4 DEF Parts
  <1>7. file'[Root] = new
    BY <1>2, <1>3, <1>4
  <1>8. /\ pc[p] = "write" /\ pc' = pc /\ format' = format /\ given' = given /\ batch' = batch
        /\ exporter' = exporter /\ unsettled' = unsettled
    BY DEF WritePart
  <1>9. Joins(new, items, more)
    BY <1>4, <1>5, JoinsConcat
  <1>10. Joins(Entries(new), Entries(items), Entries(more))
    BY <1>9, EntriesJoined
  <1>11. Marks(f, items) /\ Marks(f, pend) /\ Owns(p, pend)
    BY <1>1, <1>4 DEF Retold, Written, Stands, Cut, Owns
  <1>12. /\ Marks(f, more) /\ Marks(f, next) /\ BelongAll(f, p, Entries(more))
    BY <1>11, <1>5, <1>6, PartsMark
  <1>13. Marks(f, new)
    BY <1>9, <1>11, <1>12, JoinedMarks
  <1>14. IsSequence(items) /\ \A i \in DOMAIN items : i \in DOMAIN new /\ new[i] = items[i]
    BY <1>9, <1>5, SeqFacts DEF Joins
  <1>15. ~Settled(p, new)
    <2>1. /\ IsSequence(items) /\ IsSequence(new) /\ Len(new) = Len(items) + (n + 1) /\ n \in Nat /\ Len(items) \in Nat
          /\ Len(more) = n + 1 /\ n + 1 \in 1 .. Len(more) /\ DOMAIN new = 1 .. Len(new)
      BY <1>9, <1>6, SeqFacts DEF Joins, Parts
    <2>2. Len(items) + (n + 1) \in DOMAIN new /\ new[Len(items) + (n + 1)] = more[n + 1]
      BY <1>9, <2>1 DEF Joins
    <2>3. more[n + 1].by = p /\ more[n + 1].part = "head"
      BY <1>6 DEF Parts, Item
    <2>4. QED
      BY <2>2, <2>3 DEF Settled
  <1>16. Joins(Rest(pend), Entries(more), Rest(next))
    BY <1>5, <1>6, PartsJoin
  <1>17. PICK x, some, under, at, es : /\ x = exporter[p] /\ some = given[p] /\ under = batch[p] /\ at = "write" /\ es = Entries(more)
    OBVIOUS
  <1>18. Recounts(f, p, items, pend, x, some, under, at)
    BY <1>1, <1>4, <1>8, <1>17 DEF Retold
  <1>19. Recounts(f, p, new, next, x, some, under, at)
    BY <1>10, <1>14, <1>15, <1>16, <1>17, <1>18, PartRecounts
  <1>20. Recounts(f, p, new, pending'[p], exporter'[p], given'[p], batch'[p], pc'[p])
    BY <1>4, <1>8, <1>17, <1>19
  <1>21. new = file'[Root] /\ Marks(f, pending'[p]) /\ BelongAll(f, p, es) /\ Joins(Entries(new), Entries(items), es)
    BY <1>4, <1>10, <1>12, <1>17, <1>7
  <1>22. KeepsForeign(p, items, new) /\ OthersStay(p) /\ Stands
    BY <1>3, <1>8, <1>14 DEF KeepsForeign, OthersStay, Written
  <1>23. QED
    BY <1>1, <1>4, <1>8, <1>13, <1>20, <1>21, <1>22, RetoldWrites

\* The rest of what p has pending comes behind what it wrote of it before.
Adds(p, new, items, es) ==
    /\ IsSequence(new) /\ Joins(Entries(new), Entries(items), es) /\ KeepsForeign(p, items, new)
    /\ \A i \in DOMAIN new : new[i].by = p \/ (i \in DOMAIN items /\ new[i] = items[i])

LEMMA AddsBehind ==
  ASSUME NEW p, NEW items, IsSequence(items), NEW more, IsSequence(more), Owns(p, more), NEW new, new = items \o more
  PROVE  Adds(p, new, items, Entries(more))
  <1>1. Joins(new, items, more)
    BY JoinsConcat
  <1>2. Joins(Entries(new), Entries(items), Entries(more))
    BY <1>1, EntriesJoined
  <1>3. /\ IsSequence(new) /\ Len(new) = Len(items) + Len(more) /\ Len(items) \in Nat /\ Len(more) \in Nat
        /\ DOMAIN new = 1 .. Len(new) /\ DOMAIN items = 1 .. Len(items) /\ DOMAIN more = 1 .. Len(more)
    BY <1>1, SeqFacts DEF Joins
  <1>4. KeepsForeign(p, items, new)
    <2>1. \A i \in DOMAIN items : i \in DOMAIN new /\ new[i] = items[i]
      BY <1>1, <1>3 DEF Joins
    <2>2. QED
      BY <2>1 DEF KeepsForeign
  <1>5. ASSUME NEW i \in DOMAIN new PROVE new[i].by = p \/ (i \in DOMAIN items /\ new[i] = items[i])
    <2>1. CASE i <= Len(items)
      <3>1. i \in DOMAIN items
        BY <1>3, <2>1
      <3>2. QED
        BY <1>1, <1>3, <3>1 DEF Joins
    <2>2. CASE i > Len(items)
      <3>1. PICK j \in DOMAIN more : i = Len(items) + j
        <4>1. i - Len(items) \in DOMAIN more /\ i = Len(items) + (i - Len(items))
          BY <1>3, <2>2
        <4>2. QED
          BY <4>1
      <3>2. new[i] = more[j]
        BY <1>1, <1>3, <3>1 DEF Joins
      <3>3. QED
        BY <3>2 DEF Owns
    <2>3. QED
      BY <1>3, <2>1, <2>2
  <1>6. QED
    BY <1>2, <1>3, <1>4, <1>5 DEF Adds

LEMMA AppendedAdds ==
  ASSUME NEW p, NEW items, IsSequence(items), NEW more, IsSequence(more), more # <<>>, Owns(p, more),
         Continues(items, more, p), NEW new, new = Appended(items, more)
  PROVE  Adds(p, new, items, Rest(more))
  <1>1. PICK tail : tail = Tail(more)
    OBVIOUS
  <1>2. /\ IsSequence(tail) /\ Len(tail) = Len(more) - 1 /\ Head(more) = more[1] /\ 1 \in DOMAIN more
        /\ \A i \in DOMAIN tail : i + 1 \in DOMAIN more /\ tail[i] = more[i + 1]
    BY <1>1, SeqTail
  <1>3. more[1].by = p
    BY <1>2 DEF Owns
  <1>4. CASE more[1].part # "tail"
    <2>1. new = items \o more
      BY <1>2, <1>4 DEF Appended
    <2>2. Rest(more) = Entries(more)
      BY <1>4, RestListed
    <2>3. QED
      BY <2>1, <2>2, AddsBehind
  <1>5. CASE more[1].part = "tail"
    <2>1. PICK entry, entire, last : entry = more[1].entry /\ entire = Item(p, entry, "whole") /\ last = Item(p, entry, "head")
      OBVIOUS
    <2>2. entire.by = p /\ entire.entry = entry /\ last.by = p /\ last.entry = entry
      BY <2>1 DEF Item
    <2>3. items # <<>> /\ Last(items) = last
      BY <1>5, <2>1 DEF Continues
    <2>4. PICK most, front : most = Front(items) /\ front = most \o <<entire>>
      OBVIOUS
    <2>5. new = front \o tail
      BY <1>1, <1>2, <1>3, <1>5, <2>1, <2>3, <2>4 DEF Appended
    <2>6. /\ IsSequence(most) /\ Len(most) = Len(items) - 1
          /\ \A i \in DOMAIN most : i \in DOMAIN items /\ i < Len(items) /\ most[i] = items[i]
      BY <2>3, <2>4, SeqFront
    <2>7. Len(items) \in Nat /\ Len(items) >= 1 /\ DOMAIN most = 1 .. (Len(items) - 1) /\ DOMAIN items = 1 .. Len(items)
      BY <2>3, <2>6, SeqFacts
    <2>8. /\ IsSequence(front) /\ Len(front) = Len(most) + 1 /\ front[Len(most) + 1] = entire
          /\ \A i \in 1 .. Len(most) : front[i] = most[i]
      BY <2>4, <2>6, SeqPush
    <2>9. /\ Len(front) = Len(items) /\ front[Len(items)] = entire /\ items[Len(items)] = last
          /\ \A i \in 1 .. Len(items) : i = Len(items) \/ front[i] = items[i]
      <3>1. Len(most) + 1 = Len(items)
        BY <2>6, <2>7
      <3>2. items[Len(items)] = last
        BY <2>3 DEF Last
      <3>3. \A i \in 1 .. Len(items) : i = Len(items) \/ i \in 1 .. Len(most)
        <4>1. PICK m \in Nat : m = Len(items)
          BY <2>7
        <4>2. \A i \in 1 .. m : i = m \/ i \in 1 .. (m - 1)
          BY <4>1
        <4>3. Len(most) = m - 1
          BY <2>6, <4>1
        <4>4. QED
          BY <4>1, <4>2, <4>3
      <3>4. \A i \in 1 .. Len(most) : front[i] = items[i]
        BY <2>6, <2>7, <2>8
      <3>5. QED
        BY <2>8, <3>1, <3>2, <3>3, <3>4
    <2>10. Entries(front) = Entries(items)
      <3>1. PICK s, t : s = Entries(front) /\ t = Entries(items)
        OBVIOUS
      <3>2. IsSequence(s) /\ Len(s) = Len(items) /\ \A i \in 1 .. Len(items) : s[i] = front[i].entry
        BY <2>8, <2>9, <3>1, EntriesListed, SeqFacts
      <3>3. IsSequence(t) /\ Len(t) = Len(items) /\ \A i \in 1 .. Len(items) : t[i] = items[i].entry
        BY <2>7, <3>1, EntriesListed
      <3>4. \A i \in 1 .. Len(s) : s[i] = t[i]
        BY <2>2, <2>9, <3>2, <3>3
      <3>5. s = t
        BY <3>2, <3>3, <3>4, SameSequence
      <3>6. QED
        BY <3>1, <3>5
    <2>11. Entries(tail) = Rest(more)
      <3>1. PICK s, t : s = Entries(tail) /\ t = Rest(more)
        OBVIOUS
      <3>2. IsSequence(s) /\ Len(s) = Len(tail) /\ DOMAIN tail = 1 .. Len(tail) /\ \A i \in 1 .. Len(tail) : s[i] = tail[i].entry
        BY <1>2, <3>1, EntriesListed, SeqFacts
      <3>3. /\ IsSequence(t) /\ Len(t) = Len(more) - 1 /\ DOMAIN t = 1 .. Len(t)
            /\ \A i \in DOMAIN t : t[i] = more[i + 1].entry
        BY <1>5, <3>1, RestListed, SeqFacts
      <3>4. \A i \in 1 .. Len(s) : s[i] = t[i]
        BY <1>2, <3>2, <3>3
      <3>5. s = t
        BY <1>2, <3>2, <3>3, <3>4, SameSequence
      <3>6. QED
        BY <3>1, <3>5
    <2>12. Owns(p, tail)
      BY <1>2 DEF Owns
    <2>13. Adds(p, new, front, Entries(tail))
      BY <1>2, <2>5, <2>8, <2>12, AddsBehind
    <2>14. DOMAIN front = 1 .. Len(items)
      BY <2>8, <2>9, SeqFacts
    <2>15. KeepsForeign(p, items, new)
      <3> SUFFICES ASSUME NEW i \in DOMAIN items, items[i].by # p PROVE i \in DOMAIN new /\ new[i] = items[i]
        BY DEF KeepsForeign
      <3>1. i \in DOMAIN front /\ front[i] = items[i]
        BY <2>2, <2>7, <2>9, <2>14
      <3>2. QED
        BY <2>13, <3>1 DEF Adds, KeepsForeign
    <2>16. ASSUME NEW i \in DOMAIN new PROVE new[i].by = p \/ (i \in DOMAIN items /\ new[i] = items[i])
      <3>1. new[i].by = p \/ (i \in DOMAIN front /\ new[i] = front[i])
        BY <2>13 DEF Adds
      <3>2. QED
        BY <2>2, <2>7, <2>9, <2>14, <3>1
    <2>17. IsSequence(new) /\ Joins(Entries(new), Entries(items), Rest(more))
      BY <2>10, <2>11, <2>13 DEF Adds
    <2>18. QED
      BY <2>15, <2>16, <2>17 DEF Adds
  <1>6. QED
    BY <1>4, <1>5

LEMMA AddsMarks ==
  ASSUME NEW f, NEW p, NEW new, NEW items, IsSequence(items), NEW es, Adds(p, new, items, es), Marks(f, items), BelongAll(f, p, es)
  PROVE  Marks(f, new)
  <1> SUFFICES ASSUME NEW i \in DOMAIN new PROVE Belongs(f, new[i].by, new[i].entry)
    BY DEF Marks
  <1>1. CASE i \in DOMAIN items /\ new[i] = items[i]
    BY <1>1 DEF Marks
  <1>2. CASE new[i].by = p /\ ~(i \in DOMAIN items /\ new[i] = items[i])
    <2>1. PICK s, t : s = Entries(new) /\ t = Entries(items)
      OBVIOUS
    <2>2. /\ Joins(s, t, es) /\ IsSequence(new) /\ Len(s) = Len(new) /\ s[i] = new[i].entry
          /\ Len(t) = Len(items) /\ \A j \in DOMAIN items : t[j] = items[j].entry
      BY <2>1, EntriesListed DEF Adds
    <2>3. /\ Len(s) = Len(t) + Len(es) /\ Len(t) \in Nat /\ Len(es) \in Nat /\ i \in 1 .. Len(s)
          /\ DOMAIN items = 1 .. Len(t) /\ DOMAIN es = 1 .. Len(es)
      BY <2>2, SeqFacts DEF Joins
    <2>4. CASE i <= Len(t)
      <3>1. i \in DOMAIN items
        BY <2>3, <2>4
      <3>2. items[i].by = p
        BY <1>2, <3>1 DEF Adds, KeepsForeign
      <3>3. new[i].entry = items[i].entry
        BY <2>2, <2>3, <3>1 DEF Joins
      <3>4. QED
        BY <1>2, <3>1, <3>2, <3>3 DEF Marks
    <2>5. CASE i > Len(t)
      <3>1. PICK j \in DOMAIN es : i = Len(t) + j
        <4>1. i - Len(t) \in DOMAIN es /\ i = Len(t) + (i - Len(t))
          BY <2>3, <2>5
        <4>2. QED
          BY <4>1
      <3>2. s[i] = es[j]
        BY <2>2, <2>3, <3>1 DEF Joins
      <3>3. QED
        BY <1>2, <2>2, <3>2 DEF BelongAll
    <2>6. QED
      BY <2>3, <2>4, <2>5
  <1>3. QED
    BY <1>1, <1>2 DEF Adds

LEMMA RestBelongs ==
  ASSUME NEW f, NEW p, NEW more, IsSequence(more), Owns(p, more), Marks(f, more)
  PROVE  BelongAll(f, p, Rest(more))
  <1>1. PICK rest : rest = Rest(more)
    OBVIOUS
  <1>2. CASE more # <<>> /\ more[1].part = "tail"
    <2>1. \A i \in DOMAIN rest : i + 1 \in DOMAIN more /\ rest[i] = more[i + 1].entry
      BY <1>1, <1>2, RestListed
    <2>2. BelongAll(f, p, rest)
      BY <2>1 DEF BelongAll, Owns, Marks
    <2>3. QED
      BY <1>1, <2>2
  <1>3. CASE ~(more # <<>> /\ more[1].part = "tail")
    <2>1. rest = Entries(more)
      BY <1>1, <1>3, RestListed
    <2>2. DOMAIN rest = DOMAIN more /\ \A i \in DOMAIN more : rest[i] = more[i].entry
      BY <2>1, EntriesListed
    <2>3. BelongAll(f, p, rest)
      BY <2>2 DEF BelongAll, Owns, Marks
    <2>4. QED
      BY <1>1, <2>3
  <1>4. QED
    BY <1>2, <1>3

LEMMA WriteRestRetold ==
  ASSUME IInv, Written, Retold, NEW p \in Procs, WriteRest(p)
  PROVE  Retold'
  <1> SUFFICES ASSUME format # "pprof", ~unsettled PROVE Retold'
    BY DEF Retold, WriteRest
  <1>1. PICK f \in {"protobuf", "json"} : f = format
    BY OutputAssumption DEF IInv, Shape
  <1>2. /\ Root \in Procs /\ Path(p) = Root /\ IsSequence(file[Root]) /\ DOMAIN file = Procs /\ IsSequence(pending[p])
        /\ IsSequence(given[p]) /\ IsSequence(batch[p]) /\ DOMAIN given = Procs /\ DOMAIN batch = Procs
    BY DEF Procs, Path, Written, Stands, Listed
  <1>3. /\ pc[p] = "write" /\ format' = format /\ exporter' = exporter /\ unsettled' = unsettled
        /\ file' = [file EXCEPT ![Root] = Appended(@, pending[p])] /\ pending'[p] = <<>>
        /\ given' = [given EXCEPT ![p] = @ \o batch[p]] /\ batch' = [batch EXCEPT ![p] = <<>>]
        /\ \A q \in Procs \ {p} : pc'[q] = pc[q] /\ pending'[q] = pending[q]
    BY <1>2 DEF WriteRest, Done, Kept, IInv, Shape
  <1>4. PICK items, more, new, es, x, some, under, at, to :
          /\ items = file[Root] /\ more = pending[p] /\ new = Appended(items, more) /\ es = Rest(more)
          /\ x = exporter[p] /\ some = given[p] /\ under = batch[p] /\ at = "write" /\ to = pc'[p]
    OBVIOUS
  <1>5. /\ IsSequence(items) /\ IsSequence(more) /\ more # <<>> /\ Owns(p, more) /\ Continues(items, more, p)
    BY <1>2, <1>3, <1>4 DEF Written, Stands, Cut, Halves, RestIsNext, Owns
  <1>6. Marks(f, items) /\ Marks(f, more) /\ Recounts(f, p, items, more, x, some, under, at)
    BY <1>1, <1>3, <1>4 DEF Retold
  <1>7. Adds(p, new, items, es)
    BY <1>4, <1>5, AppendedAdds
  <1>8. BelongAll(f, p, es)
    BY <1>4, <1>5, <1>6, RestBelongs
  <1>9. Marks(f, new)
    BY <1>5, <1>6, <1>7, <1>8, AddsMarks
  <1>10. Joins(Entries(new), Entries(items), Rest(more)) /\ IsSequence(some) /\ IsSequence(under)
    BY <1>2, <1>4, <1>7 DEF Adds
  <1>11. PICK none, both : none = <<>> /\ both = some \o under
    OBVIOUS
  <1>12. Recounts(f, p, new, none, x, both, none, to)
    BY <1>4, <1>5, <1>6, <1>10, <1>11, RestRecounts
  <1>13. Recounts(f, p, new, pending'[p], exporter'[p], given'[p], batch'[p], pc'[p])
    <2>1. given'[p] = both /\ batch'[p] = none /\ pending'[p] = none /\ exporter'[p] = x /\ pc'[p] = to
      BY <1>2, <1>3, <1>4, <1>11
    <2>2. QED
      BY <1>12, <2>1
  <1>14. new = file'[Root] /\ Joins(Entries(new), Entries(items), es) /\ KeepsForeign(p, items, new) /\ OthersStay(p) /\ Stands
    BY <1>2, <1>3, <1>4, <1>7 DEF Adds, OthersStay, Written
  <1>15. Marks(f, pending'[p])
    BY <1>3 DEF Marks
  <1>16. QED
    BY <1>1, <1>3, <1>4, <1>8, <1>9, <1>13, <1>14, <1>15, RetoldWrites

LEMMA RetoldAlways == ASSUME Room PROVE Spec => []Retold
  <1>1. Init => Retold
    <2> SUFFICES ASSUME Init, format # "pprof" PROVE Retold
      BY DEF Retold
    <2>1. Root \in Procs /\ format \in {"protobuf", "json"}
      BY OutputAssumption DEF Init, Procs
    <2>2. PICK f \in {"protobuf", "json"} : f = format
      BY <2>1
    <2>3. PICK none : none = <<>>
      OBVIOUS
    <2>4. Twofold(none) /\ Marks(f, none)
      BY <2>3, SeqEmpty DEF Twofold, Marks
    <2>5. none \o none = none
      BY <2>3
    <2>6. ASSUME NEW p \in Procs
          PROVE  Marks(f, pending[p]) /\ Recounts(f, p, file[Root], pending[p], exporter[p], given[p], batch[p], pc[p])
      <3>1. Lasting(f, p, none, none, none \o none)
        BY <2>4, <2>3, EmptyLasting
      <3>2. PICK x, at : x = exporter[p] /\ at = pc[p]
        OBVIOUS
      <3>3. at = "unborn" /\ at \notin Working /\ at # "idle" /\ at # "commit"
        BY <3>2 DEF Init, Working
      <3>4. Recounts(f, p, none, none, x, none, none, at)
        BY <2>5, <3>1, <3>3 DEF Recounts
      <3>5. file[Root] = none /\ pending[p] = none /\ given[p] = none /\ batch[p] = none
        BY <2>1, <2>3 DEF Init
      <3>6. QED
        BY <2>2, <2>4, <3>2, <3>4, <3>5
    <2>7. file[Root] = none
      BY <2>1, <2>3 DEF Init
    <2>8. QED
      BY <2>2, <2>4, <2>6, <2>7 DEF Retold
  <1>2. IInv /\ Written /\ Retold /\ [Next]_vars => Retold'
    <2> SUFFICES ASSUME IInv, Written, Retold, [Next]_vars PROVE Retold'
      OBVIOUS
    <2>1. CASE UNCHANGED vars
      BY <2>1 DEF vars, Retold
    <2>2. CASE Next
      <3>1. \/ Advertise \/ \E c \in Kids, forked \in BOOLEAN : Launch(c, forked)
            \/ \E p \in Procs : CommitNothing(p) \/ Acquire(p) \/ AcquireFails(p) \/ WriteFails(p) \/ Kill(p)
            \/ \E p \in Procs : \/ Open(p) \/ \E b \in Batches : WriteBatch(p, b)
                                \/ \E dropped \in Losses : Finish(p, dropped)
                                \/ \E n \in 0 .. (Len(pending[p]) - 1) : WritePart(p, n)
                                \/ WriteRest(p)
        BY <2>2 DEF Next
      <3>2. ASSUME NEW p \in Procs, Open(p) PROVE Retold'
        BY <3>2, OpenRetold
      <3>3. ASSUME NEW p \in Procs, NEW b \in Batches, WriteBatch(p, b) PROVE Retold'
        BY <3>3, WriteBatchRetold
      <3>4. ASSUME NEW p \in Procs, NEW dropped \in Losses, Finish(p, dropped) PROVE Retold'
        BY <3>4, FinishRetold
      <3>5. ASSUME NEW p \in Procs, NEW n \in 0 .. (Len(pending[p]) - 1), WritePart(p, n) PROVE Retold'
        BY <3>5, WritePartRetold
      <3>6. ASSUME NEW p \in Procs, WriteRest(p) PROVE Retold'
        BY <3>6, WriteRestRetold
      <3>7. QED
        BY <3>1, <3>2, <3>3, <3>4, <3>5, <3>6, AsideRetold
    <2>3. QED
      BY <2>1, <2>2
  <1>3. QED
    BY <1>1, <1>2, WritingInvariant, PTL DEF Spec

---------------------------------------------------------------------------
(* What a reader takes from a file.                                         *)

\* The items before the first that is cut.
LEMMA TakenFirst ==
  ASSUME NEW path, NEW items, items = file[path], IsSequence(items)
  PROVE  \E whole : /\ Starts(whole, items) /\ Taken(path) = Entries(whole)
                    /\ Whole(path) => whole = items
  <1> DEFINE some == {j \in 1 .. Len(items) : items[j].part # "whole"}
             cut == IF some # {} THEN Min(some) ELSE 0
             whole == IF cut = 0 THEN items ELSE SubSeq(items, 1, cut - 1)
  <1>1. Taken(path) = Entries(whole)
    BY DEF Taken, SelectInSeq, Entries
  <1>2. Len(items) \in Nat /\ DOMAIN items = 1 .. Len(items)
    BY SeqFacts
  <1>3. cut = 0 \/ (some # {} /\ cut \in 1 .. Len(items))
    <2>1. CASE some = {}
      BY <2>1
    <2>2. CASE some # {}
      <3>1. some \subseteq Nat /\ some \subseteq 1 .. Len(items)
        OBVIOUS
      <3> HIDE DEF some
      <3>2. \E j \in some : \A k \in some : j <= k
        BY <2>2, <3>1, Least
      <3>3. Min(some) \in some
        BY <3>2 DEF Min
      <3>4. QED
        BY <2>2, <3>1, <3>3
    <2>3. QED
      BY <2>1, <2>2
  <1>4. Whole(path) => whole = items
    <2>1. Whole(path) => some = {}
      BY <1>2 DEF Whole
    <2>2. some = {} => whole = items
      OBVIOUS
    <2>3. QED
      BY <2>1, <2>2
  <1> HIDE DEF cut
  <1>5. Starts(whole, items)
    <2>1. CASE cut = 0
      BY <2>1, StartsItself
    <2>2. CASE cut \in 1 .. Len(items)
      <3>1. cut - 1 \in Nat /\ cut - 1 <= Len(items) /\ whole = SubSeq(items, 1, cut - 1)
        BY <1>2, <2>2
      <3>2. PICK n \in Nat : n = cut - 1
        BY <3>1
      <3>3. /\ IsSequence(SubSeq(items, 1, n)) /\ Len(SubSeq(items, 1, n)) = n
            /\ \A j \in 1 .. n : SubSeq(items, 1, n)[j] = items[j]
        BY <3>1, <3>2, SeqUpTo
      <3>4. QED
        BY <3>1, <3>2, <3>3 DEF Starts
    <2>3. QED
      BY <1>3, <2>1, <2>2
  <1> HIDE DEF whole
  <1>6. QED
    BY <1>1, <1>4, <1>5

\* What begins a sequence has a rest.
LEMMA StartsJoins ==
  ASSUME NEW s, NEW t, Starts(s, t)
  PROVE  \E more : Joins(t, s, more)
  <1>1. PICK n \in Nat, size \in Nat : n = Len(s) /\ size = Len(t) /\ n <= size
    BY SeqFacts DEF Starts
  <1>2. PICK more : more = SubSeq(t, n + 1, size)
    OBVIOUS
  <1>3. IsSequence(more) /\ Len(more) = size - n /\ \A i \in 1 .. (size - n) : more[i] = t[n + i]
    <2>1. IsSequence(t)
      BY DEF Starts
    <2>2. PICK m \in Nat : m = n + 1
      BY <1>1
    <2>3. /\ IsSequence(SubSeq(t, m, size)) /\ Len(SubSeq(t, m, size)) = IF m <= size THEN size - m + 1 ELSE 0
          /\ \A i \in DOMAIN SubSeq(t, m, size) : SubSeq(t, m, size)[i] = t[m + i - 1]
      BY <1>1, <2>1, <2>2, SeqSub
    <2>4. more = SubSeq(t, m, size)
      BY <1>2, <2>2
    <2>5. IsSequence(more) /\ Len(more) = IF m <= size THEN size - m + 1 ELSE 0
      BY <2>3, <2>4
    <2>6. Len(more) = size - n
      BY <1>1, <2>2, <2>5
    <2>7. DOMAIN more = 1 .. (size - n)
      BY <2>5, <2>6, SeqFacts
    <2>8. \A i \in 1 .. (size - n) : m + i - 1 = n + i
      BY <1>1, <2>2
    <2>9. QED
      BY <2>3, <2>4, <2>5, <2>6, <2>7, <2>8
  <1>4. Joins(t, s, more)
    BY <1>1, <1>3 DEF Starts, Joins
  <1>5. QED
    BY <1>4

LEMMA StartsIsPrefix ==
  ASSUME NEW s, NEW t, Starts(s, t)
  PROVE  IsPrefix(s, t)
  <1>1. IsSequence(s) /\ IsSequence(t) /\ Len(s) \in Nat /\ Len(s) <= Len(t) /\ \A i \in 1 .. Len(s) : s[i] = t[i]
    BY SeqFacts DEF Starts
  <1>2. PICK n \in Nat : n = Len(s)
    BY <1>1
  <1>3. SubSeq(s, 1, n) = SubSeq(t, 1, n)
    <2>1. PICK u, v : u = SubSeq(s, 1, n) /\ v = SubSeq(t, 1, n)
      OBVIOUS
    <2>2. IsSequence(u) /\ Len(u) = n /\ \A i \in 1 .. n : u[i] = s[i]
      BY <1>1, <1>2, <2>1, SeqUpTo
    <2>3. IsSequence(v) /\ Len(v) = n /\ \A i \in 1 .. n : v[i] = t[i]
      BY <1>1, <1>2, <2>1, SeqUpTo
    <2>4. \A i \in 1 .. Len(u) : u[i] = v[i]
      BY <1>1, <1>2, <2>2, <2>3
    <2>5. u = v
      BY <2>2, <2>3, <2>4, SameSequence
    <2>6. QED
      BY <2>1, <2>5
  <1>4. QED
    BY <1>1, <1>2, <1>3 DEF IsPrefix

\* For any number of processes, batches and runs: a reader of a JSON output finds
\* the array opened once, by its first entry (JsonExporter::create writes the
\* bracket, append does not, and nobody else writes before the output is created).
THEOREM HeadsFirst == Spec => []HeadFirst
  <1>1. ASSUME Written PROVE HeadFirst
    <2> SUFFICES ASSUME format = "json", ~unsettled, NEW i \in DOMAIN Taken(Root)
                 PROVE  Taken(Root)[i].type = "head" <=> i = 1
      BY DEF HeadFirst
    <2>1. PICK items : items = file[Root] /\ IsSequence(items)
      BY <1>1 DEF Written, Stands, Listed, Procs
    <2>2. PICK whole : Starts(whole, items) /\ Taken(Root) = Entries(whole)
      BY <2>1, TakenFirst
    <2>3. IsSequence(whole)
      BY <2>2 DEF Starts
    <2>4. i \in DOMAIN whole /\ Taken(Root)[i] = whole[i].entry
      BY <2>2, <2>3, EntriesListed
    <2>5. i \in DOMAIN items /\ whole[i] = items[i]
      BY <2>1, <2>2, <2>3, <2>4, SeqFacts DEF Starts
    <2>6. IsHead(items[i]) <=> i = 1
      BY <1>1, <2>1, <2>5 DEF Written, Headed
    <2>7. QED
      BY <2>4, <2>5, <2>6 DEF IsHead
  <1>2. QED
    BY <1>1, WritingInvariant, PTL

\* What is read of a file's beginning begins what is read of it.
LEMMA ReadFirst ==
  ASSUME NEW f \in {"protobuf", "json"}, NEW p, NEW items, IsSequence(items), NEW whole, Starts(whole, items)
  PROVE  Starts(Shown(f, ReaderOf(f, p, whole)), Shown(f, ReaderOf(f, p, items)))
  <1>1. PICK more : Joins(items, whole, more)
    BY StartsJoins
  <1>2. Joins(Entries(items), Entries(whole), Entries(more))
    BY <1>1, EntriesJoined
  <1>3. PICK o, r, s, t, u : /\ o = Origin(f) /\ s = Entries(items) /\ t = Entries(whole) /\ u = Entries(more)
                             /\ r = ReadOn(f, p, o, t)
    OBVIOUS
  <1>4. ReadOn(f, p, o, s) = ReadOn(f, p, r, u)
    BY <1>2, <1>3, ReadOnJoined
  <1>5. IsReader(f, r) /\ IsSequence(u)
    <2>1. IsSequence(whole)
      BY DEF Starts
    <2>2. r = ReaderOf(f, p, whole)
      BY <1>3 DEF ReaderOf
    <2>3. IsReader(f, r)
      BY <2>1, <2>2, ReaderReads
    <2>4. QED
      BY <1>2, <1>3, <2>3 DEF Joins
  <1>6. Starts(Shown(f, r), Shown(f, ReadOn(f, p, r, u)))
    BY <1>5, OnRead
  <1>7. QED
    BY <1>3, <1>4, <1>6 DEF ReaderOf

\* The reader of the specification is the one of p's entries.
LEMMA ReadOfShows ==
  ASSUME NEW f \in {"protobuf", "json"}, f = format, Written, Marks(f, file[Root]), NEW p \in Procs,
         NEW whole, Starts(whole, file[Root]), Taken(Root) = Entries(whole)
  PROVE  ReadOf(p) = Shown(f, ReaderOf(f, p, whole))
  <1>1. Path(p) = Root /\ Root \in Procs
    BY DEF Path, Procs
  <1>2. PICK entries : entries = Taken(Root) /\ entries = Entries(whole)
    OBVIOUS
  <1>3. IsSequence(whole) /\ IsSequence(file[Root])
    BY DEF Starts
  <1>4. IsSequence(entries) /\ DOMAIN entries = DOMAIN whole /\ \A i \in DOMAIN whole : entries[i] = whole[i].entry
    BY <1>2, <1>3, EntriesListed
  <1>5. Owned(f, entries)
    <2>1. ASSUME NEW i \in DOMAIN entries PROVE \E q \in Procs : Belongs(f, q, entries[i])
      <3>1. i \in DOMAIN file[Root] /\ whole[i] = file[Root][i]
        <4>1. /\ DOMAIN whole = 1 .. Len(whole) /\ DOMAIN file[Root] = 1 .. Len(file[Root])
              /\ Len(whole) \in Nat /\ Len(file[Root]) \in Nat
          BY <1>3, SeqFacts
        <4>2. QED
          BY <1>4, <2>1, <4>1 DEF Starts
      <3>2. file[Root][i].by \in Procs
        BY <1>1, <3>1 DEF Written, Stands, Placed
      <3>3. Belongs(f, file[Root][i].by, file[Root][i].entry)
        BY <3>1 DEF Marks
      <3>4. entries[i] = file[Root][i].entry
        BY <1>4, <2>1, <3>1
      <3>5. QED
        BY <3>2, <3>3, <3>4
    <2>2. QED
      BY <2>1 DEF Owned
  <1>6. CASE f = "json"
    <2>1. ReadOf(p) = ReadJson(entries, Pid(p))
      BY <1>1, <1>2, <1>6 DEF ReadOf
    <2>2. ReadOf(p) = ReadOn("json", p, <<>>, entries)
      BY <2>1, JsonRead
    <2>3. QED
      BY <1>2, <1>6, <2>2 DEF ReaderOf, Origin, Shown
  <1>7. CASE f = "protobuf"
    <2>1. ReadOf(p) = ReadProto(entries, Pid(p))
      BY <1>1, <1>2, <1>7 DEF ReadOf
    <2>2. Owned("protobuf", entries)
      BY <1>5, <1>7
    <2>3. ReadProto(entries, Pid(p)) = ReadOn("protobuf", p, NewReader, entries).events
      BY <1>4, <2>2, ReadersAgree
    <2>4. QED
      BY <1>2, <1>7, <2>1, <2>3 DEF ReaderOf, Origin, Shown
  <1>8. QED
    BY <1>6, <1>7

\* For any number of processes, batches, runs and faults, if no run has more threads
\* than a process has sequences for: what a reader of the output sees of a process is
\* where its committed events begin, and all of them unless an entry is cut
\* (ProtoExporter::write_batch describes a thread, a name and a track before the
\* events that refer to them, in the sequences of its slot; only a debug_assert
\* looks whether there is a sequence left for a thread).
THEOREM EventsReadBack == ASSUME Room PROVE Spec => []ReadBack
  <1>1. ASSUME IInv, Written, Retold PROVE ReadBack
    <2> SUFFICES ASSUME ~unsettled, NEW p \in Procs, format # "pprof"
                 PROVE  /\ IsPrefix(ReadOf(p), SeenOf(p, given[p] \o batch[p]))
                        /\ Whole(Path(p)) => ReadOf(p) = SeenOf(p, given[p])
      BY DEF ReadBack
    <2>1. PICK f \in {"protobuf", "json"} : f = format
      BY <1>1, OutputAssumption DEF IInv, Shape
    <2>2. PICK items : items = file[Root]
      OBVIOUS
    <2>3. IsSequence(items) /\ Path(p) = Root /\ Root \in Procs
      BY <1>1, <2>2 DEF Written, Stands, Listed, Path, Procs
    <2>4. PICK whole : Starts(whole, items) /\ Taken(Root) = Entries(whole) /\ (Whole(Root) => whole = items)
      BY <2>2, <2>3, TakenFirst
    <2>5. Marks(f, items) /\ Recounts(f, p, items, pending[p], exporter[p], given[p], batch[p], pc[p])
      BY <1>1, <2>1, <2>2 DEF Retold
    <2>6. ReadOf(p) = Shown(f, ReaderOf(f, p, whole))
      BY <1>1, <2>1, <2>2, <2>4, <2>5, ReadOfShows
    <2>7. PICK some, all : some = given[p] /\ all = given[p] \o batch[p]
      OBVIOUS
    <2>8. Lasting(f, p, items, some, all)
      BY <2>5, <2>7 DEF Recounts
    <2>9. Starts(ReadOf(p), SeenAll(f, p, all))
      <3>1. Starts(Shown(f, ReaderOf(f, p, whole)), Shown(f, ReaderOf(f, p, items)))
        BY <2>3, <2>4, ReadFirst
      <3>2. Starts(Shown(f, ReaderOf(f, p, items)), SeenAll(f, p, all))
        BY <2>8 DEF Lasting
      <3>3. QED
        BY <2>6, <3>1, <3>2, StartsOn
    <2>10. SeenOf(p, all) = SeenAll(f, p, all) /\ SeenOf(p, some) = SeenAll(f, p, some)
      BY <2>1, SeenIsBy
    <2>11. IsPrefix(ReadOf(p), SeenOf(p, all))
      BY <2>9, <2>10, StartsIsPrefix
    <2>12. ASSUME Whole(Path(p)) PROVE ReadOf(p) = SeenOf(p, some)
      <3>1. whole = items
        BY <2>3, <2>4, <2>12
      <3>2. Settled(p, items)
        BY <2>2, <2>3, <2>12 DEF Settled, Whole
      <3>3. QED
        BY <2>6, <2>8, <2>10, <3>1, <3>2 DEF Lasting
    <2>13. QED
      BY <2>7, <2>11, <2>12
  <1>2. Spec => []Retold
    BY RetoldAlways
  <1>3. QED
    BY <1>1, <1>2, WritingInvariant, PTL

---------------------------------------------------------------------------
(* The stack of a thread, by counting and by pushing and popping.           *)

LEMMA Greatest ==
  ASSUME NEW n \in Nat, NEW some, some \subseteq 1 .. n, some # {}
  PROVE  Max(some) \in some /\ \A k \in some : k <= Max(some)
  <1>1. PICK up : up = {n - j : j \in some}
    OBVIOUS
  <1>2. up \subseteq Nat /\ up # {}
    <2>1. \A j \in some : n - j \in Nat
      OBVIOUS
    <2>2. QED
      BY <1>1, <2>1
  <1>3. PICK m \in up : \A k \in up : m <= k
    BY <1>2, Least
  <1>4. PICK j \in some : m = n - j
    BY <1>1, <1>3
  <1>5. ASSUME NEW i \in some PROVE j >= i
    <2>1. n - i \in up
      BY <1>1
    <2>2. n - j <= n - i
      BY <1>3, <1>4, <2>1
    <2>3. i \in Nat /\ j \in Nat
      OBVIOUS
    <2>4. QED
      BY <2>2, <2>3
  <1>6. Max(some) \in some /\ \A k \in some : Max(some) >= k
    BY <1>5 DEF Max
  <1>7. PICK g : g = Max(some)
    OBVIOUS
  <1>8. g \in some /\ \A k \in some : k <= g
    BY <1>6, <1>7
  <1>9. QED
    BY <1>7, <1>8

LEMMA MovesStep ==
  ASSUME NEW events, NEW tid, NEW n \in Nat, NEW open \in BOOLEAN
  PROVE  /\ IsFiniteSet(Moves(events, tid, n, open)) /\ Cardinality(Moves(events, tid, n, open)) \in Nat
         /\ events[n + 1].tid = tid /\ OpensOf(events[n + 1]) = open =>
              Cardinality(Moves(events, tid, n + 1, open)) = Cardinality(Moves(events, tid, n, open)) + 1
         /\ ~(events[n + 1].tid = tid /\ OpensOf(events[n + 1]) = open) =>
              Cardinality(Moves(events, tid, n + 1, open)) = Cardinality(Moves(events, tid, n, open))
  <1>1. PICK some, more : some = Moves(events, tid, n, open) /\ more = Moves(events, tid, n + 1, open)
    OBVIOUS
  <1>2. \A k : k \in some <=> k \in 1 .. n /\ events[k].tid = tid /\ OpensOf(events[k]) = open
    BY <1>1 DEF Moves, OpensOf
  <1>3. \A k : k \in more <=> k \in 1 .. (n + 1) /\ events[k].tid = tid /\ OpensOf(events[k]) = open
    BY <1>1 DEF Moves, OpensOf
  <1>4. \A k : k \in 1 .. (n + 1) <=> k \in 1 .. n \/ k = n + 1
    OBVIOUS
  <1>5. some \subseteq 1 .. n /\ n + 1 \notin some
    BY <1>2
  <1>6. IsFiniteSet(some) /\ Cardinality(some) \in Nat
    <2>1. IsFiniteSet(1 .. n)
      BY FS_Interval
    <2>2. IsFiniteSet(some)
      BY <1>5, <2>1, FS_Subset
    <2>3. QED
      BY <2>2, FS_CardinalityType
  <1>7. CASE events[n + 1].tid = tid /\ OpensOf(events[n + 1]) = open
    <2>1. more = some \cup {n + 1}
      BY <1>2, <1>3, <1>4, <1>7
    <2>2. Cardinality(more) = Cardinality(some) + 1
      BY <1>5, <1>6, <2>1, FS_AddElement
    <2>3. QED
      BY <1>1, <1>6, <1>7, <2>2, Zenon
  <1>8. CASE ~(events[n + 1].tid = tid /\ OpensOf(events[n + 1]) = open)
    <2>1. more = some
      BY <1>2, <1>3, <1>4, <1>8
    <2>2. Cardinality(more) = Cardinality(some)
      BY <2>1
    <2>3. QED
      BY <1>1, <1>6, <1>8, <2>2, Zenon
  <1>9. QED
    BY <1>7, <1>8, Zenon

LEMMA DepthStep ==
  ASSUME NEW events, NEW tid, NEW n \in Nat
  PROVE  /\ Depth(events, tid, n) \in Int
         /\ events[n + 1].tid # tid => Depth(events, tid, n + 1) = Depth(events, tid, n)
         /\ events[n + 1].tid = tid /\ OpensOf(events[n + 1]) => Depth(events, tid, n + 1) = Depth(events, tid, n) + 1
         /\ events[n + 1].tid = tid /\ ~OpensOf(events[n + 1]) => Depth(events, tid, n + 1) = Depth(events, tid, n) - 1
  <1>1. PICK a, b : /\ a = Cardinality(Moves(events, tid, n, TRUE)) /\ a \in Nat
                    /\ b = Cardinality(Moves(events, tid, n, FALSE)) /\ b \in Nat
    BY MovesStep
  <1>2. a \in Nat /\ b \in Nat
    BY <1>1
  <1>3. PICK c, d : c = Cardinality(Moves(events, tid, n + 1, TRUE)) /\ d = Cardinality(Moves(events, tid, n + 1, FALSE))
    OBVIOUS
  <1>4. Depth(events, tid, n) = a - b /\ Depth(events, tid, n + 1) = c - d
    BY <1>1, <1>3 DEF Depth
  <1>5. OpensOf(events[n + 1]) \in BOOLEAN
    BY OpensBoolean
  <1>6. ASSUME events[n + 1].tid # tid PROVE Depth(events, tid, n + 1) = Depth(events, tid, n)
    <2>1. c = a /\ d = b
      BY <1>1, <1>3, <1>6, MovesStep
    <2>2. QED
      BY <1>4, <2>1
  <1>7. ASSUME events[n + 1].tid = tid, OpensOf(events[n + 1])
        PROVE  Depth(events, tid, n + 1) = Depth(events, tid, n) + 1
    <2>1. OpensOf(events[n + 1]) = TRUE /\ OpensOf(events[n + 1]) # FALSE
      BY <1>5, <1>7, Zenon
    <2>2. c = a + 1
      BY <1>1, <1>3, <1>7, <2>1, MovesStep
    <2>3. d = b
      BY <1>1, <1>3, <2>1, MovesStep
    <2>4. QED
      BY <1>4, <1>2, <2>2, <2>3
  <1>8. ASSUME events[n + 1].tid = tid, ~OpensOf(events[n + 1])
        PROVE  Depth(events, tid, n + 1) = Depth(events, tid, n) - 1
    <2>1. OpensOf(events[n + 1]) = FALSE /\ OpensOf(events[n + 1]) # TRUE
      BY <1>5, <1>8, Zenon
    <2>2. d = b + 1
      BY <1>1, <1>3, <1>8, <2>1, MovesStep
    <2>3. c = a
      BY <1>1, <1>3, <2>1, MovesStep
    <2>4. QED
      BY <1>4, <1>2, <2>2, <2>3
  <1>9. Depth(events, tid, n) \in Int
    BY <1>4, <1>2
  <1>10. QED
    BY <1>6, <1>7, <1>8, <1>9, Zenon

\* An event of tid that opens a frame, and tid has not been above it since.
Stays(events, tid, n, j) ==
    /\ j \in 1 .. n /\ events[j].tid = tid /\ OpensOf(events[j])
    /\ \A k \in j .. n : Depth(events, tid, k) >= Depth(events, tid, j)

LEMMA OpenFacts ==
  ASSUME NEW events, NEW tid, NEW n, NEW j
  PROVE  j \in StillOpen(events, tid, n) <=> Stays(events, tid, n, j)
  <1>1. OpensOf(events[j]) \in BOOLEAN
    BY OpensBoolean
  <1>2. j \in Moves(events, tid, n, TRUE) <=> j \in 1 .. n /\ events[j].tid = tid /\ OpensOf(events[j])
    BY <1>1, Zenon DEF Moves, OpensOf
  <1>3. QED
    BY <1>2 DEF StillOpen, Stays

LEMMA OpenAside ==
  ASSUME NEW events, NEW tid, NEW n \in Nat, events[n + 1].tid # tid
  PROVE  StillOpen(events, tid, n + 1) = StillOpen(events, tid, n)
  <1>1. Depth(events, tid, n + 1) = Depth(events, tid, n)
    BY DepthStep
  <1>2. ASSUME NEW j PROVE j \in StillOpen(events, tid, n + 1) <=> j \in StillOpen(events, tid, n)
    <2>1. j \in 1 .. (n + 1) /\ events[j].tid = tid <=> j \in 1 .. n /\ events[j].tid = tid
      OBVIOUS
    <2>2. CASE j \in 1 .. n
      <3>1. \A k : k \in j .. (n + 1) <=> k \in j .. n \/ k = n + 1
        BY <2>2
      <3>2. n \in j .. n
        BY <2>2
      <3>3. (\A k \in j .. (n + 1) : Depth(events, tid, k) >= Depth(events, tid, j))
              <=> (\A k \in j .. n : Depth(events, tid, k) >= Depth(events, tid, j))
        BY <1>1, <3>1, <3>2
      <3>4. Stays(events, tid, n + 1, j) <=> Stays(events, tid, n, j)
        BY <2>1, <3>3 DEF Stays
      <3>5. QED
        BY <3>4, OpenFacts
    <2>3. CASE j \notin 1 .. n
      <3>1. ~Stays(events, tid, n + 1, j) /\ ~Stays(events, tid, n, j)
        BY <2>1, <2>3 DEF Stays
      <3>2. QED
        BY <3>1, OpenFacts
    <2>4. QED
      BY <2>2, <2>3
  <1>3. QED
    BY <1>2

LEMMA OpenOneMore ==
  ASSUME NEW events, NEW tid, NEW n \in Nat, events[n + 1].tid = tid, OpensOf(events[n + 1])
  PROVE  StillOpen(events, tid, n + 1) = StillOpen(events, tid, n) \cup {n + 1}
  <1>1. PICK d \in Int : d = Depth(events, tid, n)
    BY DepthStep
  <1>2. Depth(events, tid, n + 1) = d + 1
    BY <1>1, DepthStep
  <1>3. n + 1 \in Nat
    OBVIOUS
  <1>4. ASSUME NEW j, j \in 1 .. n PROVE j \in StillOpen(events, tid, n + 1) <=> j \in StillOpen(events, tid, n)
    <2>1. \A k : k \in j .. (n + 1) <=> k \in j .. n \/ k = n + 1
      BY <1>4
    <2>2. n \in j .. n /\ j \in 1 .. (n + 1) /\ j \in Nat
      BY <1>4
    <2>3. PICK e \in Int : e = Depth(events, tid, j)
      BY <2>2, DepthStep
    <2>4. (\A k \in j .. (n + 1) : Depth(events, tid, k) >= e) <=> (\A k \in j .. n : Depth(events, tid, k) >= e)
      BY <1>1, <1>2, <2>1, <2>2, <2>3
    <2>5. Stays(events, tid, n + 1, j) <=> Stays(events, tid, n, j)
      BY <1>4, <2>2, <2>3, <2>4 DEF Stays
    <2>6. QED
      BY <2>5, OpenFacts
  <1>5. n + 1 \in StillOpen(events, tid, n + 1)
    <2>1. \A k \in (n + 1) .. (n + 1) : k = n + 1
      OBVIOUS
    <2>2. \A k \in (n + 1) .. (n + 1) : Depth(events, tid, k) >= Depth(events, tid, n + 1)
      BY <1>1, <1>2, <2>1
    <2>3. n + 1 \in 1 .. (n + 1)
      OBVIOUS
    <2>4. Stays(events, tid, n + 1, n + 1)
      BY <2>2, <2>3 DEF Stays
    <2>5. QED
      BY <2>4, OpenFacts
  <1>6. StillOpen(events, tid, n) \subseteq 1 .. n /\ StillOpen(events, tid, n + 1) \subseteq 1 .. (n + 1)
    BY OpenFacts DEF Stays
  <1>7. \A j : j \in 1 .. (n + 1) <=> j \in 1 .. n \/ j = n + 1
    OBVIOUS
  <1>8. QED
    BY <1>4, <1>5, <1>6, <1>7

IsLast(last, some) == last \in some /\ \A j \in some : j <= last

\* A close takes away the last of them, since tid is as deep as it was when it
\* opened that; all others are further up.
LEMMA LastIsDeepest ==
  ASSUME NEW events, NEW tid, NEW n \in Nat, NEW last, IsLast(last, StillOpen(events, tid, n))
  PROVE  Depth(events, tid, n) = Depth(events, tid, last)
  <1>1. last \in 1 .. n /\ \A k \in last .. n : Depth(events, tid, k) >= Depth(events, tid, last)
    <2>1. Stays(events, tid, n, last)
      BY OpenFacts DEF IsLast
    <2>2. QED
      BY <2>1 DEF Stays
  <1>2. PICK d \in Int : d = Depth(events, tid, last)
    BY <1>1, DepthStep
  <1> SUFFICES ASSUME Depth(events, tid, n) # d PROVE FALSE
    BY <1>2
  <1> DEFINE Past == {m \in 0 .. n : last <= n - m /\ Depth(events, tid, n - m) <= d}
  <1>3. n - last \in Past
    <2>1. n - last \in 0 .. n /\ n - (n - last) = last
      BY <1>1
    <2>2. QED
      BY <1>2, <2>1
  <1>4. PICK m \in Past : \A o \in Past : m <= o
    <2>1. Past \subseteq Nat /\ Past # {}
      BY <1>3
    <2> HIDE DEF Past
    <2>2. QED
      BY <2>1, Least
  <1>5. PICK k \in Nat : k = n - m /\ k \in last .. n /\ Depth(events, tid, k) <= d
    BY <1>1, <1>4
  <1>6. Depth(events, tid, k) = d
    BY <1>1, <1>2, <1>5, DepthStep
  <1>7. k # n /\ k + 1 \in last .. n /\ k + 1 > last
    BY <1>1, <1>5, <1>6
  <1>8. \A i \in (k + 1) .. n : Depth(events, tid, i) > d
    <2> SUFFICES ASSUME NEW i \in (k + 1) .. n, ~(Depth(events, tid, i) > d) PROVE FALSE
      OBVIOUS
    <2>1. Depth(events, tid, i) \in Int
      BY DepthStep
    <2>2. n - i \in 0 .. n /\ n - (n - i) = i /\ last <= i
      BY <1>1, <1>5
    <2>3. n - i \in Past
      BY <2>1, <2>2
    <2>4. m <= n - i
      BY <1>4, <2>3
    <2>5. QED
      BY <1>4, <1>5, <2>4
  <1>9. Depth(events, tid, k + 1) = d + 1 /\ events[k + 1].tid = tid /\ OpensOf(events[k + 1])
    <2>1. Depth(events, tid, k + 1) > d
      BY <1>7, <1>8
    <2>2. OpensOf(events[k + 1]) \in BOOLEAN
      BY OpensBoolean
    <2>3. events[k + 1].tid = tid
      BY <1>6, <2>1, DepthStep
    <2>4. OpensOf(events[k + 1])
      <3> SUFFICES ASSUME ~OpensOf(events[k + 1]) PROVE FALSE
        OBVIOUS
      <3>1. Depth(events, tid, k + 1) = d - 1
        BY <1>6, <2>3, DepthStep
      <3>2. QED
        BY <2>1, <3>1
    <2>5. Depth(events, tid, k + 1) = d + 1
      BY <1>6, <2>3, <2>4, DepthStep
    <2>6. QED
      BY <2>3, <2>4, <2>5, Zenon
  <1>10. k + 1 \in StillOpen(events, tid, n)
    <2>1. k + 1 \in 1 .. n
      BY <1>1, <1>7
    <2>2. \A i \in (k + 1) .. n : Depth(events, tid, i) >= Depth(events, tid, k + 1)
      <3> SUFFICES ASSUME NEW i \in (k + 1) .. n PROVE Depth(events, tid, i) >= d + 1
        BY <1>9
      <3>1. i \in Nat
        BY <1>5
      <3>2. Depth(events, tid, i) \in Int /\ Depth(events, tid, i) > d
        BY <1>8, <3>1, DepthStep
      <3>3. QED
        BY <3>2
    <2>3. Stays(events, tid, n, k + 1)
      BY <1>9, <2>1, <2>2 DEF Stays
    <2>4. QED
      BY <2>3, OpenFacts
  <1>11. QED
    BY <1>1, <1>7, <1>10 DEF IsLast

Closes(events, tid, n) == events[n + 1].tid = tid /\ ~OpensOf(events[n + 1])
OpenBut(events, tid, n, last) == StillOpen(events, tid, n + 1) = StillOpen(events, tid, n) \ {last}

LEMMA OpenOneLess ==
  ASSUME NEW events, NEW tid, NEW n \in Nat, Closes(events, tid, n),
         NEW last, IsLast(last, StillOpen(events, tid, n))
  PROVE  OpenBut(events, tid, n, last)
  <1>0. events[n + 1].tid = tid /\ ~OpensOf(events[n + 1])
    BY DEF Closes
  <1>1. PICK d \in Int : d = Depth(events, tid, n)
    BY DepthStep
  <1>2. Depth(events, tid, n + 1) = d - 1
    BY <1>0, <1>1, DepthStep
  <1>3. Depth(events, tid, last) = d /\ last \in 1 .. n /\ OpensOf(events[last]) /\ events[last].tid = tid
    <2>1. Stays(events, tid, n, last)
      BY OpenFacts DEF IsLast
    <2>2. Depth(events, tid, last) = d
      BY <1>1, LastIsDeepest
    <2>3. QED
      BY <2>1, <2>2 DEF Stays
  <1>4. ~Stays(events, tid, n + 1, last)
    <2>1. n + 1 \in last .. (n + 1)
      BY <1>3
    <2>2. ~(Depth(events, tid, n + 1) >= Depth(events, tid, last))
      BY <1>1, <1>2, <1>3
    <2>3. QED
      BY <2>1, <2>2 DEF Stays
  <1>5. ~Stays(events, tid, n + 1, n + 1)
    BY <1>0 DEF Stays
  <1>6. ASSUME NEW j, j \in 1 .. n, j # last PROVE Stays(events, tid, n + 1, j) <=> Stays(events, tid, n, j)
    <2>1. \A k : k \in j .. (n + 1) <=> k \in j .. n \/ k = n + 1
      BY <1>6
    <2>2. j \in 1 .. (n + 1)
      BY <1>6
    <2>3. Stays(events, tid, n, j) => Depth(events, tid, n + 1) >= Depth(events, tid, j)
      <3> SUFFICES ASSUME Stays(events, tid, n, j) PROVE Depth(events, tid, n + 1) >= Depth(events, tid, j)
        OBVIOUS
      <3>1. j <= last
        BY OpenFacts DEF IsLast
      <3>2. PICK m \in Nat : m + 1 = last /\ m \in j .. n
        <4>1. last - 1 \in Nat /\ (last - 1) + 1 = last /\ last - 1 \in j .. n
          BY <1>3, <1>6, <3>1
        <4>2. QED
          BY <4>1
      <3>3. Depth(events, tid, m) >= Depth(events, tid, j)
        BY <3>2 DEF Stays
      <3>4. Depth(events, tid, last) = Depth(events, tid, m) + 1
        BY <1>3, <3>2, DepthStep
      <3>5. Depth(events, tid, m) \in Int /\ Depth(events, tid, j) \in Int
        BY <1>6, <3>2, DepthStep
      <3>6. QED
        BY <1>1, <1>2, <1>3, <3>3, <3>4, <3>5
    <2>4. QED
      BY <1>6, <2>1, <2>2, <2>3 DEF Stays
  <1>7. ASSUME NEW j PROVE j \in StillOpen(events, tid, n + 1) <=> j \in StillOpen(events, tid, n) /\ j # last
    <2>1. CASE j = last
      BY <1>4, <2>1, OpenFacts
    <2>2. CASE j \in 1 .. n /\ j # last
      BY <1>6, <2>2, OpenFacts
    <2>3. CASE j \notin 1 .. n
      <3>1. ~Stays(events, tid, n, j)
        BY <2>3 DEF Stays
      <3>2. ~Stays(events, tid, n + 1, j)
        <4>1. CASE j = n + 1
          BY <1>5, <4>1
        <4>2. CASE j # n + 1
          <5>1. j \notin 1 .. (n + 1)
            BY <2>3, <4>2
          <5>2. QED
            BY <5>1 DEF Stays
        <4>3. QED
          BY <4>1, <4>2
      <3>3. QED
        BY <3>1, <3>2, OpenFacts
    <2>4. QED
      BY <1>3, <2>1, <2>2, <2>3
  <1>8. QED
    BY <1>7 DEF OpenBut

LEMMA OpenNoMore ==
  ASSUME NEW events, NEW tid, NEW n \in Nat, events[n + 1].tid = tid, ~OpensOf(events[n + 1]),
         StillOpen(events, tid, n) = {}
  PROVE  StillOpen(events, tid, n + 1) = {}
  <1> SUFFICES ASSUME NEW j \in StillOpen(events, tid, n + 1) PROVE FALSE
    OBVIOUS
  <1>1. Stays(events, tid, n + 1, j)
    BY OpenFacts
  <1>2. j # n + 1
    BY <1>1 DEF Stays
  <1>3. j \in 1 .. n /\ \A k \in j .. n : k \in j .. (n + 1)
    BY <1>1, <1>2 DEF Stays
  <1>4. Stays(events, tid, n, j)
    BY <1>1, <1>3 DEF Stays
  <1>5. QED
    BY <1>4, OpenFacts

\* What stands at some indices.
Collects(events, some, n, g) ==
    g = [k \in 0 .. n |-> IF k = 0 THEN <<>>
                          ELSE IF k \in some THEN Append(g[k - 1], CodeIdOf(events[k].word)) ELSE g[k - 1]]

LEMMA CollectsExists ==
  ASSUME NEW events, NEW some, NEW size \in Nat
  PROVE  \E g : Collects(events, some, size, g)
  <1> DEFINE T == {n \in 0 .. size : \E g : Collects(events, some, n, g)}
             More(k, c) == IF k \in some THEN Append(c, CodeIdOf(events[k].word)) ELSE c
  <1>1. 0 \in T
    <2> DEFINE g == [k \in 0 .. 0 |-> <<>>]
    <2>1. g = [k \in 0 .. 0 |-> IF k = 0 THEN <<>> ELSE More(k, g[k - 1])]
      OBVIOUS
    <2> HIDE DEF g
    <2>2. Collects(events, some, 0, g)
      BY <2>1 DEF Collects
    <2>3. QED
      BY <2>2
  <1>2. ASSUME NEW n \in 1 .. size, n - 1 \in T PROVE n \in T
    <2>1. PICK g : Collects(events, some, n - 1, g)
      BY <1>2
    <2>2. g = [k \in 0 .. (n - 1) |-> IF k = 0 THEN <<>> ELSE More(k, g[k - 1])]
      BY <2>1 DEF Collects
    <2> DEFINE h == [k \in 0 .. n |-> IF k < n THEN g[k] ELSE More(n, g[n - 1])]
    <2>3. ASSUME NEW k \in 0 .. n PROVE h[k] = IF k = 0 THEN <<>> ELSE More(k, h[k - 1])
      <3> HIDE DEF More
      <3>1. CASE k = 0
        BY <2>2, <3>1
      <3>2. CASE k # 0 /\ k < n
        <4>1. g[k] = More(k, g[k - 1])
          BY <2>2, <3>2
        <4>2. h[k] = g[k] /\ h[k - 1] = g[k - 1]
          BY <3>2
        <4> HIDE DEF h
        <4>3. QED
          BY <3>2, <4>1, <4>2
      <3>3. CASE k = n
        <4>1. h[k] = More(n, g[n - 1]) /\ h[k - 1] = g[k - 1]
          BY <3>3
        <4> HIDE DEF h
        <4>2. QED
          BY <3>3, <4>1
      <3>4. QED
        BY <3>1, <3>2, <3>3
    <2>4. h = [k \in 0 .. n |-> IF k = 0 THEN <<>> ELSE More(k, h[k - 1])]
      <3> HIDE DEF More
      <3>1. QED
        BY <2>3
    <2> HIDE DEF h
    <2>5. Collects(events, some, n, h)
      BY <2>4 DEF Collects
    <2>6. QED
      BY <2>5
  <1>3. size \in T
    <2> HIDE DEF T
    <2>1. T \subseteq Nat
      BY DEF T
    <2>2. QED
      BY <1>1, <1>2, <2>1, NatSteps
  <1>4. QED
    BY <1>3

LEMMA CodesAtIs ==
  ASSUME NEW events, NEW some, NEW n \in Nat
  PROVE  \E g : Collects(events, some, n, g) /\ CodesAt(events, some, n) = g[n]
  <1> DEFINE g == CHOOSE g : Collects(events, some, n, g)
  <1>1. Collects(events, some, n, g)
    BY CollectsExists
  <1>2. CodesAt(events, some, n) = g[n]
    BY DEF CodesAt, Collects
  <1> HIDE DEF g
  <1>3. QED
    BY <1>1, <1>2

\* Up to n both have the same at the same indices.
SameAt(events, some, other, same, n) ==
    \A k \in 1 .. n : events[k] = other[k] /\ (k \in some <=> k \in same)

LEMMA CollectsAgree ==
  ASSUME NEW events, NEW some, NEW n \in Nat, NEW g, Collects(events, some, n, g),
         NEW other, NEW same, NEW m \in Nat, m <= n, NEW h, Collects(other, same, m, h),
         SameAt(events, some, other, same, m)
  PROVE  g[m] = h[m]
  <1> DEFINE T == {k \in 0 .. m : g[k] = h[k]}
  <1>1. 0 \in T
    BY DEF Collects
  <1>2. ASSUME NEW k \in 1 .. m, k - 1 \in T PROVE k \in T
    <2>1. k \in 1 .. n /\ k \in 0 .. n /\ k \in 0 .. m /\ k # 0 /\ k \in Nat
      OBVIOUS
    <2>2. g[k] = IF k \in some THEN Append(g[k - 1], CodeIdOf(events[k].word)) ELSE g[k - 1]
      BY <2>1 DEF Collects
    <2>3. h[k] = IF k \in same THEN Append(h[k - 1], CodeIdOf(other[k].word)) ELSE h[k - 1]
      BY <2>1 DEF Collects
    <2>4. events[k] = other[k] /\ (k \in some <=> k \in same)
      BY DEF SameAt
    <2>5. g[k - 1] = h[k - 1]
      BY <1>2
    <2>6. g[k] = h[k]
      BY <2>2, <2>3, <2>4, <2>5
    <2>7. QED
      BY <2>1, <2>6
  <1>3. m \in T
    <2>1. T \subseteq Nat
      OBVIOUS
    <2> HIDE DEF T
    <2>2. QED
      BY <1>1, <1>2, <2>1, NatSteps
  <1>4. QED
    BY <1>3

LEMMA CodesSame ==
  ASSUME NEW events, NEW some, NEW other, NEW same, NEW n \in Nat, SameAt(events, some, other, same, n)
  PROVE  CodesAt(events, some, n) = CodesAt(other, same, n)
  <1>1. PICK g : Collects(events, some, n, g) /\ CodesAt(events, some, n) = g[n]
    BY CodesAtIs
  <1>2. PICK h : Collects(other, same, n, h) /\ CodesAt(other, same, n) = h[n]
    BY CodesAtIs
  <1>3. n <= n
    OBVIOUS
  <1>4. QED
    BY <1>1, <1>2, <1>3, CollectsAgree

LEMMA CodesOne ==
  ASSUME NEW events, NEW some, NEW n \in Nat
  PROVE  /\ CodesAt(events, some, 0) = <<>>
         /\ n + 1 \in some => CodesAt(events, some, n + 1) = Append(CodesAt(events, some, n), CodeIdOf(events[n + 1].word))
         /\ n + 1 \notin some => CodesAt(events, some, n + 1) = CodesAt(events, some, n)
  <1>1. PICK h : Collects(events, some, n, h) /\ CodesAt(events, some, n) = h[n]
    BY CodesAtIs
  <1>2. PICK l \in Nat : l = n + 1 /\ n <= l
    OBVIOUS
  <1>3. PICK g : Collects(events, some, l, g) /\ CodesAt(events, some, l) = g[l]
    BY CodesAtIs
  <1>4. g[n] = h[n]
    <2>1. SameAt(events, some, events, some, n)
      BY DEF SameAt
    <2>2. QED
      BY <1>1, <1>2, <1>3, <2>1, CollectsAgree
  <1>5. g[l] = IF l \in some THEN Append(g[n], CodeIdOf(events[l].word)) ELSE g[n]
    <2>1. l \in 0 .. l /\ l # 0 /\ l - 1 = n
      BY <1>2
    <2>2. QED
      BY <1>3, <2>1 DEF Collects
  <1>6. CodesAt(events, some, 0) = <<>>
    <2>1. PICK zero \in Nat : zero = 0
      OBVIOUS
    <2>2. PICK f : Collects(events, some, zero, f) /\ CodesAt(events, some, zero) = f[zero]
      BY CodesAtIs
    <2>3. f[zero] = <<>>
      BY <2>1, <2>2 DEF Collects
    <2>4. QED
      BY <2>1, <2>2, <2>3
  <1>7. QED
    BY <1>1, <1>2, <1>3, <1>4, <1>5, <1>6

LEMMA CodesBeyond ==
  ASSUME NEW events, NEW some, NEW m \in Nat, NEW n \in Nat, m <= n, \A k \in (m + 1) .. n : k \notin some
  PROVE  CodesAt(events, some, n) = CodesAt(events, some, m)
  <1> DEFINE T == {k \in Nat : m + k <= n => CodesAt(events, some, m + k) = CodesAt(events, some, m)}
  <1>1. 0 \in T
    OBVIOUS
  <1>2. ASSUME NEW k \in 1 .. (n - m), k - 1 \in T PROVE k \in T
    <2>1. PICK l \in Nat : l = m + (k - 1) /\ l + 1 = m + k /\ l <= n /\ l + 1 \in (m + 1) .. n
      <3>1. m + (k - 1) \in Nat /\ m + (k - 1) + 1 = m + k /\ m + (k - 1) <= n /\ m + (k - 1) + 1 \in (m + 1) .. n
        OBVIOUS
      <3>2. QED
        BY <3>1
    <2>2. CodesAt(events, some, l) = CodesAt(events, some, m)
      BY <1>2, <2>1
    <2>3. CodesAt(events, some, l + 1) = CodesAt(events, some, l)
      BY <2>1, CodesOne
    <2>4. QED
      BY <2>1, <2>2, <2>3
  <1>3. n - m \in T
    <2>1. T \subseteq Nat /\ n - m \in Nat
      OBVIOUS
    <2> HIDE DEF T
    <2>2. QED
      BY <1>1, <1>2, <2>1, NatSteps
  <1>4. m + (n - m) = n
    OBVIOUS
  <1>5. QED
    BY <1>3, <1>4

LEMMA CodesListed ==
  ASSUME NEW events, NEW some, NEW n \in Nat
  PROVE  IsSequence(CodesAt(events, some, n))
  <1> DEFINE T == {k \in Nat : IsSequence(CodesAt(events, some, k))}
  <1>1. 0 \in T
    <2>1. PICK none : none = CodesAt(events, some, 0)
      OBVIOUS
    <2>2. none = <<>>
      BY <2>1, CodesOne
    <2>3. QED
      BY <2>1, <2>2, SeqEmpty
  <1>2. ASSUME NEW k \in 1 .. n, k - 1 \in T PROVE k \in T
    <2>1. PICK l \in Nat : l + 1 = k /\ l = k - 1
      <3>1. k - 1 \in Nat /\ (k - 1) + 1 = k
        OBVIOUS
      <3>2. QED
        BY <3>1
    <2>2. PICK c, d : c = CodesAt(events, some, l) /\ d = CodesAt(events, some, l + 1)
      OBVIOUS
    <2>3. IsSequence(c)
      BY <1>2, <2>1, <2>2
    <2>4. d = c \/ d = Append(c, CodeIdOf(events[l + 1].word))
      BY <2>2, CodesOne
    <2>5. IsSequence(d)
      BY <2>3, <2>4, SeqAppend
    <2>6. QED
      BY <2>1, <2>2, <2>5
  <1>3. n \in T
    <2>1. T \subseteq Nat
      OBVIOUS
    <2> HIDE DEF T
    <2>2. QED
      BY <1>1, <1>2, <2>1, NatSteps
  <1>4. QED
    BY <1>3

LEMMA FrontOfAppend ==
  ASSUME NEW s, IsSequence(s), NEW e
  PROVE  Append(s, e) # <<>> /\ Front(Append(s, e)) = s
  <1>1. PICK t : t = Append(s, e)
    OBVIOUS
  <1>2. IsSequence(t) /\ Len(t) = Len(s) + 1 /\ t # <<>> /\ \A i \in 1 .. Len(s) : t[i] = s[i]
    BY <1>1, SeqAppend
  <1>3. PICK f : f = Front(t)
    OBVIOUS
  <1>4. IsSequence(f) /\ Len(f) = Len(t) - 1 /\ \A i \in DOMAIN f : f[i] = t[i]
    BY <1>2, <1>3, SeqFront
  <1>5. Len(s) \in Nat /\ Len(f) = Len(s) /\ DOMAIN f = 1 .. Len(s)
    BY <1>2, <1>4, SeqFacts
  <1>6. \A i \in 1 .. Len(f) : f[i] = s[i]
    BY <1>2, <1>4, <1>5
  <1>7. f = s
    BY <1>4, <1>5, <1>6, SameSequence
  <1>8. QED
    BY <1>1, <1>2, <1>3, <1>7

LEMMA MovedIs ==
  ASSUME NEW stack, NEW ev
  PROVE  /\ OpensOf(ev) => Moved(stack, ev) = Append(stack, CodeIdOf(ev.word))
         /\ ~OpensOf(ev) => Moved(stack, ev) = IF stack = <<>> THEN stack ELSE Front(stack)
  <1>1. ASSUME OpensOf(ev) PROVE Moved(stack, ev) = Append(stack, CodeIdOf(ev.word))
    BY <1>1 DEF Moved, OpensOf
  <1>2. ASSUME ~OpensOf(ev), stack = <<>> PROVE Moved(stack, ev) = stack
    BY <1>2 DEF Moved, OpensOf
  <1>3. ASSUME ~OpensOf(ev), stack # <<>> PROVE Moved(stack, ev) = Front(stack)
    BY <1>3 DEF Moved, OpensOf
  <1>4. QED
    BY <1>1, <1>2, <1>3

\* The reference moves as the exporter's stack does.
LEMMA StackMoves ==
  ASSUME NEW events, NEW tid, NEW n \in Nat, events[n + 1].tid = tid
  PROVE  StackAfter(events, tid, n + 1) = Moved(StackAfter(events, tid, n), events[n + 1])
  <1>1. PICK some, more : some = StillOpen(events, tid, n) /\ more = StillOpen(events, tid, n + 1)
    OBVIOUS
  <1>2. PICK old, new : old = StackAfter(events, tid, n) /\ new = StackAfter(events, tid, n + 1)
    OBVIOUS
  <1>3. old = CodesAt(events, some, n) /\ new = CodesAt(events, more, n + 1) /\ IsSequence(old)
    <2>1. old = CodesAt(events, some, n) /\ new = CodesAt(events, more, n + 1)
      BY <1>1, <1>2 DEF StackAfter
    <2>2. QED
      BY <2>1, CodesListed
  <1>4. some \subseteq 1 .. n
    BY <1>1, OpenFacts DEF Stays
  <1>5. CASE OpensOf(events[n + 1])
    <2>1. more = some \cup {n + 1}
      BY <1>1, <1>5, OpenOneMore
    <2>2. SameAt(events, more, events, some, n)
      BY <1>4, <2>1 DEF SameAt
    <2>3. CodesAt(events, more, n) = old
      BY <1>3, <2>2, CodesSame
    <2>4. new = Append(old, CodeIdOf(events[n + 1].word))
      BY <1>3, <2>1, <2>3, CodesOne
    <2>5. QED
      BY <1>2, <1>5, <2>4, MovedIs
  <1>6. CASE ~OpensOf(events[n + 1]) /\ some = {}
    <2>1. more = {}
      BY <1>1, <1>6, OpenNoMore
    <2>2. PICK zero \in Nat : zero = 0
      OBVIOUS
    <2>3. CodesAt(events, some, n) = CodesAt(events, some, zero)
      BY <1>6, <2>2, CodesBeyond
    <2>4. n + 1 \in Nat
      OBVIOUS
    <2>5. CodesAt(events, more, n + 1) = CodesAt(events, more, zero)
      BY <2>1, <2>2, <2>4, CodesBeyond
    <2>6. old = <<>> /\ new = <<>>
      BY <1>3, <2>2, <2>3, <2>5, CodesOne
    <2>7. QED
      BY <1>2, <1>6, <2>6, MovedIs
  <1>7. CASE ~OpensOf(events[n + 1]) /\ some # {}
    <2>1. PICK last \in some : \A j \in some : j <= last
      BY <1>4, <1>7, Greatest
    <2>2. more = some \ {last}
      <3>1. IsLast(last, StillOpen(events, tid, n))
        BY <1>1, <2>1 DEF IsLast
      <3>2. Closes(events, tid, n)
        BY <1>7 DEF Closes
      <3>3. OpenBut(events, tid, n, last)
        BY <3>1, <3>2, OpenOneLess
      <3>4. QED
        BY <1>1, <3>3 DEF OpenBut
    <2>3. PICK m \in Nat : m + 1 = last /\ m + 1 <= n /\ m <= n
      <3>1. last - 1 \in Nat /\ (last - 1) + 1 = last /\ (last - 1) + 1 <= n /\ last - 1 <= n
        BY <1>4, <2>1
      <3>2. QED
        BY <3>1
    <2>4. PICK below : below = CodesAt(events, some, m)
      OBVIOUS
    <2>5. old = Append(below, CodeIdOf(events[last].word))
      <3>1. \A k \in (m + 1 + 1) .. n : k \notin some
        BY <2>1, <2>3
      <3>2. PICK l \in Nat : l = m + 1 /\ l <= n /\ l \in some
        BY <2>1, <2>3
      <3>3. CodesAt(events, some, n) = CodesAt(events, some, l)
        BY <3>1, <3>2, CodesBeyond
      <3>4. CodesAt(events, some, m + 1) = Append(below, CodeIdOf(events[m + 1].word))
        BY <2>1, <2>3, <2>4, CodesOne
      <3>5. QED
        BY <1>3, <2>3, <3>2, <3>3, <3>4
    <2>6. new = below
      <3>1. ASSUME NEW k \in (m + 1) .. (n + 1) PROVE k \notin more
        <4>1. k \in Nat /\ last \in Nat /\ k >= last
          BY <1>4, <2>1, <2>3
        <4>2. k \in some => k <= last
          BY <2>1
        <4>3. QED
          BY <2>2, <4>1, <4>2
      <3>2. n + 1 \in Nat /\ m <= n + 1
        BY <2>3
      <3>3. CodesAt(events, more, n + 1) = CodesAt(events, more, m)
        BY <3>1, <3>2, CodesBeyond
      <3>4. SameAt(events, more, events, some, m)
        <4>1. \A k \in 1 .. m : k # last
          BY <2>3
        <4>2. QED
          BY <2>2, <4>1 DEF SameAt
      <3>5. CodesAt(events, more, m) = below
        BY <2>4, <3>4, CodesSame
      <3>6. QED
        BY <1>3, <3>3, <3>5
    <2>7. IsSequence(below)
      BY <2>4, CodesListed
    <2>8. old # <<>> /\ Front(old) = below
      BY <2>5, <2>7, FrontOfAppend
    <2>9. QED
      BY <1>2, <1>7, <2>6, <2>8, MovedIs
  <1>8. QED
    BY <1>5, <1>6, <1>7

LEMMA StackStands ==
  ASSUME NEW events, NEW tid, NEW n \in Nat, events[n + 1].tid # tid
  PROVE  StackAfter(events, tid, n + 1) = StackAfter(events, tid, n)
  <1>1. PICK some : some = StillOpen(events, tid, n) /\ some = StillOpen(events, tid, n + 1)
    BY OpenAside
  <1>2. n + 1 \notin some
    BY <1>1, OpenFacts DEF Stays
  <1>3. CodesAt(events, some, n + 1) = CodesAt(events, some, n)
    BY <1>2, CodesOne
  <1>4. QED
    BY <1>1, <1>3 DEF StackAfter

\* It depends on the events so far only.
Agreeing(events, other, n) == \A k \in 1 .. n : events[k] = other[k]

LEMMA StackAgrees ==
  ASSUME NEW events, NEW other, NEW n \in Nat, Agreeing(events, other, n), NEW tid
  PROVE  StackAfter(events, tid, n) = StackAfter(other, tid, n)
  <1> DEFINE T == {k \in Nat : k <= n => StackAfter(events, tid, k) = StackAfter(other, tid, k)}
  <1>1. 0 \in T
    <2>1. PICK zero \in Nat : zero = 0
      OBVIOUS
    <2>2. StackAfter(events, tid, zero) = <<>> /\ StackAfter(other, tid, zero) = <<>>
      BY <2>1, CodesOne DEF StackAfter
    <2>3. QED
      BY <2>1, <2>2
  <1>2. ASSUME NEW k \in 1 .. n, k - 1 \in T PROVE k \in T
    <2>1. PICK l \in Nat : l + 1 = k /\ l = k - 1 /\ l <= n
      <3>1. k - 1 \in Nat /\ (k - 1) + 1 = k /\ k - 1 <= n
        OBVIOUS
      <3>2. QED
        BY <3>1
    <2>2. StackAfter(events, tid, l) = StackAfter(other, tid, l) /\ events[l + 1] = other[l + 1]
      BY <1>2, <2>1 DEF Agreeing
    <2>3. CASE events[l + 1].tid = tid
      BY <2>1, <2>2, <2>3, StackMoves
    <2>4. CASE events[l + 1].tid # tid
      BY <2>1, <2>2, <2>4, StackStands
    <2>5. QED
      BY <2>3, <2>4
  <1>3. n \in T
    <2>1. T \subseteq Nat
      OBVIOUS
    <2> HIDE DEF T
    <2>2. QED
      BY <1>1, <1>2, <2>1, NatSteps
  <1>4. QED
    BY <1>3

LEMMA StackOfNobody ==
  ASSUME NEW events, NEW n \in Nat, NEW tid, \A k \in 1 .. n : events[k].tid # tid
  PROVE  StackAfter(events, tid, n) = <<>>
  <1>1. StillOpen(events, tid, n) = {}
    BY OpenFacts DEF Stays
  <1>2. PICK some, zero : some = StillOpen(events, tid, n) /\ zero = 0 /\ zero \in Nat
    OBVIOUS
  <1>3. CodesAt(events, some, n) = CodesAt(events, some, zero)
    BY <1>1, <1>2, CodesBeyond
  <1>4. QED
    BY <1>2, <1>3, CodesOne DEF StackAfter

---------------------------------------------------------------------------
(* The time spent in a stack.                                               *)

Timed(events) == \A k \in 1 .. Len(events) : events[k].ts \in Int

EarlierOf(events, tid, n) == {m \in 1 .. n : events[m].tid = tid}
LastOf(events, tid, n) == Max(EarlierOf(events, tid, n))

LEMMA LastIsOne ==
  ASSUME NEW events, NEW tid, NEW n \in Nat, EarlierOf(events, tid, n) # {}
  PROVE  LastOf(events, tid, n) \in 1 .. n /\ events[LastOf(events, tid, n)].tid = tid
  <1>1. PICK some : some = EarlierOf(events, tid, n)
    OBVIOUS
  <1>2. some \subseteq 1 .. n /\ some # {}
    BY <1>1 DEF EarlierOf
  <1>3. Max(some) \in some
    BY <1>2, Greatest
  <1>4. QED
    BY <1>1, <1>3 DEF EarlierOf, LastOf

LEMMA SpentIs ==
  ASSUME NEW events, Timed(events), Len(events) \in Nat, NEW n \in Nat, n + 1 <= Len(events)
  PROVE  LET tid == events[n + 1].tid
             last == events[LastOf(events, tid, n)].ts
         IN /\ Spent(events, n + 1) =
                 IF EarlierOf(events, tid, n) # {} /\ events[n + 1].ts > last THEN events[n + 1].ts - last ELSE 0
            /\ Spent(events, n + 1) \in Nat
  <1>1. (n + 1) - 1 = n
    OBVIOUS
  <1>2. PICK tid, last, now : tid = events[n + 1].tid /\ last = events[LastOf(events, tid, n)].ts /\ now = events[n + 1].ts
    OBVIOUS
  <1>3. Spent(events, n + 1) = IF EarlierOf(events, tid, n) # {} /\ now > last THEN now - last ELSE 0
    BY <1>1, <1>2 DEF Spent, EarlierOf, LastOf
  <1>4. now \in Int
    BY <1>2 DEF Timed
  <1>5. EarlierOf(events, tid, n) # {} => last \in Int
    <2> SUFFICES ASSUME EarlierOf(events, tid, n) # {} PROVE last \in Int
      OBVIOUS
    <2>1. LastOf(events, tid, n) \in 1 .. n
      BY LastIsOne
    <2>2. QED
      BY <1>2, <2>1 DEF Timed
  <1>6. Spent(events, n + 1) \in Nat
    BY <1>3, <1>4, <1>5
  <1>7. QED
    BY <1>2, <1>3, <1>6

LEMMA EarlierAgree ==
  ASSUME NEW events, NEW other, NEW n \in Nat, Agreeing(events, other, n), NEW tid
  PROVE  EarlierOf(events, tid, n) = EarlierOf(other, tid, n)
  BY DEF Agreeing, EarlierOf

\* What an event adds to the time depends on the events so far only.
LEMMA AddedAgrees ==
  ASSUME NEW events, NEW other, NEW n \in Nat, Agreeing(events, other, n + 1)
  PROVE  StackBefore(events, n + 1) = StackBefore(other, n + 1) /\ Spent(events, n + 1) = Spent(other, n + 1)
  <1>1. (n + 1) - 1 = n
    OBVIOUS
  <1>2. PICK ev : ev = events[n + 1] /\ ev = other[n + 1]
    BY DEF Agreeing
  <1>3. Agreeing(events, other, n)
    BY DEF Agreeing
  <1>4. StackAfter(events, ev.tid, n) = StackAfter(other, ev.tid, n)
    BY <1>3, StackAgrees
  <1>5. StackBefore(events, n + 1) = StackBefore(other, n + 1)
    BY <1>1, <1>2, <1>4 DEF StackBefore
  <1>6. PICK some : some = EarlierOf(events, ev.tid, n) /\ some = EarlierOf(other, ev.tid, n)
    BY <1>3, EarlierAgree
  <1>7. some # {} => events[Max(some)] = other[Max(some)]
    <2> SUFFICES ASSUME some # {} PROVE events[Max(some)] = other[Max(some)]
      OBVIOUS
    <2>1. some \subseteq 1 .. n
      BY <1>6 DEF EarlierOf
    <2>2. Max(some) \in 1 .. n
      BY <2>1, Greatest
    <2>3. QED
      BY <1>3, <2>2 DEF Agreeing
  <1>8. PICK a, b : a = events[Max(some)].ts /\ b = other[Max(some)].ts
    OBVIOUS
  <1>9. Spent(events, n + 1) = IF some # {} /\ ev.ts > a THEN ev.ts - a ELSE 0
    BY <1>1, <1>2, <1>6, <1>8 DEF Spent, EarlierOf
  <1>10. Spent(other, n + 1) = IF some # {} /\ ev.ts > b THEN ev.ts - b ELSE 0
    BY <1>1, <1>2, <1>6, <1>8 DEF Spent, EarlierOf
  <1>11. some # {} => a = b
    BY <1>7, <1>8
  <1>12. QED
    BY <1>5, <1>9, <1>10, <1>11

AddedBy(events, stack, n) == IF StackBefore(events, n) = stack THEN Spent(events, n) ELSE 0

Times(events, stack, n, g) ==
    g = [k \in 0 .. n |-> IF k = 0 THEN 0 ELSE g[k - 1] + AddedBy(events, stack, k)]

LEMMA TimesExists ==
  ASSUME NEW events, NEW stack, NEW size \in Nat
  PROVE  \E g : Times(events, stack, size, g)
  <1> DEFINE T == {n \in 0 .. size : \E g : Times(events, stack, n, g)}
  <1>1. 0 \in T
    <2> DEFINE g == [k \in 0 .. 0 |-> 0]
    <2>1. g = [k \in 0 .. 0 |-> IF k = 0 THEN 0 ELSE g[k - 1] + AddedBy(events, stack, k)]
      OBVIOUS
    <2> HIDE DEF g
    <2>2. Times(events, stack, 0, g)
      BY <2>1 DEF Times
    <2>3. QED
      BY <2>2
  <1>2. ASSUME NEW n \in 1 .. size, n - 1 \in T PROVE n \in T
    <2>1. PICK g : Times(events, stack, n - 1, g)
      BY <1>2
    <2>2. g = [k \in 0 .. (n - 1) |-> IF k = 0 THEN 0 ELSE g[k - 1] + AddedBy(events, stack, k)]
      BY <2>1 DEF Times
    <2> DEFINE h == [k \in 0 .. n |-> IF k < n THEN g[k] ELSE g[n - 1] + AddedBy(events, stack, n)]
    <2>3. ASSUME NEW k \in 0 .. n PROVE h[k] = IF k = 0 THEN 0 ELSE h[k - 1] + AddedBy(events, stack, k)
      <3>1. CASE k = 0
        BY <2>2, <3>1
      <3>2. CASE k # 0 /\ k < n
        <4>1. g[k] = g[k - 1] + AddedBy(events, stack, k)
          BY <2>2, <3>2
        <4>2. h[k] = g[k] /\ h[k - 1] = g[k - 1]
          BY <3>2
        <4> HIDE DEF h
        <4>3. QED
          BY <3>2, <4>1, <4>2
      <3>3. CASE k = n
        <4>1. h[k] = g[n - 1] + AddedBy(events, stack, n) /\ h[k - 1] = g[k - 1]
          BY <3>3
        <4> HIDE DEF h
        <4>2. QED
          BY <3>3, <4>1
      <3>4. QED
        BY <3>1, <3>2, <3>3
    <2>4. h = [k \in 0 .. n |-> IF k = 0 THEN 0 ELSE h[k - 1] + AddedBy(events, stack, k)]
      BY <2>3
    <2> HIDE DEF h
    <2>5. Times(events, stack, n, h)
      BY <2>4 DEF Times
    <2>6. QED
      BY <2>5
  <1>3. size \in T
    <2> HIDE DEF T
    <2>1. T \subseteq Nat
      BY DEF T
    <2>2. QED
      BY <1>1, <1>2, <2>1, NatSteps
  <1>4. QED
    BY <1>3

LEMMA TimeInIs ==
  ASSUME NEW events, NEW stack, NEW n \in Nat, n = Len(events)
  PROVE  \E g : Times(events, stack, n, g) /\ TimeIn(events, stack) = g[n]
  <1> DEFINE g == CHOOSE g : Times(events, stack, n, g)
  <1>1. Times(events, stack, n, g)
    BY TimesExists
  <1>2. TimeIn(events, stack) = g[n]
    BY DEF TimeIn, Times, AddedBy
  <1> HIDE DEF g
  <1>3. QED
    BY <1>1, <1>2

LEMMA TimesAgree ==
  ASSUME NEW events, NEW other, NEW stack, NEW n \in Nat, NEW m \in Nat, m <= n, Agreeing(events, other, m),
         NEW g, Times(events, stack, n, g), NEW h, Times(other, stack, m, h)
  PROVE  g[m] = h[m]
  <1> DEFINE T == {k \in 0 .. m : g[k] = h[k]}
  <1>1. 0 \in T
    BY DEF Times
  <1>2. ASSUME NEW k \in 1 .. m, k - 1 \in T PROVE k \in T
    <2>1. PICK l \in Nat : l + 1 = k /\ l = k - 1
      <3>1. k - 1 \in Nat /\ (k - 1) + 1 = k
        OBVIOUS
      <3>2. QED
        BY <3>1
    <2>2. Agreeing(events, other, l + 1)
      BY <2>1 DEF Agreeing
    <2>3. StackBefore(events, l + 1) = StackBefore(other, l + 1) /\ Spent(events, l + 1) = Spent(other, l + 1)
      BY <2>2, AddedAgrees
    <2>4. AddedBy(events, stack, k) = AddedBy(other, stack, k)
      BY <2>1, <2>3 DEF AddedBy
    <2>5. k \in 0 .. n /\ k \in 0 .. m /\ k # 0
      OBVIOUS
    <2>6. g[k] = g[k - 1] + AddedBy(events, stack, k) /\ h[k] = h[k - 1] + AddedBy(other, stack, k)
      BY <2>5 DEF Times
    <2>7. g[k - 1] = h[k - 1]
      BY <1>2
    <2>8. g[k] = h[k]
      BY <2>4, <2>6, <2>7
    <2>9. QED
      BY <2>5, <2>8
  <1>3. m \in T
    <2>1. T \subseteq Nat
      OBVIOUS
    <2> HIDE DEF T
    <2>2. QED
      BY <1>1, <1>2, <2>1, NatSteps
  <1>4. QED
    BY <1>3

OneMore(longer, events, ev) ==
    /\ IsSequence(events) /\ IsSequence(longer) /\ Len(longer) = Len(events) + 1
    /\ Agreeing(longer, events, Len(events)) /\ longer[Len(events) + 1] = ev

\* One event more adds the span that ends with it to the stack it was spent in.
LEMMA TimeOneMore ==
  ASSUME NEW events, NEW ev, NEW longer, OneMore(longer, events, ev), NEW stack
  PROVE  TimeIn(longer, stack) = TimeIn(events, stack) + AddedBy(longer, stack, Len(longer))
  <1>1. PICK n \in Nat, l \in Nat : n = Len(events) /\ l = n + 1 /\ l = Len(longer) /\ l - 1 = n /\ n <= l /\ l # 0
    <2>1. Len(events) \in Nat /\ Len(longer) = Len(events) + 1
      BY SeqFacts DEF OneMore
    <2>2. QED
      BY <2>1
  <1>2. Agreeing(longer, events, n)
    BY <1>1 DEF OneMore
  <1>3. PICK g : Times(longer, stack, l, g) /\ TimeIn(longer, stack) = g[l]
    BY <1>1, TimeInIs
  <1>4. PICK h : Times(events, stack, n, h) /\ TimeIn(events, stack) = h[n]
    BY <1>1, TimeInIs
  <1>5. g[n] = h[n]
    BY <1>1, <1>2, <1>3, <1>4, TimesAgree
  <1>6. l \in 0 .. l
    OBVIOUS
  <1>7. g[l] = g[n] + AddedBy(longer, stack, l)
    BY <1>1, <1>3, <1>6 DEF Times
  <1>8. QED
    BY <1>1, <1>3, <1>4, <1>5, <1>7

LEMMA TimeInNothing ==
  ASSUME NEW events, Len(events) = 0, NEW stack
  PROVE  TimeIn(events, stack) = 0
  <1>1. PICK n \in Nat : n = 0 /\ n = Len(events)
    OBVIOUS
  <1>2. PICK g : Times(events, stack, n, g) /\ TimeIn(events, stack) = g[n]
    BY <1>1, TimeInIs
  <1>3. g[n] = 0
    BY <1>1, <1>2 DEF Times
  <1>4. QED
    BY <1>2, <1>3

LEMMA TimeInNat ==
  ASSUME NEW events, IsSequence(events), Timed(events), NEW stack
  PROVE  TimeIn(events, stack) \in Nat
  <1>1. PICK n \in Nat : n = Len(events)
    BY SeqFacts
  <1>2. PICK g : Times(events, stack, n, g) /\ TimeIn(events, stack) = g[n]
    BY <1>1, TimeInIs
  <1> DEFINE T == {k \in 0 .. n : g[k] \in Nat}
  <1>3. 0 \in T
    BY <1>2 DEF Times
  <1>4. ASSUME NEW k \in 1 .. n, k - 1 \in T PROVE k \in T
    <2>1. PICK l \in Nat : l + 1 = k /\ l = k - 1 /\ l + 1 <= Len(events)
      <3>1. k - 1 \in Nat /\ (k - 1) + 1 = k
        OBVIOUS
      <3>2. QED
        BY <1>1, <3>1
    <2>2. Len(events) \in Nat
      BY <1>1
    <2>3. Spent(events, l + 1) \in Nat
      BY <2>1, <2>2, SpentIs
    <2>4. AddedBy(events, stack, k) \in Nat
      BY <2>1, <2>3 DEF AddedBy
    <2>5. k \in 0 .. n /\ k # 0
      OBVIOUS
    <2>6. g[k] = g[k - 1] + AddedBy(events, stack, k)
      BY <1>2, <2>5 DEF Times
    <2>7. g[k - 1] \in Nat
      BY <1>4
    <2>8. g[k] \in Nat
      BY <2>4, <2>6, <2>7
    <2>9. QED
      BY <2>5, <2>8
  <1>5. n \in T
    <2>1. T \subseteq Nat
      OBVIOUS
    <2> HIDE DEF T
    <2>2. QED
      BY <1>3, <1>4, <2>1, NatSteps
  <1>6. QED
    BY <1>2, <1>5

---------------------------------------------------------------------------
(* What the exporter holds of the events it was given.                      *)

FoldedFor(folds, events, tid) ==
    LET n == Len(events)
    IN /\ tid \in DOMAIN folds <=> EarlierOf(events, tid, n) # {}
       /\ tid \in DOMAIN folds => /\ folds[tid].stack = StackAfter(events, tid, n)
                                  /\ folds[tid].last = events[LastOf(events, tid, n)].ts

Occurs(events, stack) == \E n \in 1 .. Len(events) : StackBefore(events, n) = stack

ChargedFor(self, events, stack) ==
    /\ stack \in DOMAIN self => /\ stack # <<>> /\ Occurs(events, stack)
                                /\ self[stack] = TimeIn(events, stack) /\ self[stack] > 0
    /\ stack \notin DOMAIN self /\ stack # <<>> => TimeIn(events, stack) = 0

Tied(x, events) ==
    /\ IsSequence(events) /\ Timed(events)
    /\ x = [folds |-> x.folds, self |-> x.self, out |-> <<>>]
    /\ \A tid : FoldedFor(x.folds, events, tid)
    /\ \A stack : ChargedFor(x.self, events, stack)

LEMMA OneMoreLong ==
  ASSUME NEW events, NEW ev, NEW longer, OneMore(longer, events, ev)
  PROVE  \E n \in Nat : n = Len(events) /\ Len(longer) = n + 1 /\ longer[n + 1] = ev /\ Agreeing(longer, events, n)
  BY SeqFacts DEF OneMore

\* The stack that is charged for the time up to an event.
LEMMA StackCharged ==
  ASSUME NEW events, NEW ev, NEW longer, OneMore(longer, events, ev), NEW n, n = Len(events)
  PROVE  /\ StackAfter(longer, ev.tid, n) = StackAfter(events, ev.tid, n)
         /\ StackBefore(longer, n + 1) = StackAfter(events, ev.tid, n)
  <1>1. n \in Nat /\ longer[n + 1] = ev /\ Agreeing(longer, events, n) /\ (n + 1) - 1 = n
    BY OneMoreLong
  <1>2. StackAfter(longer, ev.tid, n) = StackAfter(events, ev.tid, n)
    BY <1>1, StackAgrees
  <1>3. QED
    BY <1>1, <1>2 DEF StackBefore

LEMMA FoldedOn ==
  ASSUME NEW events, NEW ev, NEW longer, OneMore(longer, events, ev), NEW folds, NEW tid, FoldedFor(folds, events, tid),
         NEW old, old = StackAfter(events, ev.tid, Len(events)), NEW fold, fold = [stack |-> Moved(old, ev), last |-> ev.ts],
         NEW more, more = With(folds, ev.tid, fold)
  PROVE  FoldedFor(more, longer, tid)
  <1>1. PICK n \in Nat : n = Len(events) /\ Len(longer) = n + 1 /\ longer[n + 1] = ev /\ Agreeing(longer, events, n)
    BY OneMoreLong
  <1>2. \A m : m \in 1 .. (n + 1) <=> m \in 1 .. n \/ m = n + 1
    OBVIOUS
  <1>3. CASE tid = ev.tid
    <2>1. PICK some : some = EarlierOf(longer, tid, n + 1)
      OBVIOUS
    <2>2. some \subseteq 1 .. (n + 1) /\ n + 1 \in some
      BY <1>1, <1>3, <2>1 DEF EarlierOf
    <2>3. Max(some) = n + 1
      <3>1. PICK g, l : g = Max(some) /\ l = n + 1 /\ l \in Nat
        OBVIOUS
      <3>2. some \subseteq 1 .. l /\ some # {} /\ l \in some
        BY <2>2, <3>1
      <3>3. Max(some) \in some /\ \A k \in some : k <= Max(some)
        BY <3>1, <3>2, Greatest
      <3>4. g \in 1 .. l /\ l <= g
        BY <3>1, <3>2, <3>3
      <3>5. QED
        BY <3>1, <3>4
    <2>4. LastOf(longer, tid, n + 1) = n + 1
      BY <2>1, <2>3 DEF LastOf
    <2>5. StackAfter(longer, tid, n + 1) = Moved(old, ev)
      <3>1. longer[n + 1].tid = tid
        BY <1>1, <1>3
      <3>2. StackAfter(longer, tid, n + 1) = Moved(StackAfter(longer, tid, n), longer[n + 1])
        BY <3>1, StackMoves
      <3>3. StackAfter(longer, tid, n) = old
        BY <1>1, <1>3, StackCharged
      <3>4. QED
        BY <1>1, <3>2, <3>3
    <2>6. tid \in DOMAIN more /\ more[tid] = fold
      BY <1>3 DEF With
    <2>7. fold.stack = Moved(old, ev) /\ fold.last = ev.ts
      OBVIOUS
    <2>8. QED
      BY <1>1, <2>1, <2>2, <2>4, <2>5, <2>6, <2>7 DEF FoldedFor
  <1>4. CASE tid # ev.tid
    <2>1. EarlierOf(longer, tid, n + 1) = EarlierOf(events, tid, n)
      <3>1. EarlierOf(longer, tid, n) = EarlierOf(events, tid, n)
        BY <1>1, EarlierAgree
      <3>2. EarlierOf(longer, tid, n + 1) = EarlierOf(longer, tid, n)
        BY <1>1, <1>2, <1>4 DEF EarlierOf
      <3>3. QED
        BY <3>1, <3>2
    <2>2. LastOf(longer, tid, n + 1) = LastOf(events, tid, n)
      BY <2>1 DEF LastOf
    <2>3. EarlierOf(events, tid, n) # {} => longer[LastOf(events, tid, n)] = events[LastOf(events, tid, n)]
      BY <1>1, LastIsOne DEF Agreeing
    <2>4. StackAfter(longer, tid, n + 1) = StackAfter(events, tid, n)
      <3>1. longer[n + 1].tid # tid
        BY <1>1, <1>4
      <3>2. StackAfter(longer, tid, n + 1) = StackAfter(longer, tid, n)
        BY <3>1, StackStands
      <3>3. StackAfter(longer, tid, n) = StackAfter(events, tid, n)
        BY <1>1, StackAgrees
      <3>4. QED
        BY <3>2, <3>3
    <2>5. (tid \in DOMAIN more <=> tid \in DOMAIN folds) /\ (tid \in DOMAIN folds => more[tid] = folds[tid])
      BY <1>4 DEF With
    <2>6. QED
      BY <1>1, <2>1, <2>2, <2>3, <2>4, <2>5 DEF FoldedFor
  <1>5. QED
    BY <1>3, <1>4

LEMMA OccursOn ==
  ASSUME NEW events, NEW ev, NEW longer, OneMore(longer, events, ev), NEW stack
  PROVE  /\ Occurs(events, stack) => Occurs(longer, stack)
         /\ Occurs(longer, StackAfter(events, ev.tid, Len(events)))
  <1>1. PICK n \in Nat : n = Len(events) /\ Len(longer) = n + 1 /\ longer[n + 1] = ev /\ Agreeing(longer, events, n)
    BY OneMoreLong
  <1>2. ASSUME NEW k \in 1 .. n PROVE k \in 1 .. (n + 1) /\ StackBefore(longer, k) = StackBefore(events, k)
    <2>1. PICK l \in Nat : l + 1 = k /\ l + 1 <= n
      <3>1. k - 1 \in Nat /\ (k - 1) + 1 = k
        OBVIOUS
      <3>2. QED
        BY <3>1
    <2>2. Agreeing(longer, events, l + 1)
      BY <1>1, <2>1 DEF Agreeing
    <2>3. QED
      BY <2>1, <2>2, AddedAgrees
  <1>3. n + 1 \in 1 .. (n + 1) /\ StackBefore(longer, n + 1) = StackAfter(events, ev.tid, n)
    BY <1>1, StackCharged
  <1>4. Occurs(longer, StackAfter(events, ev.tid, n))
    BY <1>1, <1>3 DEF Occurs
  <1>5. Occurs(events, stack) => Occurs(longer, stack)
    BY <1>1, <1>2 DEF Occurs
  <1>6. QED
    BY <1>1, <1>4, <1>5

LEMMA ChargedOn ==
  ASSUME NEW events, NEW ev, NEW longer, OneMore(longer, events, ev), Timed(events), Timed(longer),
         NEW self, NEW stack, ChargedFor(self, events, stack),
         NEW old, old = StackAfter(events, ev.tid, Len(events)), ChargedFor(self, events, old),
         NEW elapsed, elapsed = Spent(longer, Len(events) + 1), NEW more, more = Charge(self, old, elapsed)
  PROVE  ChargedFor(more, longer, stack)
  <1>1. PICK n \in Nat : n = Len(events) /\ Len(longer) = n + 1 /\ longer[n + 1] = ev /\ Agreeing(longer, events, n)
    BY OneMoreLong
  <1>2. elapsed \in Nat
    <2>1. Len(longer) \in Nat /\ n + 1 <= Len(longer)
      BY <1>1
    <2>2. Spent(longer, n + 1) \in Nat
      BY <2>1, SpentIs
    <2>3. QED
      BY <1>1, <2>2
  <1>3. PICK was, is : was = TimeIn(events, stack) /\ is = TimeIn(longer, stack)
    OBVIOUS
  <1>4. was \in Nat
    BY <1>3, TimeInNat DEF OneMore
  <1>5. is = was + IF old = stack THEN elapsed ELSE 0
    <2>1. TimeIn(longer, stack) = TimeIn(events, stack) + AddedBy(longer, stack, Len(longer))
      BY TimeOneMore
    <2>2. StackBefore(longer, n + 1) = old
      BY <1>1, StackCharged
    <2>3. AddedBy(longer, stack, n + 1) = IF old = stack THEN elapsed ELSE 0
      BY <1>1, <2>2 DEF AddedBy
    <2>4. QED
      BY <1>1, <1>3, <2>1, <2>3
  <1>6. Occurs(events, stack) => Occurs(longer, stack)
    BY OccursOn
  <1>7. old = stack => Occurs(longer, stack)
    BY OccursOn
  <1>8. CASE elapsed = 0 \/ old = <<>>
    <2>1. more = self
      BY <1>8 DEF Charge
    <2>2. stack # <<>> => is = was
      BY <1>4, <1>5, <1>8
    <2>3. QED
      BY <1>3, <1>6, <2>1, <2>2 DEF ChargedFor
  <1>9. CASE elapsed # 0 /\ old # <<>>
    <2>1. elapsed > 0
      BY <1>2, <1>9
    <2>2. /\ \A s : s \in DOMAIN more <=> s \in DOMAIN self \/ s = old
          /\ \A s : s \in DOMAIN self /\ s # old => more[s] = self[s]
          /\ more[old] = IF old \in DOMAIN self THEN self[old] + elapsed ELSE elapsed
      <3>1. CASE old \in DOMAIN self
        <4>1. more = [self EXCEPT ![old] = self[old] + elapsed]
          BY <1>9, <3>1 DEF Charge
        <4>2. DOMAIN more = DOMAIN self
          BY <4>1
        <4>3. more[old] = self[old] + elapsed /\ \A s : s \in DOMAIN self /\ s # old => more[s] = self[s]
          BY <3>1, <4>1
        <4>4. QED
          BY <3>1, <4>2, <4>3
      <3>2. CASE old \notin DOMAIN self
        <4>1. more = With(self, old, elapsed)
          BY <1>9, <3>2 DEF Charge
        <4>2. QED
          BY <3>2, <4>1 DEF With
      <3>3. QED
        BY <3>1, <3>2
    <2>3. CASE stack = old
      <3>1. is = was + elapsed /\ is > 0
        BY <1>4, <1>5, <2>1, <2>3, <1>2
      <3>2. CASE old \in DOMAIN self
        <4>1. self[stack] = was
          BY <1>3, <2>3, <3>2 DEF ChargedFor
        <4>2. more[stack] = is
          BY <2>2, <2>3, <3>1, <3>2, <4>1
        <4>3. QED
          BY <1>3, <1>7, <1>9, <2>2, <2>3, <3>1, <4>2 DEF ChargedFor
      <3>3. CASE old \notin DOMAIN self
        <4>1. was = 0
          BY <1>3, <1>9, <2>3, <3>3 DEF ChargedFor
        <4>2. more[stack] = is
          BY <1>2, <2>2, <2>3, <3>1, <3>3, <4>1
        <4>3. QED
          BY <1>3, <1>7, <1>9, <2>2, <2>3, <3>1, <4>2 DEF ChargedFor
      <3>4. QED
        BY <3>2, <3>3
    <2>4. CASE stack # old
      <3>1. is = was
        BY <1>4, <1>5, <2>4
      <3>2. QED
        BY <1>3, <1>6, <2>2, <2>4, <3>1 DEF ChargedFor
    <2>5. QED
      BY <2>3, <2>4
  <1>10. QED
    BY <1>8, <1>9

LEMMA FoldTied ==
  ASSUME NEW x, NEW events, Tied(x, events), NEW ev, ev.ts \in Int, NEW longer, OneMore(longer, events, ev),
         NEW y, y = FoldEvent(x, ev)
  PROVE  Tied(y, longer)
  <1>1. PICK n \in Nat : n = Len(events) /\ Len(longer) = n + 1 /\ longer[n + 1] = ev /\ Agreeing(longer, events, n)
    BY OneMoreLong
  <1>2. Timed(events) /\ Timed(longer) /\ IsSequence(longer)
    <2>1. Timed(events)
      BY DEF Tied
    <2>2. ASSUME NEW k \in 1 .. (n + 1) PROVE longer[k].ts \in Int
      <3>1. CASE k \in 1 .. n
        BY <1>1, <2>1, <3>1 DEF Agreeing, Timed
      <3>2. CASE k = n + 1
        BY <1>1, <3>2
      <3>3. QED
        BY <3>1, <3>2
    <2>3. QED
      BY <1>1, <2>1, <2>2 DEF Timed, OneMore
  <1>3. PICK fold : fold = IF ev.tid \in DOMAIN x.folds THEN x.folds[ev.tid] ELSE [stack |-> <<>>, last |-> ev.ts]
    OBVIOUS
  <1>4. PICK elapsed : elapsed = IF ev.ts > fold.last THEN ev.ts - fold.last ELSE 0
    OBVIOUS
  <1>5. PICK old : old = StackAfter(events, ev.tid, n)
    OBVIOUS
  <1>6. FoldedFor(x.folds, events, ev.tid)
    BY DEF Tied
  <1>7. EarlierOf(longer, ev.tid, n) = EarlierOf(events, ev.tid, n)
    BY <1>1, EarlierAgree
  <1>8. PICK last : last = longer[LastOf(longer, ev.tid, n)].ts
    OBVIOUS
  <1>9. Spent(longer, n + 1) = IF EarlierOf(events, ev.tid, n) # {} /\ ev.ts > last THEN ev.ts - last ELSE 0
    <2>1. Len(longer) \in Nat /\ n + 1 <= Len(longer)
      BY <1>1
    <2>2. Spent(longer, n + 1) =
            IF EarlierOf(longer, longer[n + 1].tid, n) # {} /\ longer[n + 1].ts > longer[LastOf(longer, longer[n + 1].tid, n)].ts
            THEN longer[n + 1].ts - longer[LastOf(longer, longer[n + 1].tid, n)].ts ELSE 0
      BY <1>2, <2>1, SpentIs
    <2>3. QED
      BY <1>1, <1>7, <1>8, <2>2
  <1>10. fold.stack = old /\ elapsed = Spent(longer, n + 1)
    <2>1. CASE ev.tid \in DOMAIN x.folds
      <3>1. /\ EarlierOf(events, ev.tid, n) # {} /\ fold.stack = old
            /\ fold.last = events[LastOf(events, ev.tid, n)].ts
        BY <1>1, <1>3, <1>5, <1>6, <2>1 DEF FoldedFor
      <3>2. LastOf(events, ev.tid, n) \in 1 .. n
        BY <3>1, LastIsOne
      <3>3. longer[LastOf(events, ev.tid, n)] = events[LastOf(events, ev.tid, n)]
        BY <1>1, <3>2 DEF Agreeing
      <3>4. LastOf(longer, ev.tid, n) = LastOf(events, ev.tid, n)
        BY <1>7 DEF LastOf
      <3>5. fold.last = last
        BY <1>8, <3>1, <3>3, <3>4
      <3>6. QED
        BY <1>4, <1>9, <3>1, <3>5
    <2>2. CASE ev.tid \notin DOMAIN x.folds
      <3>1. EarlierOf(events, ev.tid, n) = {}
        BY <1>1, <1>6, <2>2 DEF FoldedFor
      <3>2. fold.stack = <<>> /\ fold.last = ev.ts
        BY <1>3, <2>2
      <3>3. old = <<>>
        <4>1. \A k \in 1 .. n : events[k].tid # ev.tid
          BY <3>1 DEF EarlierOf
        <4>2. StackAfter(events, ev.tid, n) = <<>>
          BY <4>1, StackOfNobody
        <4>3. QED
          BY <1>5, <4>2
      <3>4. elapsed = 0
        BY <1>4, <3>2
      <3>5. QED
        BY <1>9, <3>1, <3>2, <3>3, <3>4
    <2>3. QED
      BY <2>1, <2>2
  <1>11. PICK next, folds, self : /\ next = [stack |-> Moved(old, ev), last |-> ev.ts]
                                  /\ folds = With(x.folds, ev.tid, next) /\ self = Charge(x.self, old, elapsed)
    OBVIOUS
  <1>12. y = [folds |-> folds, self |-> self, out |-> <<>>]
    <2>1. x = [folds |-> x.folds, self |-> x.self, out |-> <<>>]
      BY DEF Tied
    <2>2. y = [x EXCEPT !.self = Charge(@, fold.stack, elapsed),
                        !.folds = With(@, ev.tid, [stack |-> Moved(fold.stack, ev), last |-> ev.ts])]
      BY <1>3, <1>4 DEF FoldEvent
    <2>3. y = [x EXCEPT !.self = self, !.folds = folds]
      BY <1>10, <1>11, <2>2
    <2>4. PICK a, b, out : a = x.folds /\ b = x.self /\ out = <<>>
      OBVIOUS
    <2>5. x = [folds |-> a, self |-> b, out |-> out]
      BY <2>1, <2>4
    <2>6. y = [folds |-> folds, self |-> self, out |-> out]
      BY <2>3, <2>5
    <2>7. QED
      BY <2>4, <2>6
  <1>13. ASSUME NEW tid PROVE FoldedFor(folds, longer, tid)
    <2>1. FoldedFor(x.folds, events, tid)
      BY DEF Tied
    <2>2. PICK f : f = x.folds
      OBVIOUS
    <2>3. FoldedFor(f, events, tid) /\ folds = With(f, ev.tid, next) /\ old = StackAfter(events, ev.tid, Len(events))
      BY <1>1, <1>5, <1>11, <2>1, <2>2
    <2>4. QED
      BY <1>11, <2>3, FoldedOn
  <1>14. ASSUME NEW stack PROVE ChargedFor(self, longer, stack)
    <2>1. PICK f : f = x.self
      OBVIOUS
    <2>2. ChargedFor(f, events, stack) /\ ChargedFor(f, events, old)
      BY <2>1 DEF Tied
    <2>3. self = Charge(f, old, elapsed) /\ old = StackAfter(events, ev.tid, Len(events)) /\ elapsed = Spent(longer, Len(events) + 1)
      BY <1>1, <1>5, <1>10, <1>11, <2>1
    <2>4. QED
      BY <1>2, <2>2, <2>3, ChargedOn
  <1>15. y.folds = folds /\ y.self = self
    BY <1>12
  <1>16. QED
    BY <1>2, <1>12, <1>13, <1>14, <1>15 DEF Tied

LEMMA NewIsTied ==
  ASSUME NEW none, none = <<>>
  PROVE  Tied(NewPprof, none)
  <1>1. IsSequence(none) /\ Len(none) = 0
    BY SeqEmpty
  <1>2. PICK x : x = NewPprof
    OBVIOUS
  <1>3. x.folds = <<>> /\ x.self = <<>> /\ x = [folds |-> x.folds, self |-> x.self, out |-> <<>>]
    BY <1>2 DEF NewPprof
  <1>4. DOMAIN x.folds = {} /\ DOMAIN x.self = {}
    BY <1>3
  <1>5. Timed(none)
    BY <1>1 DEF Timed
  <1>6. \A tid : EarlierOf(none, tid, Len(none)) = {}
    BY <1>1 DEF EarlierOf
  <1>7. \A tid : FoldedFor(x.folds, none, tid)
    BY <1>4, <1>6 DEF FoldedFor
  <1>8. \A stack : ChargedFor(x.self, none, stack)
    BY <1>1, <1>4, TimeInNothing DEF ChargedFor
  <1>9. Tied(x, none)
    BY <1>1, <1>3, <1>5, <1>7, <1>8 DEF Tied
  <1>10. QED
    BY <1>2, <1>9

LEMMA BatchTied ==
  ASSUME NEW x, NEW events, Tied(x, events), NEW more, IsSequence(more), Timed(more),
         NEW longer, Joins(longer, events, more)
  PROVE  Tied(PprofWriteBatch(x, more), longer)
  <1>1. PICK size \in Nat, n \in Nat : size = Len(more) /\ n = Len(events)
    BY SeqFacts DEF Tied
  <1> DEFINE g == CHOOSE g : PprofFolds(x, more, size, g)
             T == {k \in 0 .. size : Tied(g[k], SubSeq(longer, 1, n + k))}
  <1>2. PprofFolds(x, more, size, g)
    BY PprofFoldExists
  <1>3. PprofWriteBatch(x, more) = g[size]
    BY <1>1 DEF PprofWriteBatch, PprofFolds
  <1> HIDE DEF g
  <1>4. g[0] = x /\ \A k \in 1 .. size : g[k] = FoldEvent(g[k - 1], more[k])
    BY <1>2 DEF PprofFolds
  <1>5. /\ IsSequence(longer) /\ Len(longer) = n + size /\ \A i \in 1 .. n : longer[i] = events[i]
        /\ \A i \in 1 .. size : longer[n + i] = more[i]
    BY <1>1 DEF Joins
  <1>6. ASSUME NEW k \in 0 .. size
        PROVE  /\ IsSequence(SubSeq(longer, 1, n + k)) /\ Len(SubSeq(longer, 1, n + k)) = n + k
               /\ \A i \in 1 .. (n + k) : SubSeq(longer, 1, n + k)[i] = longer[i]
    <2>1. PICK l \in Nat : l = n + k /\ l <= Len(longer)
      <3>1. n + k \in Nat /\ n + k <= Len(longer)
        BY <1>5
      <3>2. QED
        BY <3>1
    <2>2. /\ IsSequence(SubSeq(longer, 1, l)) /\ Len(SubSeq(longer, 1, l)) = l
          /\ \A i \in 1 .. l : SubSeq(longer, 1, l)[i] = longer[i]
      BY <1>5, <2>1, SeqUpTo
    <2>3. QED
      BY <2>1, <2>2
  <1>7. 0 \in T
    <2>0. PICK zero \in 0 .. size : zero = 0 /\ n + zero = n
      OBVIOUS
    <2>1. PICK s : s = SubSeq(longer, 1, n + zero)
      OBVIOUS
    <2>2. IsSequence(s) /\ Len(s) = n /\ \A i \in 1 .. n : s[i] = longer[i]
      BY <1>6, <2>0, <2>1
    <2>3. \A i \in 1 .. Len(s) : s[i] = events[i]
      BY <1>5, <2>2
    <2>4. IsSequence(events) /\ Len(s) = Len(events)
      BY <1>1, <2>2 DEF Tied
    <2>5. s = events
      BY <2>2, <2>3, <2>4, SameSequence
    <2>6. Tied(g[zero], SubSeq(longer, 1, n + zero))
      BY <1>4, <2>0, <2>1, <2>5
    <2>7. zero \in T
      BY <2>6
    <2> HIDE DEF T
    <2>8. QED
      BY <2>0, <2>7
  <1>8. ASSUME NEW k \in 1 .. size, k - 1 \in T PROVE k \in T
    <2>1. k - 1 \in 0 .. size /\ k \in 0 .. size /\ (n + (k - 1)) + 1 = n + k /\ n + (k - 1) \in Nat
      OBVIOUS
    <2>2. PICK s, t, a, y, l : /\ s = SubSeq(longer, 1, n + (k - 1)) /\ t = SubSeq(longer, 1, n + k) /\ a = g[k - 1]
                            /\ y = g[k] /\ l = n + (k - 1)
      OBVIOUS
    <2>3. IsSequence(s) /\ Len(s) = l /\ \A i \in 1 .. l : s[i] = longer[i]
      BY <1>6, <2>1, <2>2
    <2>4. IsSequence(t) /\ Len(t) = l + 1 /\ \A i \in 1 .. (l + 1) : t[i] = longer[i]
      BY <1>6, <2>1, <2>2
    <2>5. l \in Nat /\ l + 1 = n + k
      BY <2>1, <2>2
    <2>6. OneMore(t, s, more[k])
      <3>1. Agreeing(t, s, l)
        BY <2>3, <2>4, <2>5 DEF Agreeing
      <3>2. t[l + 1] = more[k]
        <4>1. l + 1 \in 1 .. (l + 1)
          BY <2>5
        <4>2. QED
          BY <1>5, <2>4, <2>5, <4>1
      <3>3. QED
        BY <2>3, <2>4, <3>1, <3>2 DEF OneMore
    <2>7. Tied(a, s) /\ y = FoldEvent(a, more[k]) /\ more[k].ts \in Int
      BY <1>1, <1>4, <1>8, <2>2 DEF Timed
    <2>8. PICK ev : ev = more[k]
      OBVIOUS
    <2>9. Tied(y, t)
      BY <2>6, <2>7, <2>8, FoldTied
    <2>10. QED
      BY <2>1, <2>2, <2>9
  <1>9. size \in T
    <2>1. T \subseteq Nat
      OBVIOUS
    <2> HIDE DEF T
    <2>2. QED
      BY <1>7, <1>8, <2>1, NatSteps
  <1>10. SubSeq(longer, 1, n + size) = longer
    <2>1. PICK s : s = SubSeq(longer, 1, n + size)
      OBVIOUS
    <2>2. size \in 0 .. size
      OBVIOUS
    <2>3. IsSequence(s) /\ Len(s) = Len(longer) /\ \A i \in 1 .. Len(s) : s[i] = longer[i]
      BY <1>5, <1>6, <2>2, <2>1
    <2>4. s = longer
      BY <1>5, <2>3, SameSequence
    <2>5. QED
      BY <2>1, <2>4
  <1>11. QED
    BY <1>3, <1>9, <1>10

\* The profile that is written at the end.
LEMMA FinishTold ==
  ASSUME NEW x, NEW events, Tied(x, events), NEW dropped
  PROVE  \E entry : PprofFinish(x, dropped).out = <<entry>> /\ entry.samples = ProfileOf(events)
  <1>1. x = [folds |-> x.folds, self |-> x.self, out |-> <<>>] /\ IsSequence(events)
    BY DEF Tied
  <1>2. PICK samples : samples = {[leafFirst |-> Reverse(stack), ns |-> x.self[stack]] : stack \in DOMAIN x.self}
    OBVIOUS
  <1>3. PICK entry : entry = [type |-> "profile", dropped |-> dropped,
                  functions |-> UNION {ToSet(stack) : stack \in DOMAIN x.self}, samples |-> samples]
    OBVIOUS
  <1>4. PICK out : out = Append(x.out, entry) /\ out = <<entry>>
    <2>1. x.out = <<>>
      BY <1>1
    <2>2. Append(x.out, entry) = <<entry>>
      BY <2>1
    <2>3. QED
      BY <2>2
  <1>5. PprofFinish(x, dropped) = [x EXCEPT !.self = <<>>, !.out = out]
    BY <1>2, <1>3, <1>4 DEF PprofFinish
  <1>6. PprofFinish(x, dropped).out = out
    BY <1>1, <1>5
  <1>7. PICK some : some = {stack \in {StackBefore(events, n) : n \in DOMAIN events} \ {<<>>} : TimeIn(events, stack) > 0}
    OBVIOUS
  <1>8. ASSUME NEW stack PROVE stack \in some <=> stack \in DOMAIN x.self
    <2>1. ChargedFor(x.self, events, stack)
      BY DEF Tied
    <2>2. DOMAIN events = 1 .. Len(events)
      BY <1>1, SeqFacts
    <2>3. stack \in some <=> Occurs(events, stack) /\ stack # <<>> /\ TimeIn(events, stack) > 0
      BY <1>7, <2>2 DEF Occurs
    <2>4. QED
      BY <2>1, <2>3 DEF ChargedFor
  <1>9. some = DOMAIN x.self
    BY <1>8
  <1>10. \A stack \in DOMAIN x.self : x.self[stack] = TimeIn(events, stack)
    BY DEF Tied, ChargedFor
  <1>11. samples = {[leafFirst |-> Reverse(stack), ns |-> TimeIn(events, stack)] : stack \in some}
    BY <1>2, <1>9, <1>10
  <1>12. ProfileOf(events) = samples
    BY <1>7, <1>11 DEF ProfileOf
  <1>13. entry.samples = samples
    BY <1>3
  <1>14. QED
    BY <1>4, <1>6, <1>12, <1>13

---------------------------------------------------------------------------
(* A process' profile from its first event to its file.                     *)

Samples(items, profile) == \A i \in DOMAIN items : items[i].entry.samples = profile

\* While p works, its exporter is tied to the events it was given; once it has
\* finished, what is pending and written is their profile.
Tallies(items, more, some, under, x, at, after) ==
    /\ under = <<>>
    /\ at = "idle" => items = <<>> /\ Tied(x, FlattenSeq(some))
    /\ at \in {"commit", "write"} => after # "idle"
    /\ Samples(items, ProfileOf(FlattenSeq(some))) /\ Samples(more, ProfileOf(FlattenSeq(some)))

Profiled ==
    format = "pprof" =>
        \A p \in Procs : Tallies(file[p], pending[p], given[p], batch[p], exporter[p], pc[p], then[p])

Alone(p) ==
    \A q \in Procs \ {p} :
        /\ file'[q] = file[q] /\ pending'[q] = pending[q] /\ given'[q] = given[q] /\ batch'[q] = batch[q]
        /\ exporter'[q] = exporter[q] /\ pc'[q] = pc[q] /\ then'[q] = then[q]

LEMMA ProfiledOne ==
  ASSUME Profiled, format = "pprof", NEW p \in Procs, Alone(p),
         Tallies(file'[p], pending'[p], given'[p], batch'[p], exporter'[p], pc'[p], then'[p])
  PROVE  Profiled'
  <1> SUFFICES ASSUME NEW q \in Procs
               PROVE  Tallies(file'[q], pending'[q], given'[q], batch'[q], exporter'[q], pc'[q], then'[q])
    BY DEF Profiled
  <1>1. CASE q = p
    BY <1>1
  <1>2. CASE q # p
    <2>1. Tallies(file[q], pending[q], given[q], batch[q], exporter[q], pc[q], then[q])
      BY DEF Profiled
    <2>2. /\ file'[q] = file[q] /\ pending'[q] = pending[q] /\ given'[q] = given[q] /\ batch'[q] = batch[q]
          /\ exporter'[q] = exporter[q] /\ pc'[q] = pc[q] /\ then'[q] = then[q]
      BY <1>2 DEF Alone
    <2>3. QED
      BY <2>1, <2>2
  <1>3. QED
    BY <1>1, <1>2

OwnPath == \A p \in Procs : Path(p) = p

LEMMA PathsApart == format = "pprof" => OwnPath
  BY DEF OwnPath, Path

Functions == /\ DOMAIN file = Procs /\ DOMAIN pending = Procs /\ DOMAIN given = Procs /\ DOMAIN batch = Procs
             /\ DOMAIN exporter = Procs /\ DOMAIN pc = Procs /\ DOMAIN then = Procs

LEMMA AreFunctions == IInv /\ Written => Functions
  BY DEF Functions, IInv, Shape, Written, Stands, Listed

LEMMA SamplesNothing == ASSUME NEW profile PROVE Samples(<<>>, profile)
  BY DEF Samples

\* Steps that leave the file alone and give p nothing: it goes on, or what is
\* pending is gone.
LEMMA AsideProfiled ==
  ASSUME Profiled, format = "pprof", NEW p \in Procs, Alone(p), file' = file, given' = given, batch' = batch,
         pending'[p] = pending[p] \/ pending'[p] = <<>>, pc'[p] # "idle",
         pc'[p] \in {"commit", "write"} => then'[p] # "idle"
  PROVE  Profiled'
  <1>1. PICK items, some, profile : items = file[p] /\ some = given[p] /\ profile = ProfileOf(FlattenSeq(some))
    OBVIOUS
  <1>2. Tallies(items, pending[p], some, batch[p], exporter[p], pc[p], then[p])
    BY <1>1 DEF Profiled
  <1>3. batch[p] = <<>> /\ Samples(items, profile) /\ Samples(pending'[p], profile)
    BY <1>1, <1>2, SamplesNothing DEF Tallies
  <1>4. Tallies(file'[p], pending'[p], given'[p], batch'[p], exporter'[p], pc'[p], then'[p])
    BY <1>1, <1>3 DEF Tallies
  <1>5. QED
    BY <1>4, ProfiledOne

LEMMA QuietProfiled ==
  ASSUME IInv, Written, Profiled, format = "pprof",
         \/ Advertise \/ \E c \in Kids, forked \in BOOLEAN : Launch(c, forked)
         \/ \E p \in Procs : CommitNothing(p) \/ Acquire(p) \/ AcquireFails(p) \/ WriteFails(p) \/ Kill(p)
  PROVE  Profiled'
  <1> USE AreFunctions DEF Functions
  <1>1. ASSUME NEW p \in Procs, pc[p] \in {"commit", "write"} PROVE then[p] # "idle"
    BY <1>1 DEF Profiled, Tallies
  <1>2. CASE Advertise
    <2>1. Root \in Procs
      BY DEF Procs
    <2>2. Alone(Root)
      BY <1>2 DEF Advertise, Alone
    <2>3. QED
      BY <1>2, <2>1, <2>2, AsideProfiled DEF Advertise
  <1>3. ASSUME NEW c \in Kids, NEW forked \in BOOLEAN, Launch(c, forked) PROVE Profiled'
    <2>1. c \in Procs
      BY DEF Procs
    <2>2. Alone(c)
      BY <1>3 DEF Launch, Alone
    <2>3. QED
      BY <1>3, <2>1, <2>2, AsideProfiled DEF Launch
  <1>4. ASSUME NEW p \in Procs, CommitNothing(p) PROVE Profiled'
    <2>1. Alone(p)
      BY <1>4 DEF CommitNothing, Done, Alone
    <2>2. QED
      BY <1>1, <1>4, <2>1, AsideProfiled DEF CommitNothing, Done
  <1>5. ASSUME NEW p \in Procs, Acquire(p) PROVE Profiled'
    <2>1. Alone(p)
      BY <1>5 DEF Acquire, Alone
    <2>2. QED
      BY <1>1, <1>5, <2>1, AsideProfiled DEF Acquire
  <1>6. ASSUME NEW p \in Procs, AcquireFails(p) PROVE Profiled'
    <2>1. Alone(p)
      BY <1>6 DEF AcquireFails, Done, Fault, Alone
    <2>2. /\ file' = file /\ given' = given /\ batch' = batch /\ then'[p] = "failed" /\ pc'[p] # "idle"
          /\ pending'[p] = pending[p] \/ pending'[p] = <<>>
      BY <1>6 DEF AcquireFails, Done, Fault
    <2>3. QED
      BY <2>1, <2>2, AsideProfiled
  <1>7. ASSUME NEW p \in Procs, WriteFails(p) PROVE Profiled'
    <2>1. Alone(p)
      BY <1>7 DEF WriteFails, Alone
    <2>2. QED
      BY <1>7, <2>1, AsideProfiled DEF WriteFails
  <1>8. ASSUME NEW p \in Procs, Kill(p) PROVE Profiled'
    <2>1. Alone(p)
      BY <1>8 DEF Kill, Alone
    <2>2. QED
      BY <1>8, <2>1, AsideProfiled DEF Kill
  <1>9. QED
    BY <1>2, <1>3, <1>4, <1>5, <1>6, <1>7, <1>8

LEMMA FlattenNothing == ASSUME NEW none, none = <<>> PROVE FlattenSeq(none) = none
  BY DEF FlattenSeq

LEMMA OpenProfiled ==
  ASSUME IInv, Written, Profiled, format = "pprof", NEW p \in Procs, Open(p)
  PROVE  Profiled'
  <1> USE AreFunctions DEF Functions
  <1>1. OwnPath
    BY PathsApart
  <1>2. PICK x, none : x = NewExporter(format, p) /\ none = <<>>
    OBVIOUS
  <1>3. x = NewPprof
    BY <1>2 DEF NewExporter
  <1>4. Tied(x, none)
    BY <1>2, <1>3, NewIsTied
  <1>5. x.out = <<>> /\ [x EXCEPT !.out = <<>>] = x
    BY <1>3 DEF NewPprof
  <1>6. StartsOver(p) /\ Path(p) = p /\ \A q \in Procs : Path(q) = Path(p) => q = p
    BY <1>1 DEF StartsOver, OwnPath
  <1>7. /\ file' = [file EXCEPT ![p] = none] /\ exporter' = [exporter EXCEPT ![p] = x]
        /\ pending' = [pending EXCEPT ![p] = Items(p, x.out)] /\ pc' = [pc EXCEPT ![p] = "idle"]
        /\ then' = [then EXCEPT ![p] = "idle"] /\ batch' = [batch EXCEPT ![p] = none]
        /\ given' = [q \in Procs |-> IF q = p THEN none ELSE given[q]]
    BY <1>2, <1>5, <1>6 DEF Open
  <1>8. Alone(p)
    BY <1>7 DEF Alone
  <1>9. Items(p, x.out) = none
    <2>1. PICK items, entries : items = Items(p, entries) /\ entries = x.out
      OBVIOUS
    <2>2. IsSequence(entries) /\ Len(entries) = 0
      BY <1>5, <2>1, SeqEmpty
    <2>3. IsSequence(items) /\ Len(items) = 0
      BY <2>1, <2>2, ItemsListed
    <2>4. QED
      BY <1>2, <2>1, <2>3, SeqFacts
  <1>10. /\ file'[p] = none /\ exporter'[p] = x /\ pending'[p] = none /\ batch'[p] = none /\ given'[p] = none
         /\ pc'[p] = "idle"
    BY <1>7, <1>9
  <1>11. FlattenSeq(none) = none
    BY <1>2, FlattenNothing
  <1>12. Tallies(none, none, none, none, x, "idle", then'[p])
    BY <1>2, <1>4, <1>11, SamplesNothing DEF Tallies
  <1>13. QED
    BY <1>8, <1>10, <1>12, ProfiledOne

LEMMA TimesAreInt ==
  ASSUME NEW p \in Procs, NEW b \in Batches, NEW base \in Nat,
         NEW events, events = [i \in DOMAIN b.packed |-> FromPacked(Clocks[p], base, b.tid, b.packed[i])]
  PROVE  IsSequence(events) /\ Timed(events)
  <1>1. b.packed \in Seq([delta : Nat, word : Nat]) /\ IsSequence(b.packed)
    BY OutputAssumption DEF IsSequence
  <1>2. events = [i \in DOMAIN b.packed |-> events[i]]
    OBVIOUS
  <1>3. IsSequence(events) /\ Len(events) = Len(b.packed) /\ DOMAIN b.packed = 1 .. Len(b.packed)
    BY <1>1, <1>2, SeqLike, SeqFacts
  <1>4. PICK clock : clock = Clocks[p] /\ clock.start \in Nat /\ clock.num \in Nat /\ clock.den \in Nat \ {0}
    BY OutputAssumption
  <1>5. ASSUME NEW i \in DOMAIN b.packed PROVE events[i].ts \in Int
    <2>1. b.packed[i].delta \in Nat
      <3>1. PICK packed, R : packed = b.packed /\ R = [delta : Nat, word : Nat]
        OBVIOUS
      <3>2. packed \in Seq(R) /\ i \in 1 .. Len(packed)
        BY <1>1, <1>3, <3>1
      <3>3. packed[i] \in R
        BY <3>2, ElementOfSeq
      <3>4. QED
        BY <3>1, <3>3
    <2>2. PICK ticks \in Nat : ticks = base + b.packed[i].delta
      BY <2>1
    <2>3. events[i].ts = NsSinceStart(clock, ticks)
      BY <1>4, <2>2 DEF FromPacked
    <2>4. PICK delta \in Nat : delta = IF ticks > clock.start THEN ticks - clock.start ELSE 0
      BY <1>4
    <2>5. NsSinceStart(clock, ticks) = (delta * clock.num) \div clock.den
      BY <2>4 DEF NsSinceStart
    <2>6. PICK n \in Nat, m \in Nat \ {0} : n = delta * clock.num /\ m = clock.den
      <3>1. PICK num \in Nat : num = clock.num
        BY <1>4
      <3>2. delta * num \in Nat
        OBVIOUS
      <3>3. QED
        BY <1>4, <3>1, <3>2
    <2>7. n \div m \in Int
      OBVIOUS
    <2>8. QED
      BY <2>3, <2>5, <2>6, <2>7
  <1>6. QED
    BY <1>3, <1>5 DEF Timed

LEMMA WriteBatchProfiled ==
  ASSUME IInv, Written, Profiled, format = "pprof", NEW p \in Procs, NEW b \in Batches, WriteBatch(p, b)
  PROVE  Profiled'
  <1> USE AreFunctions DEF Functions
  <1>1. PICK base, some, x : base = 3 * Len(given[p]) /\ some = given[p] /\ x = exporter[p]
    OBVIOUS
  <1>2. Twofold(some) /\ base \in Nat
    <2>1. Twofold(some)
      BY <1>1 DEF Written, Stands, Listed, Twofold
    <2>2. Len(some) \in Nat
      BY <2>1, SeqFacts DEF Twofold
    <2>3. QED
      BY <1>1, <2>1, <2>2
  <1>3. PICK events : events = [i \in DOMAIN b.packed |-> FromPacked(Clocks[p], base, b.tid, b.packed[i])]
    OBVIOUS
  <1>4. IsSequence(events) /\ Timed(events)
    BY <1>2, <1>3, TimesAreInt
  <1>5. PICK y : y = PprofWriteBatch(x, events)
    OBVIOUS
  <1>6. y = WriteEvents(p, events)
    BY <1>1, <1>5 DEF WriteEvents
  <1>7. /\ pc[p] = "idle" /\ exporter' = [exporter EXCEPT ![p] = [y EXCEPT !.out = <<>>]]
        /\ pending' = [pending EXCEPT ![p] = Items(p, y.out)]
        /\ pc' = [pc EXCEPT ![p] = IF y.out = <<>> THEN "idle" ELSE "commit"]
        /\ y.out = <<>> => given' = [given EXCEPT ![p] = Append(some, events)] /\ batch' = batch
        /\ then' = [then EXCEPT ![p] = "idle"] /\ file' = file
    BY <1>1, <1>3, <1>6 DEF WriteBatch
  <1>8. PICK flat, longer, more : flat = FlattenSeq(some) /\ more = Append(some, events) /\ longer = FlattenSeq(more)
    OBVIOUS
  <1>9. Joins(longer, flat, events)
    <2>1. PICK S : some \in Seq(Seq(S)) /\ events \in Seq(S)
      BY <1>2, <1>4, TwofoldIn
    <2>2. longer = flat \o events /\ flat \in Seq(S)
      BY <1>8, <2>1, FlattenAppend
    <2>3. IsSequence(flat)
      BY <2>2 DEF IsSequence
    <2>4. QED
      BY <1>4, <2>2, <2>3, JoinsConcat
  <1>10. Tallies(file[p], pending[p], some, batch[p], x, "idle", then[p])
    BY <1>1, <1>7 DEF Profiled
  <1>11. file[p] = <<>> /\ batch[p] = <<>> /\ Tied(x, flat)
    BY <1>8, <1>10 DEF Tallies
  <1>12. Tied(y, longer)
    BY <1>4, <1>5, <1>9, <1>11, BatchTied
  <1>13. y.out = <<>> /\ [y EXCEPT !.out = <<>>] = y
    <2>1. PICK folds, self, none : y = [folds |-> folds, self |-> self, out |-> none] /\ none = <<>>
      BY <1>12 DEF Tied
    <2>2. y.out = none /\ [y EXCEPT !.out = none] = y
      BY <2>1
    <2>3. QED
      BY <2>1, <2>2
  <1>14. Items(p, y.out) = <<>>
    <2>1. PICK items, entries, none : items = Items(p, entries) /\ entries = y.out /\ none = <<>>
      OBVIOUS
    <2>2. IsSequence(entries) /\ Len(entries) = 0
      BY <1>13, <2>1, SeqEmpty
    <2>3. IsSequence(items) /\ Len(items) = 0
      BY <2>1, <2>2, ItemsListed
    <2>4. QED
      BY <2>1, <2>3, SeqFacts
  <1>15. /\ exporter' = [exporter EXCEPT ![p] = y] /\ pending' = [pending EXCEPT ![p] = <<>>]
         /\ pc' = [pc EXCEPT ![p] = "idle"] /\ given' = [given EXCEPT ![p] = more] /\ batch' = batch
    BY <1>7, <1>8, <1>13, <1>14
  <1>16. Alone(p)
    BY <1>7, <1>15 DEF Alone
  <1>17. /\ file'[p] = <<>> /\ pending'[p] = <<>> /\ given'[p] = more /\ batch'[p] = <<>> /\ exporter'[p] = y
         /\ pc'[p] = "idle"
    BY <1>7, <1>11, <1>15
  <1>18. PICK none : none = <<>>
    OBVIOUS
  <1>19. Tallies(none, none, more, none, y, "idle", then'[p])
    BY <1>8, <1>12, <1>18, SamplesNothing DEF Tallies
  <1>20. QED
    BY <1>16, <1>17, <1>18, <1>19, ProfiledOne

LEMMA FinishProfiled ==
  ASSUME IInv, Written, Profiled, format = "pprof", NEW p \in Procs, NEW dropped \in Losses, Finish(p, dropped)
  PROVE  Profiled'
  <1> USE AreFunctions DEF Functions
  <1>1. PICK some, x, y : some = given[p] /\ x = exporter[p] /\ y = PprofFinish(x, dropped)
    OBVIOUS
  <1>2. \A names : WriteEnd(p, names, dropped) = y
    BY <1>1 DEF WriteEnd
  <1>3. /\ pc[p] = "idle" /\ pending' = [pending EXCEPT ![p] = Items(p, y.out)] /\ pc' = [pc EXCEPT ![p] = "commit"]
        /\ exporter' = [exporter EXCEPT ![p] = [y EXCEPT !.out = <<>>]]
        /\ then' = [then EXCEPT ![p] = "closed"] /\ batch' = [batch EXCEPT ![p] = <<>>] /\ file' = file /\ given' = given
    BY <1>2 DEF Finish
  <1>4. Alone(p)
    <2>1. PICK z : z = [y EXCEPT !.out = <<>>]
      OBVIOUS
    <2>2. exporter' = [exporter EXCEPT ![p] = z]
      BY <1>3, <2>1
    <2>3. QED
      BY <1>3, <2>2 DEF Alone
  <1>5. Tallies(file[p], pending[p], some, batch[p], x, "idle", then[p])
    BY <1>1, <1>3 DEF Profiled
  <1>6. PICK events, profile, none : events = FlattenSeq(some) /\ profile = ProfileOf(events) /\ none = <<>>
    OBVIOUS
  <1>7. file[p] = none /\ Tied(x, events)
    BY <1>5, <1>6 DEF Tallies
  <1>8. PICK entry : y.out = <<entry>> /\ entry.samples = profile
    BY <1>1, <1>6, <1>7, FinishTold
  <1>9. Samples(Items(p, y.out), profile)
    <2>1. PICK out, items : out = <<entry>> /\ items = Items(p, out)
      OBVIOUS
    <2>2. IsSequence(out) /\ Len(out) = 1 /\ out[1] = entry
      BY <2>1, SeqOne
    <2>3. DOMAIN items = DOMAIN out /\ DOMAIN out = 1 .. 1 /\ \A i \in DOMAIN items : items[i].entry = out[i]
      BY <2>1, <2>2, ItemsListed, SeqFacts
    <2>4. \A i \in DOMAIN items : items[i].entry = entry
      BY <2>2, <2>3
    <2>5. QED
      BY <1>8, <2>1, <2>4 DEF Samples
  <1>10. PICK more : more = Items(p, y.out)
    OBVIOUS
  <1>11. /\ file'[p] = none /\ pending'[p] = more /\ given'[p] = some /\ batch'[p] = none /\ pc'[p] = "commit"
         /\ then'[p] = "closed"
    BY <1>1, <1>3, <1>6, <1>7, <1>10
  <1>12. Tallies(none, more, some, none, exporter'[p], "commit", "closed")
    BY <1>6, <1>9, <1>10, SamplesNothing DEF Tallies
  <1>13. QED
    BY <1>4, <1>11, <1>12, ProfiledOne

LEMMA SamplesJoined ==
  ASSUME NEW profile, NEW s, IsSequence(s), Samples(s, profile), NEW t, IsSequence(t), Samples(t, profile)
  PROVE  Samples(s \o t, profile)
  <1>1. \A i \in DOMAIN (s \o t) : IF i <= Len(s) THEN i \in DOMAIN s /\ (s \o t)[i] = s[i]
                                   ELSE i - Len(s) \in DOMAIN t /\ (s \o t)[i] = t[i - Len(s)]
    BY SeqConcat
  <1>2. QED
    BY <1>1 DEF Samples

LEMMA SamplesAppended ==
  ASSUME NEW profile, NEW items, IsSequence(items), Samples(items, profile), NEW more, IsSequence(more), Samples(more, profile),
         more # <<>>
  PROVE  Samples(Appended(items, more), profile)
  <1>1. Samples(items \o more, profile)
    BY SamplesJoined
  <1>2. CASE items # <<>>
    <2>1. PICK front, tail, whole : /\ front = Front(items) /\ tail = Tail(more)
                                    /\ whole = Item(Head(more).by, Head(more).entry, "whole")
      OBVIOUS
    <2>2. IsSequence(front) /\ \A i \in DOMAIN front : i \in DOMAIN items /\ front[i] = items[i]
      BY <1>2, <2>1, SeqFront
    <2>3. /\ IsSequence(tail) /\ Head(more) = more[1] /\ 1 \in DOMAIN more
          /\ \A i \in DOMAIN tail : i + 1 \in DOMAIN more /\ tail[i] = more[i + 1]
      BY <2>1, SeqTail
    <2>4. Samples(front, profile) /\ Samples(tail, profile)
      BY <2>2, <2>3 DEF Samples
    <2>5. PICK one : one = <<whole>>
      OBVIOUS
    <2>6. IsSequence(one) /\ Samples(one, profile)
      <3>1. IsSequence(one) /\ Len(one) = 1 /\ one[1] = whole
        BY <2>5, SeqOne
      <3>2. DOMAIN one = 1 .. 1
        BY <3>1, SeqFacts
      <3>3. whole.entry = more[1].entry
        BY <2>1, <2>3 DEF Item
      <3>4. more[1].entry.samples = profile
        BY <2>3 DEF Samples
      <3>5. QED
        BY <3>1, <3>2, <3>3, <3>4 DEF Samples
    <2>7. PICK both : both = front \o one
      OBVIOUS
    <2>8. IsSequence(both) /\ Samples(both, profile)
      BY <2>2, <2>4, <2>6, <2>7, SeqConcat, SamplesJoined
    <2>9. Samples(both \o tail, profile)
      BY <2>3, <2>4, <2>8, SamplesJoined
    <2>10. Appended(items, more) = items \o more \/ Appended(items, more) = both \o tail
      BY <2>1, <2>5, <2>7 DEF Appended
    <2>11. QED
      BY <1>1, <2>9, <2>10
  <1>3. CASE items = <<>>
    BY <1>1, <1>3 DEF Appended
  <1>4. QED
    BY <1>2, <1>3

LEMMA WritePartProfiled ==
  ASSUME IInv, Written, Profiled, format = "pprof", NEW p \in Procs, NEW n \in 0 .. (Len(pending[p]) - 1), WritePart(p, n)
  PROVE  Profiled'
  <1> USE AreFunctions DEF Functions
  <1>1. Path(p) = p
    BY PathsApart DEF OwnPath
  <1>2. PICK more, cut, half, rest :
          /\ cut = pending[p][n + 1].entry /\ half = Item(p, cut, "head") /\ rest = Item(p, cut, "tail")
          /\ IsSequence(more) /\ Len(more) = n + 1 /\ n \in Nat /\ more[n + 1] = half
          /\ \A i \in 1 .. n : more[i] = pending[p][i] /\ i \in DOMAIN pending[p]
          /\ file' = [file EXCEPT ![p] = @ \o more]
          /\ pending'[p][1] = rest /\ n + 1 \in DOMAIN pending[p]
          /\ \A i \in DOMAIN pending'[p] : i # 1 => n + i \in DOMAIN pending[p] /\ pending'[p][i] = pending[p][n + i]
          /\ \A q \in Procs \ {p} : pending'[q] = pending[q]
    <2> DEFINE cut == pending[p][n + 1].entry
               more == SubSeq(pending[p], 1, n) \o <<Item(p, cut, "head")>>
    <2>1. /\ IsSequence(more) /\ Len(more) = n + 1 /\ n \in Nat
          /\ more[n + 1] = Item(p, cut, "head")
          /\ \A i \in 1 .. n : more[i] = pending[p][i] /\ i \in DOMAIN pending[p]
          /\ file' = [file EXCEPT ![Path(p)] = @ \o more]
          /\ pending'[p][1] = Item(p, cut, "tail")
          /\ \A i \in DOMAIN pending'[p] : i # 1 =>
               n + i \in DOMAIN pending[p] /\ pending'[p][i] = pending[p][n + i]
          /\ \A q \in Procs \ {p} : pending'[q] = pending[q]
          /\ n + 1 \in DOMAIN pending[p]
      BY PartDoes DEF Written, Stands
    <2> HIDE DEF more, cut
    <2>2. QED
      BY <1>1, <2>1 DEF cut
  <1>3. PICK old, left : old = pending[p] /\ left = pending'[p]
    OBVIOUS
  <1>4. /\ IsSequence(more) /\ Len(more) = n + 1 /\ n \in Nat /\ more[n + 1] = half
        /\ \A i \in 1 .. n : more[i] = old[i] /\ i \in DOMAIN old
        /\ file' = [file EXCEPT ![p] = @ \o more]
        /\ left[1] = rest /\ n + 1 \in DOMAIN old
        /\ \A i \in DOMAIN left : i # 1 => n + i \in DOMAIN old /\ left[i] = old[n + i]
        /\ \A q \in Procs \ {p} : pending'[q] = pending[q]
    BY <1>2, <1>3
  <1>5. /\ pc[p] = "write" /\ exporter' = exporter /\ pc' = pc /\ then' = then /\ given' = given /\ batch' = batch
    BY DEF WritePart
  <1>6. Alone(p)
    BY <1>4, <1>5 DEF Alone
  <1>7. PICK items, some, profile, new : /\ items = file[p] /\ some = given[p] /\ profile = ProfileOf(FlattenSeq(some))
                                         /\ new = items \o more
    OBVIOUS
  <1>8. Tallies(items, old, some, batch[p], exporter[p], "write", then[p])
    BY <1>3, <1>5, <1>7 DEF Profiled
  <1>9. batch[p] = <<>> /\ then[p] # "idle" /\ Samples(items, profile) /\ Samples(old, profile)
    BY <1>7, <1>8 DEF Tallies
  <1>10. cut.samples = profile /\ half.entry = cut /\ rest.entry = cut
    BY <1>2, <1>3, <1>4, <1>9 DEF Samples, Item
  <1>11. Samples(more, profile)
    <2>1. DOMAIN more = 1 .. (n + 1)
      BY <1>4, SeqFacts
    <2>2. ASSUME NEW i \in DOMAIN more PROVE more[i].entry.samples = profile
      <3>1. CASE i = n + 1
        BY <1>4, <1>10, <3>1
      <3>2. CASE i # n + 1
        <4>1. i \in 1 .. n
          BY <1>4, <2>1, <3>2
        <4>2. more[i] = old[i] /\ i \in DOMAIN old
          BY <1>4, <4>1
        <4>3. QED
          BY <1>9, <4>2 DEF Samples
      <3>3. QED
        BY <3>1, <3>2
    <2>3. QED
      BY <2>2 DEF Samples
  <1>12. Samples(left, profile)
    BY <1>4, <1>9, <1>10 DEF Samples
  <1>13. Samples(new, profile)
    <2>1. IsSequence(items)
      BY <1>7 DEF Written, Stands, Listed
    <2>2. QED
      BY <1>4, <1>7, <1>9, <1>11, <2>1, SamplesJoined
  <1>14. /\ file'[p] = new /\ pending'[p] = left /\ given'[p] = some /\ batch'[p] = <<>> /\ exporter'[p] = exporter[p]
         /\ pc'[p] = "write" /\ then'[p] = then[p]
    BY <1>3, <1>4, <1>5, <1>7, <1>9
  <1>15. Tallies(file'[p], pending'[p], given'[p], batch'[p], exporter'[p], pc'[p], then'[p])
    BY <1>7, <1>9, <1>12, <1>13, <1>14 DEF Tallies
  <1>16. QED
    BY <1>6, <1>15, ProfiledOne

LEMMA WriteRestProfiled ==
  ASSUME IInv, Written, Profiled, format = "pprof", NEW p \in Procs, WriteRest(p)
  PROVE  Profiled'
  <1> USE AreFunctions DEF Functions
  <1>1. Path(p) = p
    BY PathsApart DEF OwnPath
  <1>2. PICK items, more, some, profile, new : /\ items = file[p] /\ more = pending[p] /\ some = given[p]
                                         /\ profile = ProfileOf(FlattenSeq(some)) /\ new = Appended(items, more)
    OBVIOUS
  <1>3. Tallies(items, more, some, batch[p], exporter[p], "write", then[p])
    BY <1>2 DEF Profiled, WriteRest
  <1>4. batch[p] = <<>> /\ then[p] # "idle" /\ Samples(items, profile) /\ Samples(more, profile)
    BY <1>2, <1>3 DEF Tallies
  <1>5. IsSequence(items) /\ IsSequence(more) /\ more # <<>> /\ IsSequence(some)
    BY <1>2 DEF Written, Stands, Listed, Cut, WriteRest
  <1>6. some \o batch[p] = some
    <2>1. PICK S : some \in Seq(S)
      BY <1>5 DEF IsSequence
    <2>2. QED
      BY <1>4, <2>1
  <1>7. /\ file' = [file EXCEPT ![p] = new] /\ pending' = [pending EXCEPT ![p] = <<>>]
        /\ given' = [given EXCEPT ![p] = some] /\ batch' = [batch EXCEPT ![p] = <<>>]
        /\ pc' = [pc EXCEPT ![p] = then[p]] /\ exporter' = exporter /\ then' = then
    <2>1. given' = [given EXCEPT ![p] = given[p] \o batch[p]]
      BY DEF WriteRest, Kept
    <2>2. file' = [file EXCEPT ![p] = Appended(file[p], pending[p])]
      BY <1>1 DEF WriteRest
    <2>3. /\ pending' = [pending EXCEPT ![p] = <<>>] /\ batch' = [batch EXCEPT ![p] = <<>>]
          /\ pc' = [pc EXCEPT ![p] = then[p]] /\ exporter' = exporter /\ then' = then
      BY DEF WriteRest, Done
    <2>4. given[p] \o batch[p] = some
      BY <1>2, <1>6
    <2>5. QED
      BY <1>2, <2>1, <2>2, <2>3, <2>4
  <1>8. Alone(p)
    BY <1>7 DEF Alone
  <1>9. Samples(new, profile)
    BY <1>2, <1>4, <1>5, SamplesAppended
  <1>10. PICK none, after : none = <<>> /\ after = then[p]
    OBVIOUS
  <1>11. /\ file'[p] = new /\ pending'[p] = none /\ given'[p] = some /\ batch'[p] = none /\ pc'[p] = after
         /\ then'[p] = after
    BY <1>7, <1>10
  <1>12. Tallies(new, none, some, none, exporter'[p], after, after)
    BY <1>2, <1>4, <1>9, <1>10, SamplesNothing DEF Tallies
  <1>13. QED
    BY <1>8, <1>11, <1>12, ProfiledOne

LEMMA ProfiledAlways == Spec => []Profiled
  <1>1. Init => Profiled
    <2> SUFFICES ASSUME Init, NEW p \in Procs
                 PROVE  Tallies(file[p], pending[p], given[p], batch[p], exporter[p], pc[p], then[p])
      BY DEF Profiled
    <2>1. PICK none : none = <<>>
      OBVIOUS
    <2>2. /\ file[p] = none /\ pending[p] = none /\ given[p] = none /\ batch[p] = none /\ pc[p] = "unborn"
      BY <2>1 DEF Init
    <2>3. Tallies(none, none, none, none, exporter[p], "unborn", then[p])
      BY <2>1, SamplesNothing DEF Tallies
    <2>4. QED
      BY <2>2, <2>3
  <1>2. IInv /\ Written /\ Profiled /\ [Next]_vars => Profiled'
    <2> SUFFICES ASSUME IInv, Written, Profiled, [Next]_vars PROVE Profiled'
      OBVIOUS
    <2>1. CASE UNCHANGED vars
      BY <2>1 DEF vars, Profiled
    <2>2. CASE Next
      <3>1. format' = format
        <4>1. Advertise \/ (\E c \in Kids, forked \in BOOLEAN : Launch(c, forked)) => format' = format
          BY DEF Advertise, Launch
        <4>2. ASSUME NEW p \in Procs
              PROVE  CommitNothing(p) \/ Acquire(p) \/ AcquireFails(p) \/ WriteFails(p) \/ Kill(p) => format' = format
          BY DEF CommitNothing, Acquire, AcquireFails, WriteFails, Kill
        <4>3. ASSUME NEW p \in Procs, NEW b PROVE Open(p) \/ WriteBatch(p, b) => format' = format
          BY DEF Open, WriteBatch
        <4>4. ASSUME NEW p \in Procs, NEW n PROVE Finish(p, n) \/ WritePart(p, n) \/ WriteRest(p) => format' = format
          BY DEF Finish, WritePart, WriteRest
        <4>5. QED
          BY <2>2, <4>1, <4>2, <4>3, <4>4 DEF Next
      <3> SUFFICES ASSUME format = "pprof" PROVE Profiled'
        BY <3>1 DEF Profiled
      <3>2. \/ Advertise \/ \E c \in Kids, forked \in BOOLEAN : Launch(c, forked)
            \/ \E p \in Procs : CommitNothing(p) \/ Acquire(p) \/ AcquireFails(p) \/ WriteFails(p) \/ Kill(p)
            \/ \E p \in Procs : \/ Open(p) \/ \E b \in Batches : WriteBatch(p, b)
                                \/ \E dropped \in Losses : Finish(p, dropped)
                                \/ \E n \in 0 .. (Len(pending[p]) - 1) : WritePart(p, n)
                                \/ WriteRest(p)
        BY <2>2 DEF Next
      <3>3. ASSUME NEW p \in Procs, Open(p) PROVE Profiled'
        BY <3>3, OpenProfiled
      <3>4. ASSUME NEW p \in Procs, NEW b \in Batches, WriteBatch(p, b) PROVE Profiled'
        BY <3>4, WriteBatchProfiled
      <3>5. ASSUME NEW p \in Procs, NEW dropped \in Losses, Finish(p, dropped) PROVE Profiled'
        BY <3>5, FinishProfiled
      <3>6. ASSUME NEW p \in Procs, NEW n \in 0 .. (Len(pending[p]) - 1), WritePart(p, n) PROVE Profiled'
        BY <3>6, WritePartProfiled
      <3>7. ASSUME NEW p \in Procs, WriteRest(p) PROVE Profiled'
        BY <3>7, WriteRestProfiled
      <3>8. QED
        BY <3>2, <3>3, <3>4, <3>5, <3>6, <3>7, QuietProfiled
    <2>3. QED
      BY <2>1, <2>2
  <1>3. QED
    BY <1>1, <1>2, WritingInvariant, PTL DEF Spec

\* For any number of processes, threads, batches, runs and faults: a profile that
\* is written whole holds, for every stack in which time was spent, the time spent
\* in it, as counting a thread's opens and closes tells which of its calls are open
\* (PprofExporter::write_batch folds the events into stacks and self times as they
\* come, and a batch may end anywhere in a call).
THEOREM ProfilesAreTime == Spec => []ProfileIsTime
  <1>1. ASSUME Written, Profiled PROVE ProfileIsTime
    <2> SUFFICES ASSUME format = "pprof", NEW p \in Procs, file[Path(p)] # <<>>
                 PROVE  file[Path(p)][1].entry.samples = ProfileOf(FlattenSeq(given[p]))
      BY DEF ProfileIsTime
    <2>1. PICK items : items = file[p]
      OBVIOUS
    <2>2. Path(p) = p /\ IsSequence(items) /\ items # <<>>
      BY <1>1, <2>1, PathsApart DEF OwnPath, Written, Stands, Listed
    <2>3. 1 \in DOMAIN items
      BY <2>2, SeqTail
    <2>4. Tallies(items, pending[p], given[p], batch[p], exporter[p], pc[p], then[p])
      BY <1>1, <2>1 DEF Profiled
    <2>5. QED
      BY <2>1, <2>2, <2>3, <2>4 DEF Tallies, Samples
  <1>2. QED
    BY <1>1, ProfiledAlways, WritingInvariant, PTL

=============================================================================
