------------------------------- MODULE Output -------------------------------
(***************************************************************************)
(* What the processes of a traced program write (crates/core/src/output.rs,*)
(* the exporters, crates/py/src/format.rs and the start of a run): each    *)
(* has an exporter with a SharedFile of its own.  A commit takes the       *)
(* file's lock, appends and unlocks; the append may come in two halves.    *)
(*                                                                         *)
(* An item of a file is [by, entry, part], part one of "whole", "head" and *)
(* "tail".  flock belongs to an open file description, which a forked      *)
(* child shares: a lock is released by its owner or when nobody has the    *)
(* description open any more.                                              *)
(***************************************************************************)
EXTENDS ProtoExporter, JsonExporter, PprofExporter

CONSTANTS Root, Kids,     \* the process that is traced first, with slot 0; its children, with
                          \* their pids for slots
          Formats,
          Batches,        \* what a thread may hand over: sequences of [delta, word], with its tid
          MaxBatches,     \* of all processes
          MaxRuns,        \* of the root, into the same output
          MaxFaults,      \* killed processes, failed locks and writes
          Losses,         \* what a run may have dropped
          Clocks,         \* each process has a clock of its own
          NoOne

Procs == {Root} \cup Kids

Slot(p) == IF p = Root THEN 0 ELSE p
Pid(p) == IF p = Root THEN 1000 ELSE p

ASSUME OutputAssumption ==
    /\ Root \notin Kids /\ Kids \subseteq Nat \ {0, Pid(Root)} /\ NoOne \notin Procs
    /\ Formats \subseteq {"protobuf", "json", "pprof"}
    /\ \A b \in Batches : b.packed \in Seq([delta : Nat, word : Nat])
    /\ Clocks \in [Procs -> [start : Nat, num : Nat, den : Nat \ {0}]]
    /\ MaxBatches \in Nat /\ MaxFaults \in Nat /\ MaxRuns \in Nat /\ Losses \subseteq Nat

VARIABLES
    format,      \* of the run, which children are told
    file,        \* file[path]
    lock,        \* lock[path]: whose description holds the flock
    opened,      \* opened[p]: the processes that have p's description open
    pc,          \* pc[p]
    exporter,    \* exporter[p]
    pending,     \* what a commit has still to append
    then,        \* what p does after the commit
    given,       \* history: given[p], the events of the batches p has committed
    batch,       \* the events of the commit under way
    runs,        \* the root's runs
    faults,      \* how many there were, bounded by MaxFaults
    batches,     \* how many there were, bounded by MaxBatches
    unsettled    \* history: a child came before the root had created the output

vars == <<format, file, lock, opened, pc, exporter, pending, then, given, batch, runs, batches, faults, unsettled>>

\* A child's profile has a name of its own.
Path(p) == IF format = "pprof" /\ p # Root THEN p ELSE Root

NewExporter(f, p) ==
    CASE f = "protobuf" -> NewProto(Slot(p), Pid(p))
      [] f = "json" -> NewJson(Pid(p), p # Root)
      [] f = "pprof" -> NewPprof

WriteEvents(p, events) ==
    CASE format = "protobuf" -> ProtoWriteBatch(exporter[p], events)
      [] format = "json" -> JsonWriteBatch(exporter[p], events)
      [] format = "pprof" -> PprofWriteBatch(exporter[p], events)

WriteEnd(p, names, dropped) ==
    CASE format = "protobuf" -> ProtoFinish(exporter[p], dropped)
      [] format = "json" -> JsonFinish(exporter[p], names, dropped)
      [] format = "pprof" -> PprofFinish(exporter[p], dropped)

Init ==
    /\ format \in Formats
    /\ file = [p \in Procs |-> <<>>] /\ lock = [p \in Procs |-> NoOne]
    /\ opened = [p \in Procs |-> {}]
    /\ pc = [p \in Procs |-> "unborn"]
    /\ exporter = [p \in Procs |-> NewExporter(format, p)]
    /\ pending = [p \in Procs |-> <<>>] /\ then = [p \in Procs |-> "idle"]
    /\ given = [p \in Procs |-> <<>>] /\ batch = [p \in Procs |-> <<>>]
    /\ runs = 0 /\ batches = 0 /\ faults = 0 /\ unsettled = FALSE

---------------------------------------------------------------------------
Alive(p) == pc[p] \notin {"unborn", "dead"}

\* From __enter__, which first advertises, to __exit__.
Advertise ==
    /\ pc[Root] \in {"unborn", "closed", "failed"} /\ runs < MaxRuns
    /\ runs' = runs + 1
    /\ pc' = [pc EXCEPT ![Root] = "start"]
    /\ UNCHANGED <<format, file, lock, opened, exporter, pending, then, given, batch, batches, faults, unsettled>>

\* create commits with the GIL, and when the run ends children are no longer
\* traced.
NoChildren == pc[Root] \in {"unborn", "closed", "dead"} \/ (pc[Root] \in {"commit", "write"} /\ batch[Root] = <<>>)

\* A child that is forked has its parent's descriptions, one that is launched has not.
Launch(c, forked) ==
    /\ pc[c] = "unborn" /\ ~NoChildren
    /\ forked => pc[Root] # "start"
    /\ pc' = [pc EXCEPT ![c] = "start"]
    /\ opened' = IF forked THEN [opened EXCEPT ![Root] = @ \cup {c}] ELSE opened
    /\ unsettled' = (unsettled \/ pc[Root] = "start" \/ (pc[Root] = "failed" /\ given[Root] = <<>>))
    /\ UNCHANGED <<format, file, lock, exporter, pending, then, given, batch, runs, batches, faults>>

\* Format::open: create for the root and for a profile, append for the rest.
StartsOver(p) == p = Root \/ format = "pprof"

Item(p, entry, part) == [by |-> p, entry |-> entry, part |-> part]
Items(p, entries) == [i \in DOMAIN entries |-> Item(p, entries[i], "whole")]

Open(p) ==
    /\ pc[p] = "start"
    /\ file' = IF StartsOver(p) THEN [file EXCEPT ![Path(p)] = <<>>] ELSE file
    /\ opened' = [opened EXCEPT ![p] = {p}]
    /\ LET x == NewExporter(format, p)
       IN /\ exporter' = [exporter EXCEPT ![p] = [x EXCEPT !.out = <<>>]]
          /\ pending' = [pending EXCEPT ![p] = Items(p, x.out)]
          /\ pc' = [pc EXCEPT ![p] = IF x.out = <<>> THEN "idle" ELSE "commit"]
    /\ then' = [then EXCEPT ![p] = "idle"]
    /\ given' = [q \in Procs |-> IF q = p \/ (StartsOver(p) /\ Path(q) = Path(p)) THEN <<>> ELSE given[q]]
    /\ batch' = [batch EXCEPT ![p] = <<>>]
    /\ unsettled' = (unsettled \/ (p = Root /\ \E c \in Kids : pc[c] \notin {"unborn", "closed", "failed", "dead"}))
    /\ UNCHANGED <<format, lock, runs, batches, faults>>

\* Writer::drain: a batch's events get their times and go to the exporter, which
\* flushes.  A profile has nothing to commit yet.
WriteBatch(p, b) ==
    /\ pc[p] = "idle" /\ batches < MaxBatches /\ batches' = batches + 1
    /\ LET base == 3 * Len(given[p])
           events == [i \in DOMAIN b.packed |-> FromPacked(Clocks[p], base, b.tid, b.packed[i])]
           x == WriteEvents(p, events)
       IN /\ exporter' = [exporter EXCEPT ![p] = [x EXCEPT !.out = <<>>]]
          /\ pending' = [pending EXCEPT ![p] = Items(p, x.out)]
          /\ pc' = [pc EXCEPT ![p] = IF x.out = <<>> THEN "idle" ELSE "commit"]
          /\ IF x.out = <<>>
             THEN given' = [given EXCEPT ![p] = Append(@, events)] /\ UNCHANGED batch
             ELSE batch' = [batch EXCEPT ![p] = <<events>>] /\ UNCHANGED given
    /\ then' = [then EXCEPT ![p] = "idle"]
    /\ UNCHANGED <<format, file, lock, opened, runs, faults, unsettled>>

\* run_pipeline's end: finish, then the exporter is dropped.
Finish(p, dropped) ==
    /\ pc[p] = "idle"
    /\ LET x == WriteEnd(p, {ev.tid : ev \in UNION {ToSet(b) : b \in ToSet(given[p])}}, dropped)
       IN /\ exporter' = [exporter EXCEPT ![p] = [x EXCEPT !.out = <<>>]]
          /\ pending' = [pending EXCEPT ![p] = Items(p, x.out)]
          /\ pc' = [pc EXCEPT ![p] = "commit"]
    /\ then' = [then EXCEPT ![p] = "closed"] /\ batch' = [batch EXCEPT ![p] = <<>>]
    /\ UNCHANGED <<format, file, lock, opened, given, runs, batches, faults, unsettled>>

---------------------------------------------------------------------------
(* SharedFile::commit.                                                      *)

\* p is done with the commit; a description nobody has open is gone.
Done(p) ==
    /\ pc' = [pc EXCEPT ![p] = then[p]]
    /\ opened' = IF then[p] # "idle" THEN [opened EXCEPT ![p] = @ \ {p}] ELSE opened

Kept(p) == [given EXCEPT ![p] = @ \o batch[p]]

CommitNothing(p) ==
    /\ pc[p] = "commit" /\ pending[p] = <<>>
    /\ Done(p)
    /\ UNCHANGED <<format, file, lock, exporter, pending, then, given, batch, runs, batches, faults, unsettled>>

Fault == faults < MaxFaults /\ faults' = faults + 1

\* Mutant: appends without the lock.
AcquireNothing(p) ==
    /\ pc[p] = "commit" /\ pending[p] # <<>>
    /\ pc' = [pc EXCEPT ![p] = "write"]
    /\ UNCHANGED <<format, file, lock, opened, exporter, pending, then, given, batch, runs, batches, faults, unsettled>>

Acquire(p) ==
    /\ pc[p] = "commit" /\ pending[p] # <<>> /\ lock[Path(p)] = NoOne
    /\ lock' = [lock EXCEPT ![Path(p)] = p]
    /\ pc' = [pc EXCEPT ![p] = "write"]
    /\ UNCHANGED <<format, file, opened, exporter, pending, then, given, batch, runs, batches, faults, unsettled>>

\* flock fails (a signal handler interrupts it): the exporter's thread ends, and
\* the buffer is committed once more when the exporter is dropped.
AcquireFails(p) ==
    /\ pc[p] = "commit" /\ pending[p] # <<>> /\ Fault
    /\ then' = [then EXCEPT ![p] = "failed"]
    /\ IF then[p] # "failed" THEN UNCHANGED <<pc, opened, pending>>
       ELSE Done(p) /\ pending' = [pending EXCEPT ![p] = <<>>]
    /\ UNCHANGED <<format, file, lock, exporter, given, batch, runs, batches, unsettled>>

Unlock(p) == lock' = IF lock[Path(p)] = p THEN [lock EXCEPT ![Path(p)] = NoOne] ELSE lock

\* The first n entries and half of the next.
WritePart(p, n) ==
    /\ pc[p] = "write" /\ n < Len(pending[p]) /\ Head(pending[p]).part = "whole"
    /\ LET cut == pending[p][n + 1].entry
       IN /\ file' = [file EXCEPT ![Path(p)] =
                        @ \o SubSeq(pending[p], 1, n) \o <<Item(p, cut, "head")>>]
          /\ pending' = [pending EXCEPT ![p] =
                           <<Item(p, cut, "tail")>> \o SubSeq(@, n + 2, Len(@))]
    /\ UNCHANGED <<format, lock, opened, pc, exporter, then, given, batch, runs, batches, faults, unsettled>>

\* A half right behind its first half makes the entry whole.
Appended(items, more) ==
    IF /\ items # <<>> /\ more # <<>> /\ Head(more).part = "tail"
       /\ Last(items) = Item(Head(more).by, Head(more).entry, "head")
    THEN Front(items) \o <<Item(Head(more).by, Head(more).entry, "whole")>> \o Tail(more)
    ELSE items \o more

WriteRest(p) ==
    /\ pc[p] = "write"
    /\ file' = [file EXCEPT ![Path(p)] = Appended(@, pending[p])]
    /\ pending' = [pending EXCEPT ![p] = <<>>]
    /\ given' = Kept(p) /\ batch' = [batch EXCEPT ![p] = <<>>]
    /\ Unlock(p) /\ Done(p)
    /\ UNCHANGED <<format, exporter, then, runs, batches, faults, unsettled>>

\* Mutant: the error path keeps the lock.
FailLocked(p) ==
    /\ pc[p] = "write" /\ Fault
    /\ pending' = [pending EXCEPT ![p] = <<>>]
    /\ pc' = [pc EXCEPT ![p] = "failed"]
    /\ UNCHANGED <<format, file, lock, opened, exporter, then, given, batch, runs, batches, unsettled>>

\* Mutant: the buffer is kept.
FailUncleared(p) ==
    /\ pc[p] = "write" /\ Fault
    /\ pc' = [pc EXCEPT ![p] = "failed"]
    /\ opened' = [opened EXCEPT ![p] = @ \ {p}]
    /\ Unlock(p)
    /\ UNCHANGED <<format, file, exporter, pending, then, given, batch, runs, batches, unsettled>>

\* write_all fails, the disk is full: what is left is dropped, and the run with it.
WriteFails(p) ==
    /\ pc[p] = "write" /\ Fault
    /\ pending' = [pending EXCEPT ![p] = <<>>]
    /\ pc' = [pc EXCEPT ![p] = "failed"]
    /\ opened' = [opened EXCEPT ![p] = @ \ {p}]
    /\ Unlock(p)
    /\ UNCHANGED <<format, file, exporter, then, given, batch, runs, batches, unsettled>>

\* SIGKILL, of a process that still writes.
Kill(p) ==
    /\ pc[p] \in {"start", "idle", "commit", "write"} /\ Fault
    /\ pc' = [pc EXCEPT ![p] = "dead"]
    /\ pending' = [pending EXCEPT ![p] = <<>>]
    /\ opened' = [q \in Procs |-> opened[q] \ {p}]
    /\ lock' = [path \in Procs |-> IF lock[path] # NoOne /\ opened'[lock[path]] = {} THEN NoOne ELSE lock[path]]
    /\ UNCHANGED <<format, file, exporter, then, given, batch, runs, batches, unsettled>>

Next ==
    \/ Advertise
    \/ \E c \in Kids, forked \in BOOLEAN : Launch(c, forked)
    \/ \E p \in Procs :
         \/ Open(p)
         \/ \E b \in Batches : WriteBatch(p, b)
         \/ \E dropped \in Losses : Finish(p, dropped)
         \/ CommitNothing(p) \/ Acquire(p) \/ AcquireFails(p)
         \/ (\E n \in 0 .. (Len(pending[p]) - 1) : WritePart(p, n))
         \/ WriteRest(p) \/ WriteFails(p) \/ Kill(p)

Spec == Init /\ [][Next]_vars

---------------------------------------------------------------------------
\* The entries of a file up to one that is cut.
Taken(path) ==
    LET cut == SelectInSeq(file[path], LAMBDA item : item.part # "whole")
        whole == IF cut = 0 THEN file[path] ELSE SubSeq(file[path], 1, cut - 1)
    IN [i \in DOMAIN whole |-> whole[i].entry]

Whole(path) == \A i \in DOMAIN file[path] : file[path][i].part = "whole"

\* What a reader of p's output sees of p.
ReadOf(p) ==
    CASE format = "protobuf" -> ReadProto(Taken(Path(p)), Pid(p))
      [] format = "json" -> ReadJson(Taken(Path(p)), Pid(p))
      [] OTHER -> <<>>

\* What a reader is to see of an event of p: protobuf does not name what closes.
Seen(p, ev) ==
    [pid |-> Pid(p), tid |-> ev.tid, opens |-> OpensSlice(KindOf(ev.word)), ts |-> ev.ts,
     code |-> IF format = "json" \/ OpensSlice(KindOf(ev.word)) THEN CodeIdOf(ev.word) ELSE 0]

SeenOf(p, some) ==
    LET events == FlattenSeq(some) IN [i \in DOMAIN events |-> Seen(p, events[i])]

TypeOK ==
    /\ format \in Formats
    /\ \A p \in Procs :
         /\ lock[p] \in Procs \cup {NoOne} /\ opened[p] \subseteq {q \in Procs : Alive(q)}
         /\ pc[p] \in {"unborn", "start", "idle", "commit", "write", "closed", "failed", "dead"}
         /\ then[p] \in {"idle", "closed", "failed"}
         /\ pending[p] # <<>> => pc[p] \in {"commit", "write"}
    /\ runs \in 0 .. MaxRuns /\ batches \in 0 .. MaxBatches /\ faults \in 0 .. MaxFaults /\ unsettled \in BOOLEAN

\* An entry is never split by another process; one that is cut off is the work of
\* a process that was killed, or whose disk was full, in the middle of a commit.
CommitsAreWhole ==
    ~unsettled => \A path \in Procs : \A i \in DOMAIN file[path] :
        LET item == file[path][i]
        IN item.part # "whole" => item.part = "head" /\ pc[item.by] \in {"write", "failed", "dead", "start"}

\* A reader gets every process' committed events back, in order and with their
\* names and tracks, whichever processes, threads and batches are in between: a
\* name is interned before it is used, in the sequence that uses it.  Behind a
\* cut entry nothing can be read.
ReadBack ==
    ~unsettled =>
        \A p \in Procs : format # "pprof" =>
            /\ IsPrefix(ReadOf(p), SeenOf(p, given[p] \o batch[p]))
            /\ Whole(Path(p)) => ReadOf(p) = SeenOf(p, given[p])

\* Only a process that was killed leaves the file locked, and only as long as a
\* child it forked is alive, which has its description: until then every other
\* process waits in flock.
LockIsReleased ==
    \A p \in Procs : lock[Path(p)] = p =>
        pc[p] = "write" \/ (pc[p] = "dead" /\ \E c \in Kids : c \in opened[p] /\ Alive(c))

\* The array is opened once, by the first entry, unless a child of an earlier
\* run, or one that was launched once the output was advertised, is writing when
\* the root opens it.
HeadFirst ==
    format = "json" /\ ~unsettled =>
        LET entries == Taken(Root)
        IN \A i \in DOMAIN entries : entries[i].type = "head" <=> i = 1

\* A profile holds, for every stack, the time its threads spent in it.
ProfileIsTime ==
    format = "pprof" => \A p \in Procs :
        file[Path(p)] # <<>> /\ Whole(Path(p)) /\ ~unsettled =>
            file[Path(p)][1].entry.samples = ProfileOf(FlattenSeq(given[p]))
=============================================================================
