--------------------------- MODULE PprofExporter ---------------------------
(***************************************************************************)
(* PprofExporter (crates/pprof/src/lib.rs): per thread a stack of open     *)
(* frames and the time of the last event; the time in between goes to the  *)
(* stack.  An exporter is [folds, self, out].                              *)
(***************************************************************************)
EXTENDS Events, Integers, Sequences, SequencesExt

NewPprof == [folds |-> <<>>, self |-> <<>>, out |-> <<>>]

\* The stack before an event is charged for the time up to it.
Charge(self, stack, elapsed) ==
    IF elapsed = 0 \/ stack = <<>> THEN self
    ELSE IF stack \in DOMAIN self THEN [self EXCEPT ![stack] = @ + elapsed]
    ELSE With(self, stack, elapsed)

\* A close with no frame open pops nothing.
Moved(stack, ev) ==
    IF OpensSlice(KindOf(ev.word)) THEN Append(stack, CodeIdOf(ev.word))
    ELSE IF stack = <<>> THEN stack ELSE Front(stack)

\* Mutant: the frame an event opens is charged for the time before it.
FoldEventAfter(x, ev) ==
    LET fold == IF ev.tid \in DOMAIN x.folds THEN x.folds[ev.tid] ELSE [stack |-> <<>>, last |-> ev.ts]
        elapsed == IF ev.ts > fold.last THEN ev.ts - fold.last ELSE 0
    IN [x EXCEPT !.self = Charge(@, Moved(fold.stack, ev), elapsed),
                 !.folds = With(@, ev.tid, [stack |-> Moved(fold.stack, ev), last |-> ev.ts])]

FoldEvent(x, ev) ==
    LET fold == IF ev.tid \in DOMAIN x.folds THEN x.folds[ev.tid] ELSE [stack |-> <<>>, last |-> ev.ts]
        elapsed == IF ev.ts > fold.last THEN ev.ts - fold.last ELSE 0
    IN [x EXCEPT !.self = Charge(@, fold.stack, elapsed),
                 !.folds = With(@, ev.tid, [stack |-> Moved(fold.stack, ev), last |-> ev.ts])]

PprofWriteBatch(x, events) ==
    LET folded[n \in 0 .. Len(events)] == IF n = 0 THEN x ELSE FoldEvent(folded[n - 1], events[n])
    IN folded[Len(events)]

\* Samples are written leaf first, with the functions they name.
PprofFinish(x, dropped) ==
    [x EXCEPT !.self = <<>>,
              !.out = Append(@, [type |-> "profile", dropped |-> dropped,
                  functions |-> UNION {ToSet(stack) : stack \in DOMAIN x.self},
                  samples |-> {[leafFirst |-> Reverse(stack), ns |-> x.self[stack]] : stack \in DOMAIN x.self}])]

---------------------------------------------------------------------------
(* What a profile promises, without a stack machine: events is the whole    *)
(* stream of a process.                                                     *)

\* Of the first n events those of tid that open, or that do not.
Moves(events, tid, n, open) == {k \in 1 .. n : events[k].tid = tid /\ OpensSlice(KindOf(events[k].word)) = open}

\* How deep tid is after n events; below 0 if frames were open from the start.
Depth(events, tid, n) == Cardinality(Moves(events, tid, n, TRUE)) - Cardinality(Moves(events, tid, n, FALSE))

\* The events whose frames are open after n events: nowhere since has tid been
\* above them.
StillOpen(events, tid, n) ==
    {j \in Moves(events, tid, n, TRUE) : \A k \in j .. n : Depth(events, tid, k) >= Depth(events, tid, j)}

\* What stands at the indices some, up to n.
CodesAt(events, some, n) ==
    LET codes[k \in 0 .. n] ==
            IF k = 0 THEN <<>>
            ELSE IF k \in some THEN Append(codes[k - 1], CodeIdOf(events[k].word)) ELSE codes[k - 1]
    IN codes[n]

StackAfter(events, tid, n) == CodesAt(events, StillOpen(events, tid, n), n)

\* The span that ends with event n, and the stack it was spent in.
Spent(events, n) ==
    LET earlier == {m \in 1 .. (n - 1) : events[m].tid = events[n].tid}
        last == events[Max(earlier)].ts
    IN IF earlier # {} /\ events[n].ts > last THEN events[n].ts - last ELSE 0

StackBefore(events, n) == StackAfter(events, events[n].tid, n - 1)

TimeIn(events, stack) ==
    LET time[n \in 0 .. Len(events)] ==
            IF n = 0 THEN 0
            ELSE time[n - 1] + IF StackBefore(events, n) = stack THEN Spent(events, n) ELSE 0
    IN time[Len(events)]

ProfileOf(events) ==
    LET stacks == {StackBefore(events, n) : n \in DOMAIN events} \ {<<>>}
    IN {[leafFirst |-> Reverse(stack), ns |-> TimeIn(events, stack)] :
            stack \in {some \in stacks : TimeIn(events, some) > 0}}
=============================================================================
