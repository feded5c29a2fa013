---------------------------- MODULE JsonExporter ----------------------------
(***************************************************************************)
(* JsonExporter (crates/json/src/lib.rs) as operators on its state,        *)
(* [pid, out].  An entry is one object of the array; the "head" is its     *)
(* bracket.  The template of a code is a function of the code and is left  *)
(* out.                                                                    *)
(***************************************************************************)
EXTENDS Events, Sequences, SequencesExt

\* Mutant: every process opens the array.
NewJsonWithHead(pid, append) ==
    [pid |-> pid, out |-> <<[type |-> "head"]>>]

\* create writes the bracket, append does not.
NewJson(pid, append) ==
    [pid |-> pid, out |-> IF append THEN <<>> ELSE <<[type |-> "head"]>>]

JsonEvent(x, ev) ==
    [type |-> "event", pid |-> x.pid, tid |-> ev.tid, code |-> CodeIdOf(ev.word),
     opens |-> OpensSlice(KindOf(ev.word)), ts |-> ev.ts]

JsonWriteBatch(x, events) ==
    [x EXCEPT !.out = @ \o [i \in DOMAIN events |-> JsonEvent(x, events[i])]]

\* names: the threads whose names are known.
JsonFinish(x, names, dropped) ==
    [x EXCEPT !.out = @ \o SetToSeq({[type |-> "thread_name", pid |-> x.pid, tid |-> tid] : tid \in names})
                        \o IF dropped = 0 THEN <<>>
                           ELSE <<[type |-> "dropped", pid |-> x.pid, count |-> dropped]>>]

\* A reader that looks for the events of the process pid.
ReadObject(events, pid, e) ==
    IF e.type = "event" /\ e.pid = pid
    THEN Append(events, [pid |-> e.pid, tid |-> e.tid, code |-> e.code, opens |-> e.opens, ts |-> e.ts])
    ELSE events

ReadJson(entries, pid) ==
    LET read[n \in 0 .. Len(entries)] == IF n = 0 THEN <<>> ELSE ReadObject(read[n - 1], pid, entries[n])
    IN read[Len(entries)]
=============================================================================
