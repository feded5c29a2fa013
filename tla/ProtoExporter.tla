--------------------------- MODULE ProtoExporter ---------------------------
(***************************************************************************)
(* ProtoExporter (crates/proto/src/lib.rs) as operators on its state, and  *)
(* what a reader of the packets makes of them.                             *)
(*                                                                         *)
(* A packet is a record with the fields that tell packets apart; uuids are *)
(* pairs, process_uuid_of(pid) is <<pid, 1>> and 1 + index is added to its *)
(* second part.  An exporter is                                            *)
(*   [slot, pid, emitted, sequences, templates, out]                       *)
(* with sequences[tid] = [id, iids], iids[i] the code whose iid is i, and  *)
(* out what SharedFile has buffered.                                       *)
(***************************************************************************)
EXTENDS Events, Sequences, SequencesExt

CONSTANT SequencesPerSlot   \* 128
ASSUME SlotAssumption == SequencesPerSlot \in Nat \ {0, 1}

ProcessSequenceId(slot) == slot * SequencesPerSlot + 1
SequenceId(slot, index) == slot * SequencesPerSlot + 1 + 1 + index

NewProto(slot, pid) ==
    [slot |-> slot, pid |-> pid, emitted |-> FALSE, sequences |-> <<>>, templates |-> <<>>, out |-> <<>>]

WritePacket(x, packet) == [x EXCEPT !.out = Append(@, packet)]

EnsureProcess(x) ==
    IF x.emitted THEN x
    ELSE [WritePacket(x, [type |-> "process", seq |-> ProcessSequenceId(x.slot), pid |-> x.pid])
            EXCEPT !.emitted = TRUE]

\* Names the thread's track, which later packets of its sequence are on.
EnsureSequence(x, tid) ==
    LET index == Cardinality(DOMAIN x.sequences)
        id == SequenceId(x.slot, index)
    IN IF tid \in DOMAIN x.sequences THEN x
       ELSE [WritePacket(x, [type |-> "thread", seq |-> id, pid |-> x.pid, tid |-> tid,
                             track |-> <<x.pid, 1 + 1 + index>>])
               EXCEPT !.sequences = With(@, tid, [id |-> id, iids |-> <<>>])]

\* Interns a code in the thread's sequence: a reader keeps names per sequence.
CodeIid(x, tid, code) ==
    LET seq == x.sequences[tid]
    IN IF code \in ToSet(seq.iids) THEN x
       ELSE [WritePacket(x, [type |-> "name", seq |-> seq.id, iid |-> Len(seq.iids) + 1, code |-> code])
               EXCEPT !.sequences[tid].iids = Append(@, code)]

IidOf(x, tid, code) == SelectInSeq(x.sequences[tid].iids, LAMBDA c : c = code)

\* Mutant: one template per code, whatever the thread.
TemplateKeyOfCode(tid, code, opens) == <<0, IF opens THEN code ELSE 0, opens>>

TemplateKey(tid, code, opens) == <<tid, IF opens THEN code ELSE 0, opens>>

Template(x, tid, code, opens) ==
    LET key == TemplateKey(tid, code, opens)
        named == IF opens THEN CodeIid(x, tid, code) ELSE x
    IN IF key \in DOMAIN x.templates THEN x
       ELSE [named EXCEPT !.templates =
               With(@, key, [seq |-> named.sequences[tid].id,
                             iid |-> IF opens THEN IidOf(named, tid, code) ELSE 0])]

\* One event of write_batch: what it needs goes out at once, it goes to buf.
PushProto(acc, ev) ==
    LET code == CodeIdOf(ev.word)
        opens == OpensSlice(KindOf(ev.word))
        x == Template(EnsureSequence(acc.x, ev.tid), ev.tid, code, opens)
        template == x.templates[TemplateKey(ev.tid, code, opens)]
    IN [x |-> x,
        buf |-> Append(acc.buf, [type |-> "event", seq |-> template.seq, opens |-> opens,
                                 iid |-> template.iid, ts |-> ev.ts])]

ProtoWriteBatch(x, events) ==
    LET pushed[n \in 0 .. Len(events)] ==
            IF n = 0 THEN [x |-> EnsureProcess(x), buf |-> <<>>] ELSE PushProto(pushed[n - 1], events[n])
        all == pushed[Len(events)]
    IN [all.x EXCEPT !.out = @ \o all.buf]

ProtoFinish(x, dropped) ==
    IF dropped = 0 THEN x
    ELSE WritePacket(EnsureProcess(x), [type |-> "dropped", seq |-> ProcessSequenceId(x.slot),
                                        pid |-> x.pid, count |-> dropped])

---------------------------------------------------------------------------
(* A reader that looks for the events of the process pid.  A descriptor of  *)
(* a process or thread clears its sequence's incremental state: names, and  *)
(* the track that events are on by default.                                 *)

Nowhere == [track |-> <<>>, pid |-> 0, tid |-> 0]

ReadPacket(r, pid, packet) ==
    CASE packet.type = "process" ->
           [r EXCEPT !.names = With(@, packet.seq, <<>>), !.at = With(@, packet.seq, Nowhere)]
      [] packet.type = "thread" ->
           [r EXCEPT !.names = With(@, packet.seq, <<>>),
                     !.at = With(@, packet.seq, [track |-> packet.track, pid |-> packet.pid, tid |-> packet.tid])]
      [] packet.type = "name" /\ packet.seq \in DOMAIN r.names ->
           [r EXCEPT !.names[packet.seq] = With(@, packet.iid, packet.code)]
      [] packet.type = "event" /\ packet.seq \in DOMAIN r.at /\ r.at[packet.seq].pid = pid ->
           LET names == r.names[packet.seq]
               where == r.at[packet.seq]
           IN [r EXCEPT !.events = Append(@,
                 [pid |-> where.pid, tid |-> where.tid, opens |-> packet.opens, ts |-> packet.ts,
                  code |-> IF packet.opens /\ packet.iid \in DOMAIN names THEN names[packet.iid] ELSE 0])]
      [] OTHER -> r

NewReader == [names |-> <<>>, at |-> <<>>, events |-> <<>>]

ReadProto(packets, pid) ==
    LET read[n \in 0 .. Len(packets)] ==
            IF n = 0 THEN NewReader ELSE ReadPacket(read[n - 1], pid, packets[n])
    IN read[Len(packets)].events
=============================================================================
