----------------------------- MODULE PipelineMC -----------------------------
(***************************************************************************)
(* Pipeline for TLC, and the mapping of its state to LossyLog's.           *)
(***************************************************************************)
EXTENDS Pipeline, SequencesExt

\* The events of thread t in a sequence of batches, in order.
Stream(t, s) == FlattenSeq([i \in DOMAIN s |-> IF s[i].tid = t THEN s[i].events ELSE <<>>])

Log == INSTANCE LossyLog WITH
    next <- [t \in Threads |-> recorded[t] + 1],
    pending <- [t \in Threads |->
        Stream(t, ring \o fanin \o hand \o rings[t]) \o batch[t]],
    delivered <- [t \in Threads |-> Stream(t, exported)],
    charged <- dropped + flush.lost,
    finished <- writer = "finished"

\* The exporter is a lossy log: per thread it delivers in order, without
\* duplicates, counts what a full ring cost, and delivers nothing after finish.
ImplementsLossyLog == Log!Spec
=============================================================================
