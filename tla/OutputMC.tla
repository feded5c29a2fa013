------------------------------ MODULE OutputMC ------------------------------
(***************************************************************************)
(* Output for TLC: a few batches that open, nest, close and suspend frames *)
(* on two threads, close a frame that was open from the start, and jump    *)
(* back in time.                                                           *)
(***************************************************************************)
EXTENDS Output

Packed(delta, code, kind) == [delta |-> delta, word |-> PackCodeKind(code, kind)]

SomeBatches ==
    {[tid |-> 1, packed |-> <<Packed(0, 1, 1), Packed(1, 2, 1)>>],
     [tid |-> 1, packed |-> <<Packed(1, 2, 2)>>],
     [tid |-> 2, packed |-> <<Packed(0, 1, 5), Packed(2, 2, 4)>>]}

SomeClocks == [p \in Procs |-> [start |-> IF p = Root THEN 1 ELSE 0, num |-> 3, den |-> 2]]
=============================================================================
