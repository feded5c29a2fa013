------------------------------ MODULE TracerMC ------------------------------
(***************************************************************************)
(* Tracer for TLC.                                                         *)
(***************************************************************************)
EXTENDS Tracer, TLC

\* The threads of a process are alike until the process has begun: Init lets
\* any of them be the main thread.
Alike == Permutations(Threads)
=============================================================================
