------------------------------ MODULE LossyLog ------------------------------
(***************************************************************************)
(* What the recording path promises, thread by thread: the events of a     *)
(* thread are delivered in the order it recorded them, none twice; an      *)
(* event may be lost before it is delivered, and is then counted, unless   *)
(* its thread was exiting; and once the log is finished nothing more is    *)
(* delivered.  What the trace says of the count is not part of it.         *)
(***************************************************************************)
EXTENDS Integers, Sequences, FiniteSets

CONSTANTS Threads, Exiting

VARIABLES
    next,          \* next[t]: the number of t's next event
    pending,       \* pending[t]: recorded and neither delivered nor lost
    delivered,     \* delivered[t]: what the trace holds of t
    charged,       \* how many events are known to be lost
    finished

logVars == <<next, pending, delivered, charged, finished>>

Init ==
    /\ next = [t \in Threads |-> 1]
    /\ pending = [t \in Threads |-> <<>>]
    /\ delivered = [t \in Threads |-> <<>>]
    /\ charged = 0
    /\ finished = FALSE

Record(t) ==
    /\ pending' = [pending EXCEPT ![t] = Append(@, next[t])]
    /\ next' = [next EXCEPT ![t] = @ + 1]
    /\ UNCHANGED <<delivered, charged, finished>>

\* The oldest n pending events of t reach the trace, in order.
Deliver(t, n) ==
    /\ ~finished
    /\ delivered' = [delivered EXCEPT ![t] = @ \o SubSeq(pending[t], 1, n)]
    /\ pending' = [pending EXCEPT ![t] = SubSeq(@, n + 1, Len(@))]
    /\ UNCHANGED <<next, charged, finished>>

\* The newest n pending events of t are lost.
Newest(t, n) == pending' = [pending EXCEPT ![t] = SubSeq(@, 1, Len(@) - n)]

Lose(t, n) ==
    /\ Newest(t, n)
    /\ charged' = charged + n
    /\ UNCHANGED <<next, delivered, finished>>

\* A full batch is lost and the event that did not fit starts the next one.
LoseAndRecord(t, n) ==
    /\ pending' = [pending EXCEPT ![t] = Append(SubSeq(@, 1, Len(@) - n), next[t])]
    /\ next' = [next EXCEPT ![t] = @ + 1]
    /\ charged' = charged + n
    /\ UNCHANGED <<delivered, finished>>

Vanish(t, n) ==
    /\ t \in Exiting
    /\ Newest(t, n)
    /\ UNCHANGED <<next, delivered, charged, finished>>

Finish ==
    /\ finished' = TRUE
    /\ UNCHANGED <<next, pending, delivered, charged>>

Next ==
    \/ \E t \in Threads : Record(t)
    \/ \E t \in Threads : \E n \in 1..Len(pending[t]) :
        Deliver(t, n) \/ Lose(t, n) \/ LoseAndRecord(t, n) \/ Vanish(t, n)
    \/ Finish

Spec == Init /\ [][Next]_logVars
=============================================================================
