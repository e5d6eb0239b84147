----------------------------- MODULE BoundedFifo -----------------------------
(***************************************************************************)
(* What a queue between two threads promises: what is accepted comes out   *)
(* once and in order, never more than Cap items wait, and once closed the  *)
(* queue accepts nothing but still gives back what it holds.               *)
(***************************************************************************)
EXTENDS Integers, Sequences

CONSTANTS Items, Cap

VARIABLES fifo, closed, out

vars == <<fifo, closed, out>>

Init == fifo = <<>> /\ closed = FALSE /\ out = <<>>

Accept(x) ==
    /\ ~closed
    /\ Len(fifo) < Cap
    /\ fifo' = Append(fifo, x)
    /\ UNCHANGED <<closed, out>>

Give ==
    /\ fifo # <<>>
    /\ out' = Append(out, Head(fifo))
    /\ fifo' = Tail(fifo)
    /\ UNCHANGED closed

Close == closed' = TRUE /\ UNCHANGED <<fifo, out>>

Next == (\E x \in Items : Accept(x)) \/ Give \/ Close

Spec == Init /\ [][Next]_vars
=============================================================================
