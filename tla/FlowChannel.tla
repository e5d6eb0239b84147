----------------------------- MODULE FlowChannel -----------------------------
(***************************************************************************)
(* What the packet engine promises to each flow, whatever the threads do:  *)
(* its packets come out in the order they went in and at most once, those  *)
(* decided after the flow was cut never come out, and when the engine      *)
(* closes every packet it let through has been delivered.  Packets still   *)
(* undecided when it closes are not promised anything.  Packets are known  *)
(* by their number in the input.                                           *)
(***************************************************************************)
EXTENDS Integers, Sequences

CONSTANT Flows

VARIABLES
    accepted,   \* the packets of all flows accepted so far
    pending,    \* of each flow: accepted, not decided yet
    cut,        \* the flow is blocked
    transit,    \* of each flow: let through, not delivered yet
    delivered,  \* of each flow: delivered
    closed

vars == <<accepted, pending, cut, transit, delivered, closed>>

Init ==
    /\ accepted = 0
    /\ pending = [f \in Flows |-> <<>>]
    /\ cut = [f \in Flows |-> FALSE]
    /\ transit = [f \in Flows |-> <<>>]
    /\ delivered = [f \in Flows |-> <<>>]
    /\ closed = FALSE

Accept(f) ==
    /\ ~closed
    /\ accepted' = accepted + 1
    /\ pending' = [pending EXCEPT ![f] = Append(@, accepted + 1)]
    /\ UNCHANGED <<cut, transit, delivered, closed>>

Forward(f) ==
    /\ ~closed
    /\ ~cut[f]
    /\ pending[f] # <<>>
    /\ transit' = [transit EXCEPT ![f] = Append(@, Head(pending[f]))]
    /\ pending' = [pending EXCEPT ![f] = Tail(@)]
    /\ UNCHANGED <<accepted, cut, delivered, closed>>

Drop(f) ==
    /\ ~closed
    /\ pending[f] # <<>>
    /\ cut' = [cut EXCEPT ![f] = TRUE]
    /\ pending' = [pending EXCEPT ![f] = Tail(@)]
    /\ UNCHANGED <<accepted, transit, delivered, closed>>

Deliver(f) ==
    /\ ~closed
    /\ transit[f] # <<>>
    /\ delivered' = [delivered EXCEPT ![f] = Append(@, Head(transit[f]))]
    /\ transit' = [transit EXCEPT ![f] = Tail(@)]
    /\ UNCHANGED <<accepted, pending, cut, closed>>

Close ==
    /\ ~closed
    /\ \A f \in Flows : transit[f] = <<>>
    /\ closed' = TRUE
    /\ UNCHANGED <<accepted, pending, cut, transit, delivered>>

Next ==
    \/ \E f \in Flows : Accept(f) \/ Forward(f) \/ Drop(f) \/ Deliver(f)
    \/ Close

Spec == Init /\ [][Next]_vars
=============================================================================
