----------------------------- MODULE SendQueue -----------------------------
(***************************************************************************)
(* What the OSC router's send queue promises (OscRouter.h:76 "Bounded MPSC *)
(* queue"): at most Capacity packets wait, and the send worker takes every *)
(* accepted packet once, in the order of acceptance.  A packet is its      *)
(* place in the order of acceptance.                                       *)
(***************************************************************************)
EXTENDS Naturals

CONSTANT Capacity

VARIABLES accepted, taken, last   \* counts, and the packet taken last

Init == accepted = 0 /\ taken = 0 /\ last = 0

Accept == /\ accepted < taken + Capacity
          /\ accepted' = accepted + 1
          /\ UNCHANGED <<taken, last>>

Take == /\ taken < accepted
        /\ taken' = taken + 1 /\ last' = taken + 1
        /\ UNCHANGED accepted

Spec == Init /\ [][Accept \/ Take]_<<accepted, taken, last>>
=============================================================================
