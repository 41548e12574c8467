--------------------------- MODULE PacketDelivery ---------------------------
(***************************************************************************)
(* What the publish pipe promises a sidecar (OscRouter.cpp:336             *)
(* "Fire-and-forget"): a packet may be lost, but those that reach the send *)
(* queue are packets that were published, each once and in the order of    *)
(* publishing.  A packet is its number in that order.                      *)
(***************************************************************************)
EXTENDS Naturals, Sequences

VARIABLES published, delivered   \* how many, and the numbers of those that arrived

Init == published = 0 /\ delivered = << >>

Publish == published' = published + 1 /\ UNCHANGED delivered

Deliver ==
    /\ \E m \in 1 .. published :
          /\ \A j \in DOMAIN delivered : delivered[j] < m
          /\ delivered' = Append(delivered, m)
    /\ UNCHANGED published

Spec == Init /\ [][Publish \/ Deliver]_<<published, delivered>>
=============================================================================
