-------------------------- MODULE OscRouterProofs --------------------------
(***************************************************************************)
(* Proofs about OscRouter, for every capacity, set of ports and bound.     *)
(***************************************************************************)
EXTENDS OscRouter, TLAPS

\* Where the k-th slot after the head of a ring of Capacity slots is.
Wrapped(h, k) == IF h + k < Capacity THEN h + k ELSE h + k - Capacity

\* The modulo of a ring index, at most one lap ahead, is one conditional
\* subtraction and stays in the ring.
LEMMA Wrap == ASSUME NEW h \in Indices, NEW k \in 0 .. Capacity
              PROVE  /\ (h + k) % Capacity \in Indices
                     /\ (h + k) % Capacity = Wrapped(h, k)
  BY CapacityAssumption, SMTT(30) DEF Indices, Wrapped

-----------------------------------------------------------------------------
\* The part of TypeOK an Enqueue can disturb.
RingTypeOK ==
    /\ queue \in [Indices -> Nat]
    /\ qHead \in Indices /\ qTail \in Indices /\ qCount \in 0 .. Capacity
    /\ accepted \in Nat /\ dropped \in Nat

\* The packets in the ring: the qCount slots from qHead on hold, in order, the
\* packets accepted and not yet taken, and qTail is the slot after them.
RingInv ==
    /\ accepted = taken + qCount
    /\ qTail = (qHead + qCount) % Capacity
    /\ \A k \in 0 .. qCount - 1 : queue[(qHead + k) % Capacity] = taken + 1 + k

\* A critical section that enqueues, or counts a drop, keeps the types.
LEMMA EnqueueType == ASSUME RingTypeOK, Enqueue PROVE RingTypeOK'
<1>1. CASE qCount >= Capacity
  BY <1>1, CapacityAssumption DEF RingTypeOK, Enqueue
<1>2. CASE ~(qCount >= Capacity)
  <2>1. (qTail + 1) % Capacity \in Indices
    BY Wrap, CapacityAssumption DEF RingTypeOK
  <2>2. qCount + 1 \in 0 .. Capacity
    BY <1>2, CapacityAssumption DEF RingTypeOK
  <2> QED BY <1>2, <2>1, <2>2 DEF RingTypeOK, Enqueue
<1> QED BY <1>1, <1>2

\* Every step of the router keeps every variable in its type.
LEMMA TypeStep == ASSUME TypeOK, [Next]_vars PROVE TypeOK'
<1> USE DEF ring, socket, config, worker, pipe, life
<1>2. RingTypeOK /\ (Enqueue => RingTypeOK')
  BY EnqueueType DEF RingTypeOK, TypeOK
<1>3. CASE PublishOsc
  BY <1>3 DEF TypeOK, PublishOsc, Offer
<1>4. CASE BuildAndEnqueue
  BY <1>4, <1>2 DEF TypeOK, BuildAndEnqueue, RingTypeOK
<1>5. CASE HandlePublish
  BY <1>5, <1>2 DEF TypeOK, HandlePublish, RingTypeOK, Offer
<1>6. ASSUME NEW p \in Ports, HandleSetConfig(p) PROVE TypeOK'
  BY <1>6 DEF TypeOK, HandleSetConfig
<1>7. CASE CheckPort
  BY <1>7, OpenAssumption DEF TypeOK, CheckPort, EndOnStop, LeaveSocket, Reopen, Others
<1>8. CASE Dequeue
  <2>1. (qHead + 1) % Capacity \in Indices
    BY Wrap, CapacityAssumption DEF TypeOK
  <2>2. queue[qHead] \in Nat /\ qCount - 1 \in 0 .. Capacity
    BY <1>8, CapacityAssumption DEF TypeOK, Dequeue
  <2> QED BY <1>8, <2>1, <2>2 DEF TypeOK, Dequeue
<1>9. CASE Timeout
  BY <1>9 DEF TypeOK, Timeout
<1>10. CASE Send
  BY <1>10 DEF TypeOK, Send
<1>11. CASE PubEnqueue
  BY <1>11, <1>2 DEF TypeOK, PubEnqueue, RingTypeOK, PipeStep
<1>12. CASE PubAccept \/ PubEventFails \/ PubLoop \/ PubBroken \/ PubClose
  BY <1>12 DEF TypeOK, PubAccept, PubEventFails, PubLoop, PubBroken, PubClose, PipeStep
<1>13. CASE Client
  BY <1>13 DEF TypeOK, Client, ClientConnects, ClientLeaves, ClientHeader, ClientBody,
               PipeStep, Offer
<1>14. CASE Shutdown \/ Join
  BY <1>14 DEF TypeOK, Shutdown, Join
<1>15. CASE UNCHANGED vars
  BY <1>15 DEF TypeOK, vars
<1> QED
  BY <1>3, <1>4, <1>5, <1>6, <1>7, <1>8, <1>9, <1>10, <1>11, <1>12, <1>13, <1>14, <1>15
  DEF Next, Publisher, SendWorker, PubWorker

\* The variables keep their types in every behaviour of the router.
THEOREM TypeCorrect == Spec => []TypeOK
<1>1. Init => TypeOK
  <2>1. 0 \in Indices /\ 0 \in 0 .. Capacity
    BY CapacityAssumption DEF Indices
  <2>2. Init => open \in BOOLEAN
    BY OpenAssumption DEF Init
  <2>3. Init => queue \in [Indices -> Nat]
    BY DEF Init
  <2> QED BY <2>1, <2>2, <2>3, PortsAssumption DEF Init, TypeOK
<1>2. TypeOK /\ [Next]_vars => TypeOK'
  BY TypeStep
<1> QED BY <1>1, <1>2, PTL DEF Spec

-----------------------------------------------------------------------------
(* The ring is a bounded FIFO queue.                                       *)

FifoVars == <<accepted, taken, entry>>

\* An Enqueue keeps the ring in order, and accepts a packet or changes nothing
\* the abstract queue sees; a drop happens only with Capacity packets waiting.
LEMMA EnqueueRing ==
  ASSUME TypeOK, RingInv, Enqueue, UNCHANGED <<taken, entry>>
  PROVE  /\ RingInv'
         /\ Fifo!Accept \/ UNCHANGED FifoVars
         /\ dropped' # dropped => accepted = taken + Capacity
<1>1. CASE qCount >= Capacity
  BY <1>1, CapacityAssumption DEF TypeOK, RingInv, Enqueue, FifoVars
<1>2. CASE qCount < Capacity
  <2>1. /\ queue' = [queue EXCEPT ![qTail] = accepted + 1]
        /\ qTail' = (qTail + 1) % Capacity
        /\ qCount' = qCount + 1 /\ accepted' = accepted + 1
        /\ qHead' = qHead /\ dropped' = dropped /\ taken' = taken /\ entry' = entry
    BY <1>2, CapacityAssumption DEF Enqueue, TypeOK
  <2>2. qTail' = (qHead' + qCount') % Capacity
    <3>1. 1 \in 0 .. Capacity /\ qCount + 1 \in 0 .. Capacity
      BY <1>2, CapacityAssumption DEF TypeOK
    <3>2. qTail = Wrapped(qHead, qCount)
      BY Wrap DEF TypeOK, RingInv
    <3>3. /\ (qTail + 1) % Capacity = Wrapped(qTail, 1)
          /\ (qHead + (qCount + 1)) % Capacity = Wrapped(qHead, qCount + 1)
      BY <3>1, Wrap DEF TypeOK
    <3>4. Wrapped(qTail, 1) = Wrapped(qHead, qCount + 1)
      BY <1>2, <3>2, CapacityAssumption DEF Wrapped, Indices, TypeOK
    <3> QED BY <2>1, <3>3, <3>4
  <2>3. ASSUME NEW k \in 0 .. qCount
        PROVE  queue'[(qHead + k) % Capacity] = taken + 1 + k
    <3>0. (qHead + k) % Capacity \in Indices
      <4>1. k \in 0 .. Capacity
        BY CapacityAssumption DEF TypeOK
      <4> QED BY <4>1, Wrap DEF TypeOK
    <3>1. CASE k = qCount
      BY <2>1, <3>0, <3>1 DEF TypeOK, RingInv
    <3>2. CASE k < qCount
      <4>1. (qHead + k) % Capacity # qTail
        <5>1. k \in 0 .. Capacity
          BY CapacityAssumption DEF TypeOK
        <5>2. /\ (qHead + k) % Capacity = Wrapped(qHead, k)
              /\ qTail = Wrapped(qHead, qCount)
          BY <5>1, Wrap DEF TypeOK, RingInv
        <5>3. Wrapped(qHead, k) # Wrapped(qHead, qCount)
          BY <1>2, <3>2, CapacityAssumption DEF Wrapped, Indices, TypeOK
        <5> QED BY <5>2, <5>3
      <4>2. k \in 0 .. qCount - 1
        BY <3>2 DEF TypeOK
      <4> QED BY <2>1, <3>0, <4>1, <4>2 DEF TypeOK, RingInv
    <3> QED BY <3>1, <3>2 DEF TypeOK
  <2>4. RingInv'
    BY <2>1, <2>2, <2>3 DEF RingInv, TypeOK
  <2>5. Fifo!Accept
    BY <1>2, <2>1, CapacityAssumption DEF Fifo!Accept, RingInv, TypeOK
  <2> QED BY <2>1, <2>4, <2>5
<1> QED BY <1>1, <1>2, CapacityAssumption DEF TypeOK

\* The worker's Dequeue takes the oldest waiting packet and keeps the order.
LEMMA DequeueRing ==
  ASSUME TypeOK, RingInv, Dequeue
  PROVE  RingInv' /\ Fifo!Take
<1>1. /\ entry' = queue[qHead] /\ qHead' = (qHead + 1) % Capacity
      /\ qCount' = qCount - 1 /\ taken' = taken + 1
      /\ queue' = queue /\ qTail' = qTail /\ accepted' = accepted /\ qCount > 0
  BY DEF Dequeue
<1>2. queue[qHead] = taken + 1
  <2>1. (qHead + 0) % Capacity = qHead
    <3>1. (qHead + 0) % Capacity = Wrapped(qHead, 0)
      BY Wrap, CapacityAssumption DEF TypeOK
    <3> QED BY <3>1, CapacityAssumption DEF Wrapped, TypeOK, Indices
  <2> QED BY <1>1, <2>1 DEF RingInv, TypeOK
<1>3. ASSUME NEW k \in 0 .. qCount - 1
      PROVE  (qHead' + k) % Capacity = (qHead + (k + 1)) % Capacity
  <2>1. k \in 0 .. Capacity /\ k + 1 \in 0 .. Capacity /\ 1 \in 0 .. Capacity
    BY CapacityAssumption DEF TypeOK
  <2>2. qHead' \in Indices
    BY <1>1, <2>1, Wrap DEF TypeOK
  <2>3. /\ (qHead' + k) % Capacity = Wrapped(qHead', k)
        /\ (qHead + (k + 1)) % Capacity = Wrapped(qHead, k + 1)
        /\ qHead' = Wrapped(qHead, 1)
    BY <1>1, <2>1, <2>2, Wrap DEF TypeOK
  <2>4. Wrapped(Wrapped(qHead, 1), k) = Wrapped(qHead, k + 1)
    BY CapacityAssumption DEF Wrapped, TypeOK, Indices
  <2> QED BY <2>3, <2>4
<1>4. qTail' = (qHead' + qCount') % Capacity
  BY <1>1, <1>3 DEF RingInv, TypeOK
<1>5. ASSUME NEW k \in 0 .. qCount' - 1
      PROVE  queue'[(qHead' + k) % Capacity] = taken' + 1 + k
  <2>1. k \in 0 .. qCount - 1 /\ k + 1 \in 0 .. qCount - 1
    BY <1>1 DEF TypeOK
  <2>2. queue[(qHead + (k + 1)) % Capacity] = taken + 1 + (k + 1)
    BY <2>1 DEF RingInv
  <2> QED BY <1>1, <1>3, <2>1, <2>2 DEF TypeOK
<1>6. RingInv'
  BY <1>1, <1>4, <1>5 DEF RingInv, TypeOK
<1>7. Fifo!Take
  BY <1>1, <1>2 DEF Fifo!Take, RingInv, TypeOK
<1> QED BY <1>6, <1>7

\* One step of the router: the ring stays in order, the abstract queue takes a
\* step or stutters, and a drop is counted only when the queue is full.
LEMMA RingStep ==
  ASSUME TypeOK, RingInv, [Next]_vars
  PROVE  /\ RingInv'
         /\ [Fifo!Accept \/ Fifo!Take]_FifoVars
         /\ dropped' # dropped => accepted = taken + Capacity
<1> USE DEF ring, worker
<1>1. ASSUME UNCHANGED <<queue, qHead, qTail, qCount, accepted, taken, entry, dropped>>
      PROVE  /\ RingInv'
             /\ [Fifo!Accept \/ Fifo!Take]_FifoVars
             /\ dropped' # dropped => accepted = taken + Capacity
  BY <1>1 DEF RingInv, FifoVars
<1>2. CASE BuildAndEnqueue \/ HandlePublish \/ PubEnqueue
  BY <1>1, <1>2, EnqueueRing DEF BuildAndEnqueue, HandlePublish, PubEnqueue, PipeStep
<1>3. CASE Dequeue
  BY <1>3, DequeueRing DEF Dequeue
<1>4. CASE PublishOsc \/ CheckPort \/ Timeout \/ Send
  BY <1>1, <1>4 DEF PublishOsc, CheckPort, Others, Timeout, Send
<1>5. CASE PubAccept \/ PubEventFails \/ PubLoop \/ PubBroken \/ PubClose
  BY <1>1, <1>5 DEF PubAccept, PubEventFails, PubLoop, PubBroken, PubClose, PipeStep
<1>6. CASE Client
  BY <1>1, <1>6 DEF Client, ClientConnects, ClientLeaves, ClientHeader, ClientBody, PipeStep
<1>7. CASE Shutdown \/ Join
  BY <1>1, <1>7 DEF Shutdown, Join
<1>8. ASSUME NEW p \in Ports, HandleSetConfig(p)
      PROVE  UNCHANGED <<queue, qHead, qTail, qCount, accepted, taken, entry, dropped>>
  BY <1>8 DEF HandleSetConfig
<1>9. CASE UNCHANGED vars
  BY <1>1, <1>9 DEF vars
<1> QED
  BY <1>1, <1>2, <1>3, <1>4, <1>5, <1>6, <1>7, <1>8, <1>9
  DEF Next, Publisher, SendWorker, PubWorker

\* The ring invariant holds at the start.
LEMMA RingInit == Init => RingInv
  BY CapacityAssumption, Wrap, SMTT(30) DEF Init, RingInv, Indices

\* The send queue of OscRouter is the bounded FIFO queue of SendQueue: no
\* accepted packet is lost, repeated or overtaken, for every capacity.
THEOREM QueueIsFifo == Spec => IsBoundedFifo
<1>1. Init => Fifo!Init
  BY DEF Init, Fifo!Init
<1>2. TypeOK /\ RingInv /\ [Next]_vars => RingInv' /\ [Fifo!Accept \/ Fifo!Take]_FifoVars
  BY RingStep
<1> QED BY <1>1, <1>2, RingInit, TypeCorrect, PTL DEF Spec, IsBoundedFifo, Fifo!Spec, FifoVars

\* A packet is counted as dropped only while Capacity packets wait.
THEOREM DropsAreFull == Spec => DropsOnlyWhenFull
<1>1. TypeOK /\ RingInv /\ [Next]_vars
         => RingInv' /\ [dropped' # dropped => accepted = taken + Capacity]_vars
  BY RingStep
<1> QED BY <1>1, RingInit, TypeCorrect, PTL DEF Spec, DropsOnlyWhenFull

-----------------------------------------------------------------------------
(* A config push and the packets accepted after it.                        *)

\* The socket sends to the wanted port, unless a push is still pending or the
\* last reopen failed; a stray packet has left the worker at the top of its
\* loop, where it sees the push before it takes another packet.
StrayInv ==
    /\ pendingSendPort # 0 => pendingSendPort = wanted
    /\ sendPort = wanted \/ pendingSendPort = wanted \/ ~open
    /\ strays = 0 \/ (strays = 1 /\ (sendPort = wanted \/ ~open \/ send \in {"top", "off"}))

\* Every step keeps the relation of the socket to the port pushed last.
LEMMA StrayStep == ASSUME TypeOK, StrayInv, [Next]_vars PROVE StrayInv'
<1> USE DEF socket, config, worker, StrayInv
<1>1. CASE PublishOsc \/ BuildAndEnqueue \/ HandlePublish \/ PubEnqueue
  BY <1>1 DEF PublishOsc, BuildAndEnqueue, HandlePublish, PubEnqueue, PipeStep
<1>2. ASSUME NEW p \in Ports, HandleSetConfig(p) PROVE StrayInv'
  BY <1>2 DEF HandleSetConfig
<1>3. CASE CheckPort
  BY <1>3, PortsAssumption DEF CheckPort, EndOnStop, LeaveSocket, Reopen, Others, TypeOK
<1>4. CASE Dequeue \/ Timeout
  BY <1>4 DEF Dequeue, Timeout
<1>5. CASE Send
  BY <1>5 DEF Send, TypeOK
<1>6. CASE PubAccept \/ PubEventFails \/ PubLoop \/ PubBroken \/ PubClose
  BY <1>6 DEF PubAccept, PubEventFails, PubLoop, PubBroken, PubClose, PipeStep
<1>7. CASE Client
  BY <1>7 DEF Client, ClientConnects, ClientLeaves, ClientHeader, ClientBody, PipeStep
<1>8. CASE Shutdown \/ Join
  BY <1>8 DEF Shutdown, Join
<1>9. CASE UNCHANGED vars
  BY <1>9 DEF vars
<1> QED
  BY <1>1, <1>2, <1>3, <1>4, <1>5, <1>6, <1>7, <1>8, <1>9
  DEF Next, Publisher, SendWorker, PubWorker

\* Of the packets accepted after a config push, at most one is sent to another
\* port than the one pushed.
THEOREM OneStray == Spec => []AtMostOneStray
<1>1. Init => StrayInv
  BY DEF Init, StrayInv
<1>2. TypeOK /\ StrayInv /\ [Next]_vars => StrayInv'
  BY StrayStep
<1>3. TypeOK /\ StrayInv => AtMostOneStray
  BY DEF StrayInv, AtMostOneStray, TypeOK
<1> QED BY <1>1, <1>2, <1>3, TypeCorrect, PTL DEF Spec

-----------------------------------------------------------------------------
(* After Shutdown.                                                         *)

\* The joins come before the close, and nothing starts the workers again.
DownInv ==
    /\ main # "run" => stop /\ api = "idle"
    /\ main = "down" => send = "off" /\ pub = "off"

\* Every step keeps the workers off, and none of them is a worker's.
LEMMA DownStep ==
    ASSUME DownInv, [Next]_vars
    PROVE  /\ DownInv'
           /\ main = "down" => UNCHANGED <<main, send, entry, taken, socket, pub>>
<1> USE DEF DownInv, socket, config, worker, pipe, life
<1> DEFINE Goal == /\ DownInv'
                   /\ main = "down" => UNCHANGED <<main, send, entry, taken, socket, pub>>
<1>1. CASE PublishOsc \/ BuildAndEnqueue \/ HandlePublish
  BY <1>1 DEF PublishOsc, BuildAndEnqueue, HandlePublish
<1>2. ASSUME NEW p \in Ports, HandleSetConfig(p) PROVE Goal
  BY <1>2 DEF HandleSetConfig
<1>3. CASE SendWorker
  BY <1>3 DEF SendWorker, CheckPort, EndOnStop, LeaveSocket, Reopen, Others, Dequeue, Timeout, Send
<1>4. CASE PubWorker \/ PubEventFails
  BY <1>4 DEF PubWorker, PubAccept, PubLoop, PubBroken, PubEnqueue, PubClose, PubEventFails, PipeStep
<1>5. CASE Client
  BY <1>5 DEF Client, ClientConnects, ClientLeaves, ClientHeader, ClientBody, PipeStep
<1>6. CASE Shutdown \/ Join
  BY <1>6 DEF Shutdown, Join
<1>7. CASE UNCHANGED vars
  BY <1>7 DEF vars
<1> QED
  BY <1>1, <1>2, <1>3, <1>4, <1>5, <1>6, <1>7 DEF Next, Publisher

\* Once Shutdown() has joined the workers and closed the socket, no packet is
\* taken or sent and the socket is not opened again (OscRouter::Shutdown), whatever
\* the IPC thread still publishes and pushes.
THEOREM ShutdownIsFinal == Spec => DownIsQuiet
<1>1. Init => DownInv
  BY DEF Init, DownInv
<1>2. DownInv /\ [Next]_vars
        => /\ DownInv'
           /\ [main = "down" => UNCHANGED <<main, send, entry, taken, socket, pub>>]_vars
  BY DownStep
<1> QED BY <1>1, <1>2, PTL DEF Spec, DownIsQuiet
=============================================================================
