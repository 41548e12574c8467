----------------------------- MODULE OscRouter -----------------------------
(***************************************************************************)
(* OscRouter: the send queue between the publishers (PublishOsc on the     *)
(* face worker thread, HandlePublish on the IPC thread, frames of the      *)
(* publish pipe) and the send worker, the live change of the send port,    *)
(* and Shutdown.  Each critical section of queueMutex_ is one step.        *)
(*                                                                         *)
(* A packet is its place in the order of acceptance, so a slot of queue_   *)
(* holds a number.  The notification of queueCv_ is left out: the wait has *)
(* a 50 ms timeout and rechecks its predicate.  The statistics of sent     *)
(* packets and of routes (RouteTable, OscRouterStatsShmem) are left out.   *)
(*                                                                         *)
(* Cleanup() shuts the modules down in reverse order of Init, the router   *)
(* last: the face worker has been joined when Shutdown starts, the IPC     *)
(* server still answers.                                                   *)
(***************************************************************************)
EXTENDS Naturals

CONSTANTS
    Capacity,      \* kSendQueueCapacity
    Ports, Port0,  \* send ports, and the one sendPort_ starts with
    FirstOpen,     \* what sender_.Open may return in Init
    LaterOpen,     \* what sender_.Open may return in the send worker
    MaxPublish,    \* bound: packets offered
    MaxEdits       \* bound: config pushes

ASSUME CapacityAssumption == Capacity \in Nat \ {0}
ASSUME PortsAssumption == Port0 \in Ports /\ 0 \notin Ports
ASSUME OpenAssumption == FirstOpen \subseteq BOOLEAN /\ LaterOpen \subseteq BOOLEAN

VARIABLES
    queue, qHead, qTail, qCount,          \* the ring, under queueMutex_
    sendPort, open, pendingSendPort,      \* sendPort_, sender_.IsOpen()
    send, entry,                          \* SendWorkerMain: where, its entry
    api,                                  \* the face worker inside PublishOsc
    pub, client,                          \* PubPipeWorkerMain, its client
    stop, main,                           \* stop_, the thread in Shutdown
    dropped,                              \* droppedCount_
    offered, edits,                       \* bounds
    accepted, taken, wanted, before, strays,  \* history
    answer                                \* history: what became of the last push

ring    == <<queue, qHead, qTail, qCount, accepted, dropped>>
socket  == <<sendPort, open>>
config  == <<pendingSendPort, answer, wanted, before, edits>>
worker  == <<send, entry, taken, strays>>
pipe    == <<pub, client>>
life    == <<stop, main>>
vars    == <<ring, socket, config, worker, api, pipe, life, offered>>

Indices == 0 .. Capacity - 1

\* Init(): a failed Open is logged and the threads start all the same.
Init ==
    /\ queue = [i \in Indices |-> 0] /\ qHead = 0 /\ qTail = 0 /\ qCount = 0
    /\ sendPort = Port0 /\ open \in FirstOpen /\ pendingSendPort = 0
    /\ send = "top" /\ entry = 0 /\ api = "idle"
    /\ pub = "listen" /\ client = "none" /\ stop = FALSE /\ main = "run"
    /\ dropped = 0 /\ offered = 0 /\ edits = 0
    /\ accepted = 0 /\ taken = 0 /\ wanted = Port0 /\ before = 0 /\ strays = 0
    /\ answer = "none"

-----------------------------------------------------------------------------
(* The publishers.                                                         *)

\* Mutant of Enqueue: one slot is never used.
EnqueueOneShort ==
    IF qCount >= Capacity - 1
      THEN /\ dropped' = dropped + 1
           /\ UNCHANGED <<queue, qHead, qTail, qCount, accepted>>
      ELSE /\ queue' = [queue EXCEPT ![qTail] = accepted + 1]
           /\ qTail' = (qTail + 1) % Capacity
           /\ qCount' = qCount + 1
           /\ accepted' = accepted + 1
           /\ UNCHANGED <<qHead, dropped>>

\* EnqueueLocked and the count of a refused packet, in one critical section.
Enqueue ==
    IF qCount >= Capacity
      THEN /\ dropped' = dropped + 1
           /\ UNCHANGED <<queue, qHead, qTail, qCount, accepted>>
      ELSE /\ queue' = [queue EXCEPT ![qTail] = accepted + 1]
           /\ qTail' = (qTail + 1) % Capacity
           /\ qCount' = qCount + 1
           /\ accepted' = accepted + 1
           /\ UNCHANGED <<qHead, dropped>>

Offer == offered < MaxPublish /\ offered' = offered + 1

\* PublishOsc has seen g_activeRouter set and stop_ clear.
PublishOsc ==
    /\ api = "idle" /\ main = "run" /\ ~stop /\ Offer
    /\ api' = "build"
    /\ UNCHANGED <<ring, socket, config, worker, pipe, life>>

\* BuildAndEnqueue for it: a packet too large is refused and not counted.
BuildAndEnqueue ==
    /\ api = "build"
    /\ api' = "idle"
    /\ Enqueue \/ UNCHANGED ring
    /\ UNCHANGED <<socket, config, worker, pipe, life, offered>>

\* HandlePublish looks at neither stop_ nor g_activeRouter; its BuildAndEnqueue
\* refuses a packet too large as well.
HandlePublish ==
    /\ Offer
    /\ Enqueue \/ UNCHANGED ring
    /\ UNCHANGED <<socket, config, worker, api, pipe, life>>

-----------------------------------------------------------------------------
(* HandleSetConfig, on the IPC thread.                                     *)

HandleSetConfig(p) ==
    /\ edits < MaxEdits
    /\ edits' = edits + 1
    /\ pendingSendPort' = p
    /\ wanted' = p /\ before' = accepted /\ strays' = 0 /\ answer' = "none"
    /\ UNCHANGED <<ring, socket, send, entry, taken, api, pipe, life, offered>>

-----------------------------------------------------------------------------
(* The send worker.                                                        *)

\* sender_.Close and Open for the pushed port; a failed Open leaves it closed.
Reopen ==
    \E ok \in LaterOpen :
        /\ open' = ok
        /\ sendPort' = IF ok THEN pendingSendPort ELSE sendPort
        /\ answer' = IF ok THEN "opened" ELSE "refused"

\* No push, or one of the port that is configured already: the socket is left as
\* it is, open or not.
LeaveSocket ==
    /\ pendingSendPort \in {0, sendPort}
    /\ answer' = IF pendingSendPort = 0 THEN answer ELSE IF open THEN "opened" ELSE "ignored"
    /\ UNCHANGED socket

\* What the top of the loop leaves alone.
Others == UNCHANGED <<ring, entry, taken, strays, wanted, before, edits, api, pipe, life, offered>>

EndOnStop == stop /\ send' = "off" /\ UNCHANGED <<socket, pendingSendPort, answer>>

\* Mutant of CheckPort: the port is looked at only when no packet waits.
CheckPortWhenIdle ==
    /\ send = "top"
    /\ \/ EndOnStop
       \/ /\ ~stop /\ send' = "wait"
          /\ \/ qCount > 0 /\ UNCHANGED <<socket, pendingSendPort, answer>>
             \/ /\ qCount = 0 /\ pendingSendPort' = 0
                /\ LeaveSocket \/ (pendingSendPort \notin {0, sendPort} /\ Reopen)
    /\ Others

\* Mutant of CheckPort: sendPort_ is not updated after the reopen.
CheckPortForgetsPort ==
    /\ send = "top"
    /\ \/ EndOnStop
       \/ /\ ~stop /\ send' = "wait" /\ pendingSendPort' = 0
          /\ \/ LeaveSocket
             \/ /\ pendingSendPort \notin {0, sendPort}
                /\ open' \in LaterOpen
                /\ answer' = IF open' THEN "opened" ELSE "refused"
                /\ UNCHANGED sendPort
    /\ Others

\* Mutant of CheckPort: the loop condition does not test stop_.
CheckPortIgnoresStop ==
    /\ send = "top"
    /\ send' = "wait" /\ pendingSendPort' = 0
    /\ LeaveSocket \/ (pendingSendPort \notin {0, sendPort} /\ Reopen)
    /\ Others

\* The loop condition, the exchange of pendingSendPort_ and the reopen.
CheckPort ==
    /\ send = "top"
    /\ \/ EndOnStop
       \/ /\ ~stop /\ send' = "wait" /\ pendingSendPort' = 0
          /\ LeaveSocket \/ (pendingSendPort \notin {0, sendPort} /\ Reopen)
    /\ Others

\* Mutant of Dequeue: the head does not move.
DequeueKeepsHead ==
    /\ send = "wait" /\ qCount > 0
    /\ send' = "send"
    /\ entry' = queue[qHead]
    /\ qCount' = qCount - 1
    /\ taken' = taken + 1
    /\ UNCHANGED <<queue, qHead, qTail, accepted, dropped, socket, config, strays,
                   api, pipe, life, offered>>

\* Mutant of Dequeue: the predicate of the wait is off by one.
DequeueNeedsTwo ==
    /\ send = "wait" /\ qCount > 1
    /\ send' = "send"
    /\ entry' = queue[qHead]
    /\ qHead' = (qHead + 1) % Capacity
    /\ qCount' = qCount - 1
    /\ taken' = taken + 1
    /\ UNCHANGED <<queue, qTail, accepted, dropped, socket, config, strays,
                   api, pipe, life, offered>>

\* The timed wait on queueCv_ ends with a packet, or with none.
Dequeue ==
    /\ send = "wait" /\ qCount > 0
    /\ send' = "send"
    /\ entry' = queue[qHead]
    /\ qHead' = (qHead + 1) % Capacity
    /\ qCount' = qCount - 1
    /\ taken' = taken + 1
    /\ UNCHANGED <<queue, qTail, accepted, dropped, socket, config, strays,
                   api, pipe, life, offered>>

Timeout ==
    /\ send = "wait" /\ qCount = 0
    /\ send' = "top"
    /\ UNCHANGED <<ring, socket, config, entry, taken, strays, api, pipe, life, offered>>

\* Nothing is sent without a socket; sendto may fail.
Send ==
    /\ send = "send"
    /\ send' = "top"
    /\ \/ /\ open
          /\ strays' = IF sendPort # wanted /\ entry > before THEN strays + 1 ELSE strays
       \/ UNCHANGED strays
    /\ UNCHANGED <<ring, socket, config, entry, taken, api, pipe, life, offered>>

-----------------------------------------------------------------------------
(* The publish pipe.  A client connects, writes frames and leaves when it  *)
(* likes; every ReadFile blocks until it does one of these.                *)

PipeStep == UNCHANGED <<socket, config, worker, api, life>>

ClientConnects ==
    /\ pub = "listen" /\ client = "none"
    /\ client' = "on"
    /\ PipeStep /\ UNCHANGED <<ring, pub, offered>>

ClientLeaves ==
    /\ client = "on"
    /\ client' = "left"
    /\ PipeStep /\ UNCHANGED <<ring, pub, offered>>

\* The outer loop: ends on stop_, takes a client, or drops one (the 500 ms
\* wait ran out as it connected, or ConnectNamedPipe failed).
PubAccept ==
    /\ pub = "listen"
    /\ \/ stop /\ client = "none" /\ pub' = "off"
       \/ client # "none" /\ pub' \in {"loop", "close"}
    /\ PipeStep /\ UNCHANGED <<ring, client, offered>>

\* No event for the wait: the pipe is closed and the thread ends for good.
PubEventFails ==
    /\ pub = "listen"
    /\ pub' = "off" /\ client' = "none"
    /\ PipeStep /\ UNCHANGED <<ring, offered>>

PubLoop ==
    /\ pub = "loop"
    /\ pub' = IF stop THEN "close" ELSE "header"
    /\ PipeStep /\ UNCHANGED <<ring, client, offered>>

\* The source id and the length arrive; a short or invalid one ends the
\* client, and so does a stop_ seen before the body.
ClientHeader ==
    /\ pub = "header" /\ client = "on" /\ Offer
    /\ \/ pub' = IF stop THEN "close" ELSE "body"
       \/ pub' = "close"
    /\ PipeStep /\ UNCHANGED <<ring, client>>

\* The last chunk arrives, or an earlier one after which stop_ is seen.
ClientBody ==
    /\ pub = "body" /\ client = "on"
    /\ \/ pub' = "enqueue"
       \/ stop /\ pub' = "close"
    /\ PipeStep /\ UNCHANGED <<ring, client, offered>>

\* ReadFile fails: the client has gone.
PubBroken ==
    /\ pub \in {"header", "body"} /\ client = "left"
    /\ pub' = "close"
    /\ PipeStep /\ UNCHANGED <<ring, client, offered>>

PubEnqueue ==
    /\ pub = "enqueue"
    /\ Enqueue
    /\ pub' = "loop"
    /\ PipeStep /\ UNCHANGED <<client, offered>>

PubClose ==
    /\ pub = "close"
    /\ pub' = IF stop THEN "off" ELSE "listen"
    /\ client' = "none"
    /\ PipeStep /\ UNCHANGED <<ring, offered>>

-----------------------------------------------------------------------------
(* Shutdown.                                                               *)

Shutdown ==
    /\ main = "run" /\ api = "idle"
    /\ stop' = TRUE
    /\ main' = "join"
    /\ UNCHANGED <<ring, socket, config, worker, api, pipe, offered>>

\* Both joins, then sender_.Close().
Join ==
    /\ main = "join" /\ send = "off" /\ pub = "off"
    /\ open' = FALSE
    /\ main' = "down"
    /\ UNCHANGED <<ring, sendPort, config, worker, api, pipe, stop, offered>>

-----------------------------------------------------------------------------
SendWorker == CheckPort \/ Dequeue \/ Timeout \/ Send
PubWorker  == PubAccept \/ PubLoop \/ PubBroken \/ PubEnqueue \/ PubClose
Client     == ClientConnects \/ ClientLeaves \/ ClientHeader \/ ClientBody
Publisher  == PublishOsc \/ BuildAndEnqueue \/ HandlePublish
Next == \/ Publisher \/ SendWorker \/ PubWorker \/ PubEventFails \/ Client
        \/ Shutdown \/ Join
        \/ \E p \in Ports : HandleSetConfig(p)

Spec == Init /\ [][Next]_vars

\* The threads keep running.  Nothing forces a client to write or to leave.
Fairness ==
    /\ WF_vars(SendWorker) /\ WF_vars(PubWorker) /\ WF_vars(BuildAndEnqueue)
    /\ WF_vars(Join)

FairSpec == Spec /\ Fairness

-----------------------------------------------------------------------------
\* The type invariant: the ring indices stay inside queue_ and qCount_ within its capacity.
TypeOK ==
    /\ queue \in [Indices -> Nat]
    /\ qHead \in Indices /\ qTail \in Indices /\ qCount \in 0 .. Capacity
    /\ sendPort \in Ports /\ open \in BOOLEAN /\ pendingSendPort \in Ports \cup {0}
    /\ send \in {"top", "wait", "send", "off"} /\ entry \in Nat
    /\ api \in {"idle", "build"}
    /\ pub \in {"listen", "loop", "header", "body", "enqueue", "close", "off"}
    /\ client \in {"none", "on", "left"}
    /\ stop \in BOOLEAN /\ main \in {"run", "join", "down"}
    /\ dropped \in Nat /\ offered \in Nat /\ edits \in Nat
    /\ accepted \in Nat /\ taken \in Nat /\ before \in Nat /\ strays \in Nat
    /\ wanted \in Ports /\ answer \in {"none", "opened", "refused", "ignored"}

\* The ring with its three indices is a bounded first-in first-out queue: no
\* accepted packet is lost, repeated or overtaken on its way to the worker.
Fifo == INSTANCE SendQueue WITH last <- entry
IsBoundedFifo == Fifo!Spec

\* A packet is counted as dropped only while Capacity packets really wait.
DropsOnlyWhenFull == [][dropped' # dropped => accepted = taken + Capacity]_vars

\* Of the packets accepted after a config push, at most one is sent to another
\* port than the one pushed.  (OscRouter.cpp:256 says none; but the pending port
\* is looked at before the worker waits for a packet.)
AtMostOneStray == strays <= 1

\* Once Shutdown has closed the socket, neither worker is there to take a packet
\* or to open it again, although the IPC thread still publishes and pushes ports.
DownIsQuiet == [][main = "down" => UNCHANGED <<main, send, entry, taken, socket, pub>>]_vars

\* A pushed port takes effect: the socket is opened for it, unless Open fails for
\* that very push, another is pushed or the router stops.  A closed socket is no
\* excuse, but for a push of the port already configured: OscRouter.cpp:260 ignores
\* it, although the log of a failed Open says "will retry on config push" (:74).
EditTakesEffect ==
    \A p \in Ports : (edits > 0 /\ wanted = p)
        ~> ((sendPort = p /\ open) \/ answer \in {"refused", "ignored"} \/ wanted # p \/ stop)

\* Every accepted packet is taken by the worker unless the router stops.
Drains == \A n \in 1 .. MaxPublish : accepted = n ~> (taken >= n \/ stop)

\* Shutdown returns, or for ever waits for a pipe worker that is blocked in ReadFile
\* on a client that stays and is silent (OscRouter.cpp:396 says "until it
\* disconnects or stop_"): nothing else keeps a worker from seeing stop_.
ShutdownReturns == stop ~> (main = "down" \/ [](pub \in {"header", "body"} /\ client = "on"))
=============================================================================
