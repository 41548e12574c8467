------------------------------ MODULE PubPipe ------------------------------
(***************************************************************************)
(* The byte stream between a sidecar and the OSC router: the publish pipe. *)
(* The router side is the read loop of PubPipeWorkerMain, which expects a  *)
(* source id in front of every frame; the sidecar is the captions host's   *)
(* RouterPublisher, which writes it once per connection.                   *)
(*                                                                         *)
(* The stream is a sequence of 4-byte words: words of the source id, a     *)
(* length (the number of words of its packet), the words of a packet.      *)
(* Each WriteFile appends its words at once.  A ReadFile blocks while the  *)
(* pipe is empty, then returns what is there, up to what it asked for.  A  *)
(* word that is no length, read as one, can have any value.                *)
(***************************************************************************)
EXTENDS Naturals, Sequences

CONSTANTS
    IdWords,      \* words of the source id
    Sizes,        \* words a packet may have
    MaxFrame,     \* kSendQueueEntryMaxSize, in words
    MaxPackets    \* bound: packets published

ASSUME BoundsAssumption == IdWords \in Nat \ {0} /\ MaxFrame \in Nat /\ MaxPackets \in Nat
ASSUME SizesAssumption == Sizes \subseteq 1 .. MaxFrame

VARIABLES
    link, buf,            \* the router's pipe instance, its unread words
    pub, frameLen, frame, \* PubPipeWorkerMain: where, the frame being read
    queue,                \* the frames it has enqueued
    first, firsts,        \* history: none of them is of this connection; the
                          \* packets whose words began the first of each connection
    handle,               \* the client's pipe_
    cli, msg, size, attempt   \* PublishChatbox: where, its packet, its attempt

router == <<pub, frameLen, frame, queue, first, firsts>>
call   == <<cli, msg, size, attempt>>
vars   == <<link, buf, router, handle, call>>

Id           == [i \in 1 .. IdWords |-> [kind |-> "id", word |-> i]]
Length(n)    == [kind |-> "len", value |-> n]
Packet(m, n) == [i \in 1 .. n |-> [kind |-> "osc", msg |-> m, word |-> i, of |-> n]]

\* The values a word can have when it is read as a length.
ReadAsLength(w) == IF w.kind = "len" THEN {w.value} ELSE 0 .. MaxFrame + 1

Init ==
    /\ link = "none" /\ buf = <<>>
    /\ pub = "create" /\ frameLen = 0 /\ frame = <<>> /\ queue = <<>>
    /\ first = TRUE /\ firsts = <<>>
    /\ handle = "none" /\ cli = "idle" /\ msg = 0 /\ size = 0 /\ attempt = 0

-----------------------------------------------------------------------------
(* The client.                                                             *)

\* Disconnect(): what was written stays in the pipe for the router.
Disconnect ==
    /\ handle' = "none"
    /\ link' = IF handle = "ok" THEN "eof" ELSE link

PublishChatbox(n) ==
    /\ cli = "idle" /\ msg < MaxPackets
    /\ msg' = msg + 1 /\ size' = n /\ attempt' = 0
    /\ cli' = IF handle = "none" THEN "connect" ELSE "len"
    /\ UNCHANGED <<link, buf, router, handle>>

\* Mutant of Connect: the source id is not written again on the connection of a retry.
ConnectUnidentified ==
    /\ cli = "connect"
    /\ IF link = "listen"
         THEN link' = "up" /\ handle' = "ok" /\ cli' = (IF attempt = 0 THEN "id" ELSE "len")
         ELSE cli' = "idle" /\ UNCHANGED <<link, handle>>
    /\ UNCHANGED <<buf, router, msg, size, attempt>>

\* CreateFileA finds a listening instance, or the call returns false.
Connect ==
    /\ cli = "connect"
    /\ IF link = "listen"
         THEN link' = "up" /\ handle' = "ok" /\ cli' = "id"
         ELSE cli' = "idle" /\ UNCHANGED <<link, handle>>
    /\ UNCHANGED <<buf, router, msg, size, attempt>>

\* WriteFile of ws succeeds while the router has not disconnected the pipe.
Write(ws) == handle = "ok" /\ buf' = buf \o ws /\ UNCHANGED <<link, handle>>
WriteFails == handle = "broken" /\ Disconnect /\ UNCHANGED buf

\* In Connect: a failure is the failure of Connect.
WriteId ==
    /\ cli = "id"
    /\ \/ Write(Id) /\ cli' = "len"
       \/ WriteFails /\ cli' = "idle"
    /\ UNCHANGED <<router, msg, size, attempt>>

\* A failed write of a packet is retried once, on a new connection.
Retry ==
    /\ WriteFails
    /\ cli' = IF attempt = 0 THEN "connect" ELSE "idle"
    /\ attempt' = attempt + 1

WriteLen ==
    /\ cli = "len"
    /\ \/ Write(<<Length(size)>>) /\ cli' = "packet" /\ UNCHANGED attempt
       \/ Retry
    /\ UNCHANGED <<router, msg, size>>

\* Mutant of WritePacket: a packet that was written is taken for a failed one.
WritePacketNoReturn ==
    /\ cli = "packet"
    /\ \/ /\ handle = "ok" /\ buf' = buf \o Packet(msg, size) /\ Disconnect
          /\ cli' = IF attempt = 0 THEN "connect" ELSE "idle"
          /\ attempt' = attempt + 1
       \/ Retry
    /\ UNCHANGED <<router, msg, size>>

WritePacket ==
    /\ cli = "packet"
    /\ \/ Write(Packet(msg, size)) /\ cli' = "idle" /\ UNCHANGED attempt
       \/ Retry
    /\ UNCHANGED <<router, msg, size>>

\* ~RouterPublisher, or the end of the sidecar between two calls.
Close ==
    /\ cli = "idle" /\ handle # "none"
    /\ Disconnect
    /\ UNCHANGED <<buf, router, call>>

-----------------------------------------------------------------------------
(* The router.                                                             *)

CreateNamedPipe ==
    /\ pub = "create"
    /\ pub' = "listen" /\ link' = "listen" /\ first' = TRUE
    /\ UNCHANGED <<buf, frameLen, frame, queue, firsts, handle, call>>

\* The client's connection is seen; or the 500 ms are over, although a client
\* may still connect before the pipe is disconnected.
Accept ==
    /\ pub = "listen"
    /\ \/ link # "listen" /\ pub' = "id"
       \/ pub' = "close"
    /\ UNCHANGED <<link, buf, frameLen, frame, queue, first, firsts, handle, call>>

\* ReadFile for n words: how many it gets, and the words it leaves.
Got(n) == IF Len(buf) < n THEN Len(buf) ELSE n
Readable == pub \in {"id", "len", "body"} /\ buf # <<>>
Drop(k) == buf' = SubSeq(buf, k + 1, Len(buf))

ReadSourceId ==
    /\ pub = "id" /\ Readable
    /\ Drop(Got(IdWords))
    /\ pub' = IF Got(IdWords) = IdWords THEN "len" ELSE "close"
    /\ UNCHANGED <<link, frameLen, frame, queue, first, firsts, handle, call>>

ReadLength ==
    /\ pub = "len" /\ Readable
    /\ Drop(1)
    /\ \E n \in ReadAsLength(Head(buf)) :
          IF n \in 1 .. MaxFrame
            THEN pub' = "body" /\ frameLen' = n /\ frame' = <<>>
            ELSE pub' = "close" /\ UNCHANGED <<frameLen, frame>>
    /\ UNCHANGED <<link, queue, first, firsts, handle, call>>

\* The packet a word is of; 0 for a word of an id or a length.
NumberOf(w) == IF w.kind = "osc" THEN w.msg ELSE 0

\* Chunks until the frame is complete, then the enqueue.
ReadChunk ==
    /\ pub = "body" /\ Readable
    /\ LET k   == Got(frameLen - Len(frame))
           all == frame \o SubSeq(buf, 1, k)
       IN /\ Drop(k)
          /\ IF Len(all) = frameLen
               THEN queue' = Append(queue, all) /\ frame' = <<>> /\ pub' = "id"
               ELSE frame' = all /\ UNCHANGED <<pub, queue>>
          /\ firsts' = IF first /\ Len(all) = frameLen THEN Append(firsts, NumberOf(all[1])) ELSE firsts
    /\ first' = (first /\ queue' = queue)
    /\ UNCHANGED <<link, frameLen, handle, call>>

ReadFails ==
    /\ pub \in {"id", "len", "body"} /\ buf = <<>> /\ link = "eof"
    /\ pub' = "close"
    /\ UNCHANGED <<link, buf, frameLen, frame, queue, first, firsts, handle, call>>

\* DisconnectNamedPipe discards what was not read.
DisconnectNamedPipe ==
    /\ pub = "close"
    /\ pub' = "create"
    /\ link' = "none" /\ buf' = <<>>
    /\ handle' = IF handle = "ok" THEN "broken" ELSE handle
    /\ UNCHANGED <<frameLen, frame, queue, first, firsts, call>>

-----------------------------------------------------------------------------
Client == \/ \E n \in Sizes : PublishChatbox(n)
          \/ Connect \/ WriteId \/ WriteLen \/ WritePacket \/ Close
Router == \/ CreateNamedPipe \/ Accept \/ ReadSourceId \/ ReadLength
          \/ ReadChunk \/ ReadFails \/ DisconnectNamedPipe
Next   == Client \/ Router

Spec == Init /\ [][Next]_vars

-----------------------------------------------------------------------------
\* The type invariant: a frame is never longer than its announced length, a packet never
\* attempted more than twice.
TypeOK ==
    /\ link \in {"none", "listen", "up", "eof"} /\ handle \in {"none", "ok", "broken"}
    /\ pub \in {"create", "listen", "id", "len", "body", "close"}
    /\ frameLen \in 0 .. MaxFrame /\ Len(frame) <= frameLen
    /\ cli \in {"idle", "connect", "id", "len", "packet"}
    /\ msg \in 0 .. MaxPackets /\ attempt \in 0 .. 2

\* Whatever a client writes, a frame that is enqueued fits an entry of the send
\* queue (OscRouter.cpp, kSendQueueEntryMaxSize) and is not empty.
FramesFit == \A j \in DOMAIN queue : Len(queue[j]) \in 1 .. MaxFrame

\* What PubPipeWorkerMain's comment states as the wire format per frame
\* (OscRouter.cpp:335): every frame it enqueues is one packet of the client, whole.
FramesArePackets ==
    \A j \in DOMAIN queue : \E m \in 1 .. msg : queue[j] = Packet(m, Len(queue[j]))

\* Wherever connections break and retries begin, the first frame the router enqueues
\* of a connection is a whole packet of RouterPublisher.
FirstFrameIsPacket ==
    [][first /\ queue' # queue =>
         \E m \in 1 .. msg, n \in Sizes : queue' = Append(queue, Packet(m, n))]_vars

\* The first frames of the connections implement PacketDelivery: each is of a packet
\* published before, newer than those of all earlier connections, although
\* PublishChatbox sends a packet again on a new connection after a failed write.
Delivery == INSTANCE PacketDelivery WITH published <- msg, delivered <- firsts
IsInOrderDelivery == Delivery!Spec
=============================================================================
