--------------------------- MODULE PubPipeProofs ----------------------------
(***************************************************************************)
(* Theorems about the publish pipe, for ids, packets and histories of any  *)
(* length: what the router enqueues fits its queue, and the first frames   *)
(* of RouterPublisher's connections are packets, in order and once each.   *)
(***************************************************************************)
EXTENDS PubPipe, SequenceTheorems, TLAPS

\* The words that are written.
IdWord  == [kind : {"id"}, word : Nat]
LenWord == [kind : {"len"}, value : Sizes]
OscWord == [kind : {"osc"}, msg : Nat, word : Nat, of : Sizes]
Words   == IdWord \cup LenWord \cup OscWord

-----------------------------------------------------------------------------
(* What is written, and what a read leaves.                                *)

\* Packets have a length.
LEMMA SizesAreNat == \A n \in Sizes : n \in Nat /\ n > 0 /\ n <= MaxFrame
  BY SizesAssumption, BoundsAssumption

\* The source id, as it is written.
LEMMA IdIsWords == Id \in Seq(Words) /\ Len(Id) = IdWords
  <1>1. \A i \in 1 .. IdWords : [kind |-> "id", word |-> i] \in Words
    BY BoundsAssumption DEF Words, IdWord
  <1> QED
    BY <1>1, BoundsAssumption DEF Id

\* A length, as it is written.
LEMMA LengthIsWords == ASSUME NEW n \in Sizes PROVE <<Length(n)>> \in Seq(Words)
  BY DEF Length, Words, LenWord

\* A packet, as it is written.
LEMMA PacketIsWords ==
    ASSUME NEW m \in Nat, NEW n \in Sizes
    PROVE  /\ Packet(m, n) \in Seq(Words) /\ Len(Packet(m, n)) = n
           /\ \A i \in 1 .. n : Packet(m, n)[i] = [kind |-> "osc", msg |-> m, word |-> i, of |-> n]
  <1> DEFINE W(i) == [kind |-> "osc", msg |-> m, word |-> i, of |-> n]
  <1>1. n \in Nat /\ \A i \in 1 .. n : W(i) \in Words
    BY SizesAreNat DEF Words, OscWord
  <1>2. Packet(m, n) = [i \in 1 .. n |-> W(i)]
    BY DEF Packet
  <1> HIDE DEF W
  <1>3. Packet(m, n) \in Seq(Words) /\ Len(Packet(m, n)) = n /\ \A i \in 1 .. n : Packet(m, n)[i] = W(i)
    BY <1>1, <1>2
  <1> QED
    BY <1>3 DEF W

\* What is left after k words have been read.
LEMMA DropFacts ==
    ASSUME NEW b \in Seq(Words), NEW k \in 0 .. Len(b)
    PROVE  LET d == SubSeq(b, k + 1, Len(b)) IN
           /\ d \in Seq(Words) /\ Len(d) = Len(b) - k
           /\ \A i \in 1 .. Len(b) - k : d[i] = b[k + i]
  <1> DEFINE d == SubSeq(b, k + 1, Len(b))
  <1>1. Len(b) \in Nat /\ \A i \in k + 1 .. Len(b) : b[i] \in Words
    BY LenProperties, ElementOfSeq
  <1>2. d \in Seq(Words) /\ Len(d) = Len(b) - k
    BY <1>1
  <1>3. ASSUME NEW i \in 1 .. Len(b) - k PROVE d[i] = b[k + i]
    BY <1>1
  <1> QED
    BY <1>2, <1>3

-----------------------------------------------------------------------------
(* What is read fits, whatever a word is taken for.                        *)

\* Where the two ends are, and how often a packet has been tried.
EndsTypeOK ==
    /\ link \in {"none", "listen", "up", "eof"} /\ handle \in {"none", "ok", "broken"}
    /\ pub \in {"create", "listen", "id", "len", "body", "close"}
    /\ cli \in {"idle", "connect", "id", "len", "packet"}
    /\ msg \in 0 .. MaxPackets /\ attempt \in 0 .. 2
    /\ cli # "idle" => attempt < 2 /\ size \in Sizes

\* What is read: the frame under way is within the length announced for it.
FitInv ==
    /\ buf \in Seq(Words) /\ frame \in Seq(Words) /\ queue \in Seq(Seq(Words))
    /\ frameLen \in 0 .. MaxFrame /\ Len(frame) <= frameLen
    /\ pub = "body" => frameLen > 0
    /\ \A j \in 1 .. Len(queue) : Len(queue[j]) \in 1 .. MaxFrame

\* The two ends stay within their places, and a packet is tried at most twice.
LEMMA EndsStep == ASSUME EndsTypeOK, [Next]_vars PROVE EndsTypeOK'
  <1> USE BoundsAssumption DEF EndsTypeOK
  <1>1. CASE UNCHANGED vars
    BY <1>1 DEF vars, router, call
  <1>2. ASSUME NEW n \in Sizes, PublishChatbox(n) PROVE EndsTypeOK'
    BY <1>2 DEF PublishChatbox, router
  <1>3. CASE Connect
    BY <1>3 DEF Connect, router
  <1>4. CASE WriteId
    BY <1>4 DEF WriteId, Write, WriteFails, Disconnect, router
  <1>5. CASE WriteLen
    BY <1>5 DEF WriteLen, Write, Retry, WriteFails, Disconnect, router
  <1>6. CASE WritePacket
    BY <1>6 DEF WritePacket, Write, Retry, WriteFails, Disconnect, router
  <1>7. CASE Close
    BY <1>7 DEF Close, Disconnect, router, call
  <1>8. CASE CreateNamedPipe \/ Accept \/ ReadFails \/ DisconnectNamedPipe
    BY <1>8 DEF CreateNamedPipe, Accept, ReadFails, DisconnectNamedPipe, call
  <1>9. CASE ReadSourceId \/ ReadLength
    BY <1>9 DEF ReadSourceId, ReadLength, call
  <1>10. CASE ReadChunk
    BY <1>10 DEF ReadChunk, call
  <1> QED
    BY <1>1, <1>2, <1>3, <1>4, <1>5, <1>6, <1>7, <1>8, <1>9, <1>10 DEF Next, Client, Router

\* What is left in the pipe after a read is a sequence of words.
LEMMA DropWords ==
    ASSUME buf \in Seq(Words), NEW k \in Nat, k <= Len(buf), Drop(k)
    PROVE  buf' \in Seq(Words)
  <1>1. buf' = SubSeq(buf, k + 1, Len(buf)) /\ Len(buf) \in Nat
    BY LenProperties DEF Drop
  <1> QED
    BY <1>1

\* A read for n words gets at most n, and no more than there are.
LEMMA GotBounds ==
    ASSUME buf \in Seq(Words), NEW n \in Nat
    PROVE  Got(n) \in Nat /\ Got(n) <= n /\ Got(n) <= Len(buf)
  BY LenProperties DEF Got

\* The frame grows up to its announced length, and is enqueued with that length.
LEMMA ChunkFits == ASSUME EndsTypeOK, FitInv, ReadChunk PROVE FitInv'
  <1> DEFINE n == frameLen - Len(frame)
             k == Got(n)
             all == frame \o SubSeq(buf, 1, k)
  <1>1. /\ buf \in Seq(Words) /\ frame \in Seq(Words) /\ queue \in Seq(Seq(Words))
        /\ Len(buf) \in Nat /\ Len(frame) \in Nat /\ Len(queue) \in Nat
        /\ frameLen \in 1 .. MaxFrame /\ Len(frame) <= frameLen /\ frameLen' = frameLen
    BY BoundsAssumption, LenProperties DEF FitInv, ReadChunk
  <1>2. n \in Nat
    BY <1>1, BoundsAssumption
  <1>3. k \in Nat /\ k <= n /\ k <= Len(buf)
    BY <1>1, <1>2, GotBounds
  <1>4. /\ Drop(k)
        /\ IF Len(all) = frameLen
             THEN queue' = Append(queue, all) /\ frame' = << >> /\ pub' = "id"
             ELSE frame' = all /\ UNCHANGED <<pub, queue>>
    BY Zenon DEF ReadChunk
  <1> HIDE DEF k
  <1>5. SubSeq(buf, 1, k) \in Seq(Words) /\ Len(SubSeq(buf, 1, k)) = k
    BY <1>1, <1>3
  <1>6. all \in Seq(Words) /\ Len(all) = Len(frame) + k
    BY <1>1, <1>5, ConcatProperties
  <1>7. Len(all) <= frameLen
    BY <1>1, <1>3, <1>6, BoundsAssumption
  <1> HIDE DEF n, all
  <1>8. buf' \in Seq(Words)
    BY <1>1, <1>3, <1>4, DropWords
  <1>9. CASE Len(all) = frameLen
    <2>1. queue' = Append(queue, all) /\ frame' = << >> /\ pub' = "id"
      BY <1>4, <1>9
    <2>2. /\ queue' \in Seq(Seq(Words)) /\ Len(queue') = Len(queue) + 1
          /\ \A j \in 1 .. Len(queue) : queue'[j] = queue[j]
          /\ queue'[Len(queue) + 1] = all
      BY <1>1, <1>6, <2>1, AppendProperties
    <2>3. ASSUME NEW j \in 1 .. Len(queue') PROVE Len(queue'[j]) \in 1 .. MaxFrame
      <3>1. CASE j \in 1 .. Len(queue)
        BY <2>2, <3>1 DEF FitInv
      <3>2. CASE j = Len(queue) + 1
        BY <1>1, <1>9, <2>2, <3>2
      <3> QED
        BY <1>1, <2>2, <3>1, <3>2
    <2>4. frame' \in Seq(Words) /\ Len(frame') = 0
      BY <2>1
    <2> QED
      BY <1>1, <1>8, <2>1, <2>2, <2>3, <2>4, BoundsAssumption DEF FitInv
  <1>10. CASE Len(all) # frameLen
    <2>1. frame' = all /\ pub' = pub /\ queue' = queue
      BY <1>4, <1>10
    <2> QED
      BY <1>1, <1>6, <1>7, <1>8, <2>1, BoundsAssumption DEF FitInv
  <1> QED
    BY <1>9, <1>10

\* Every other step of the two ends.
LEMMA FitStep == ASSUME EndsTypeOK, FitInv, [Next]_vars PROVE FitInv'
  <1> USE BoundsAssumption
  <1>1. ASSUME buf' \in Seq(Words), UNCHANGED <<frame, frameLen, queue>>, pub' = "body" => pub = "body"
        PROVE  FitInv'
    BY <1>1 DEF FitInv
  <1>2. buf \in Seq(Words) /\ << >> \in Seq(Words) /\ Len(buf) \in Nat
    BY LenProperties DEF FitInv
  <1>3. ASSUME NEW ws \in Seq(Words), Write(ws) PROVE buf' \in Seq(Words)
    BY <1>2, <1>3, ConcatProperties DEF Write
  <1>4. CASE UNCHANGED vars
    BY <1>1, <1>2, <1>4 DEF vars, router
  <1>5. ASSUME NEW n \in Sizes, PublishChatbox(n) PROVE FitInv'
    BY <1>1, <1>2, <1>5 DEF PublishChatbox, router
  <1>6. CASE Connect \/ Close
    BY <1>1, <1>2, <1>6 DEF Connect, Close, router
  <1>7. CASE WriteId
    BY <1>1, <1>2, <1>3, <1>7, IdIsWords DEF WriteId, WriteFails, router
  <1>8. CASE WriteLen
    <2>0. size \in Sizes
      BY <1>8 DEF EndsTypeOK, WriteLen
    <2>1. <<Length(size)>> \in Seq(Words)
      BY <2>0, LengthIsWords
    <2> QED
      BY <1>1, <1>2, <1>3, <1>8, <2>1 DEF WriteLen, Retry, WriteFails, router
  <1>9. CASE WritePacket
    <2>0. size \in Sizes /\ msg \in Nat
      BY <1>9 DEF EndsTypeOK, WritePacket
    <2>1. Packet(msg, size) \in Seq(Words)
      BY <2>0, PacketIsWords
    <2> QED
      BY <1>1, <1>2, <1>3, <1>9, <2>1 DEF WritePacket, Retry, WriteFails, router
  <1>10. CASE CreateNamedPipe \/ Accept \/ ReadFails \/ DisconnectNamedPipe
    BY <1>1, <1>2, <1>10 DEF CreateNamedPipe, Accept, ReadFails, DisconnectNamedPipe
  <1>11. CASE ReadSourceId
    <2>1. Got(IdWords) \in Nat /\ Got(IdWords) <= Len(buf)
      BY <1>2, GotBounds
    <2>2. buf' \in Seq(Words)
      BY <1>2, <1>11, <2>1, DropWords DEF ReadSourceId
    <2> QED
      BY <1>1, <1>11, <2>2 DEF ReadSourceId
  <1>12. CASE ReadLength
    <2>1. Len(buf) > 0
      BY <1>2, <1>12, EmptySeq DEF ReadLength, Readable
    <2>2. buf' \in Seq(Words)
      BY <1>2, <1>12, <2>1, DropWords DEF ReadLength
    <2>3. PICK n \in ReadAsLength(Head(buf)) :
            IF n \in 1 .. MaxFrame
              THEN pub' = "body" /\ frameLen' = n /\ frame' = <<>>
              ELSE pub' = "close" /\ UNCHANGED <<frameLen, frame>>
      BY <1>12 DEF ReadLength
    <2>4. queue' = queue
      BY <1>12 DEF ReadLength
    <2>5. CASE n \in 1 .. MaxFrame
      BY <1>2, <2>2, <2>3, <2>4, <2>5 DEF FitInv
    <2>6. CASE n \notin 1 .. MaxFrame
      BY <1>1, <2>2, <2>3, <2>4, <2>6
    <2> QED
      BY <2>5, <2>6
  <1>13. CASE ReadChunk
    BY <1>13, ChunkFits
  <1> QED
    BY <1>4, <1>5, <1>6, <1>7, <1>8, <1>9, <1>10, <1>11, <1>12, <1>13 DEF Next, Client, Router

\* PubPipeWorkerMain stays within its frame buffer and
\* enqueues no frame that is empty or too long for the send queue, whatever it
\* takes for a length; and PublishChatbox tries a packet at most twice.
THEOREM FramesAlwaysFit == Spec => [](TypeOK /\ FramesFit)
  <1>1. Init => EndsTypeOK /\ FitInv
    <2> SUFFICES ASSUME Init PROVE EndsTypeOK /\ FitInv
      OBVIOUS
    <2>1. EndsTypeOK
      BY BoundsAssumption DEF Init, EndsTypeOK
    <2>2. /\ buf \in Seq(Words) /\ frame \in Seq(Words) /\ queue \in Seq(Seq(Words))
          /\ Len(frame) = 0 /\ Len(queue) = 0
      BY DEF Init
    <2> QED
      BY <2>1, <2>2, BoundsAssumption DEF Init, FitInv
  <1>2. EndsTypeOK /\ FitInv /\ [Next]_vars => (EndsTypeOK /\ FitInv)'
    BY EndsStep, FitStep
  <1>3. EndsTypeOK /\ FitInv => TypeOK /\ FramesFit
    <2> SUFFICES ASSUME EndsTypeOK, FitInv PROVE TypeOK /\ FramesFit
      OBVIOUS
    <2>1. DOMAIN queue = 1 .. Len(queue)
      BY LenProperties DEF FitInv
    <2>2. FramesFit
      BY <2>1 DEF FitInv, FramesFit
    <2> QED
      BY <2>2 DEF EndsTypeOK, FitInv, TypeOK
  <1> QED
    BY <1>1, <1>2, <1>3, PTL DEF Spec

-----------------------------------------------------------------------------
(* The first frame of a connection.                                        *)

\* The two ends of the connection.
ConnInv ==
    /\ handle = "ok" <=> link = "up"
    /\ link \in {"none", "listen"} => buf = << >>
    /\ pub = "create" <=> link = "none"
    /\ link = "listen" => pub \in {"listen", "close"}
    /\ cli = "connect" => handle = "none"
    /\ cli # "idle" => msg > 0

\* The i-th word that a client writes on a connection: the id, the length of its
\* first packet, the packet.
NthWord(m, n, i) ==
    IF i <= IdWords THEN [kind |-> "id", word |-> i]
    ELSE IF i = IdWords + 1 THEN Length(n)
    ELSE [kind |-> "osc", msg |-> m, word |-> i - (IdWords + 1), of |-> n]

\* How many words the router has read, before the first frame is complete, how many
\* have been written, and how many there are up to the end of a packet of n words.
Read      == IF pub = "len" THEN IdWords ELSE IF pub = "body" THEN IdWords + 1 ELSE 0
Written   == Read + Len(buf)
UpTo(n)   == (IdWords + 1) + n

\* The unread words go on where the router is, as far as packet m of n words
\* reaches; and where they stop is where the client's next write belongs.  Once m is
\* written to its end, it is newer than the first frames so far, and not tried again.
Newest(m) == (\A j \in DOMAIN firsts : firsts[j] < m) /\ (cli # "idle" => m < msg)
Starts(m, n) ==
    /\ Written >= UpTo(n) => Newest(m)
    /\ \A i \in 1 .. Len(buf) : Read + i <= UpTo(n) => buf[i] = NthWord(m, n, Read + i)
    /\ pub = "body" => frameLen = n
    /\ Written \in {0, IdWords, IdWords + 1} \/ Written >= UpTo(n)
    /\ Written > IdWords => n \in Sizes /\ m \in 1 .. msg
    /\ handle = "ok" /\ Written < UpTo(n) =>
          /\ m = msg /\ n = size
          /\ cli = IF Written = 0 THEN "id" ELSE IF Written = IdWords THEN "len" ELSE "packet"

\* The packet under way is newer than the first frames so far.
OrderInv ==
    /\ firsts \in Seq(Nat)
    /\ \A j \in DOMAIN firsts : firsts[j] <= msg /\ (cli # "idle" => firsts[j] < msg)

Reading  == first /\ pub \in {"listen", "id", "len", "body"}
FirstInv ==
    Reading => /\ pub = "body" => frame = << >>
               /\ \E m, n \in Nat : Starts(m, n)

\* The connection, step by step.
LEMMA ConnStep == ASSUME EndsTypeOK, FitInv, ConnInv, [Next]_vars PROVE ConnInv'
  <1> USE DEF ConnInv
  <1>1. CASE UNCHANGED vars
    BY <1>1 DEF vars, router, call
  <1>2. ASSUME NEW n \in Sizes, PublishChatbox(n) PROVE ConnInv'
    BY <1>2, BoundsAssumption DEF PublishChatbox, router, EndsTypeOK
  <1>3. CASE Connect
    BY <1>3 DEF Connect, router
  <1>4. CASE WriteId
    BY <1>4 DEF WriteId, Write, WriteFails, Disconnect, router, EndsTypeOK
  <1>5. CASE WriteLen
    BY <1>5 DEF WriteLen, Write, Retry, WriteFails, Disconnect, router, EndsTypeOK
  <1>6. CASE WritePacket
    BY <1>6 DEF WritePacket, Write, Retry, WriteFails, Disconnect, router, EndsTypeOK
  <1>7. CASE Close
    BY <1>7 DEF Close, Disconnect, router, call, EndsTypeOK
  <1>8. CASE CreateNamedPipe \/ Accept \/ ReadFails \/ DisconnectNamedPipe
    BY <1>8 DEF CreateNamedPipe, Accept, ReadFails, DisconnectNamedPipe, call, EndsTypeOK
  <1>9. CASE ReadSourceId \/ ReadLength
    BY <1>9 DEF ReadSourceId, ReadLength, call, EndsTypeOK
  <1>10. CASE ReadChunk
    BY <1>10 DEF ReadChunk, call, EndsTypeOK
  <1> QED
    BY <1>1, <1>2, <1>3, <1>4, <1>5, <1>6, <1>7, <1>8, <1>9, <1>10 DEF Next, Client, Router

\* Appending the words u to the stream, if they are the ones that belong there or
\* come after the first packet.
LEMMA WriteOn ==
    ASSUME FitInv, NEW m \in Nat, NEW n \in Nat, Starts(m, n), NEW u \in Seq(Words), handle = "ok",
           buf' = buf \o u, UNCHANGED <<pub, frameLen, msg, size, firsts>>, cli # "idle",
           \/ Written >= UpTo(n)
           \/ /\ \A i \in 1 .. Len(u) : Written + i <= UpTo(n) /\ u[i] = NthWord(m, n, Written + i)
              /\ n \in Sizes /\ m \in 1 .. msg
              /\ m = msg /\ n = size
              /\ \/ Written + Len(u) = IdWords /\ cli' = "len"
                 \/ Written + Len(u) = IdWords + 1 /\ cli' = "packet"
                 \/ /\ Written + Len(u) = UpTo(n) /\ cli' = "idle"
                    /\ \A j \in DOMAIN firsts : firsts[j] < m
    PROVE  Starts(m, n)'
  <1> USE BoundsAssumption
  <1>1. Len(buf) \in Nat /\ Len(u) \in Nat /\ Read \in Nat /\ buf \in Seq(Words)
    BY LenProperties DEF FitInv, Read
  <1>2. /\ Len(buf') = Len(buf) + Len(u)
        /\ \A i \in 1 .. Len(buf) : buf'[i] = buf[i]
        /\ \A i \in 1 .. Len(buf') : i > Len(buf) => buf'[i] = u[i - Len(buf)]
    BY <1>1, ConcatProperties
  <1>3. Read' = Read /\ Written' = Written + Len(u) /\ Written = Read + Len(buf)
    <2>1. Read' = Read
      BY DEF Read
    <2>2. Written = Read + Len(buf) /\ Written' = Read' + Len(buf')
      BY DEF Written
    <2> QED
      BY <1>1, <1>2, <2>1, <2>2
  <1>4. ASSUME NEW i \in 1 .. Len(buf'), Read + i <= UpTo(n)
        PROVE  buf'[i] = NthWord(m, n, Read + i)
    <2>1. CASE i <= Len(buf)
      BY <1>1, <1>2, <1>4, <2>1 DEF Starts
    <2>2. CASE i > Len(buf)
      <3>1. ~(Written >= UpTo(n)) /\ Written + (i - Len(buf)) = Read + i
        BY <1>1, <1>3, <1>4, <2>2, <1>2 DEF UpTo
      <3>2. i - Len(buf) \in 1 .. Len(u)
        BY <1>1, <1>2, <2>2
      <3>3. u[i - Len(buf)] = NthWord(m, n, Written + (i - Len(buf)))
        BY <3>1, <3>2
      <3> QED
        BY <1>2, <2>2, <3>1, <3>3
    <2> QED
      BY <1>1, <1>2, <2>1, <2>2
  <1>5. CASE Written >= UpTo(n)
    <2>1. Written > IdWords /\ Written' >= UpTo(n) /\ ~(Written' < UpTo(n)) /\ Written \in Nat
      BY <1>1, <1>3, <1>5 DEF UpTo
    <2>2. n \in Sizes /\ m \in 1 .. msg
      BY <2>1 DEF Starts
    <2>3. Newest(m)'
      BY <1>5 DEF Starts, Newest
    <2> QED
      BY <1>3, <1>4, <2>1, <2>2, <2>3 DEF Starts, UpTo
  <1>6. CASE ~(Written >= UpTo(n))
    <2>1. n \in Sizes /\ m \in 1 .. msg /\ m = msg /\ n = size
      BY <1>6
    <2>2. \/ Written' = IdWords /\ cli' = "len"
          \/ Written' = IdWords + 1 /\ cli' = "packet"
          \/ Written' = UpTo(n) /\ cli' = "idle" /\ \A j \in DOMAIN firsts : firsts[j] < m
      BY <1>3, <1>6
    <2>3. Written' \in {0, IdWords, IdWords + 1} \/ Written' >= UpTo(n)
      BY <2>2 DEF UpTo
    <2>4. Written' < UpTo(n) =>
            cli' = IF Written' = 0 THEN "id" ELSE IF Written' = IdWords THEN "len" ELSE "packet"
      BY <2>2 DEF UpTo
    <2>5. Written' >= UpTo(n) => Newest(m)'
      BY <2>1, <2>2, SizesAreNat DEF Newest, UpTo
    <2> QED
      BY <1>3, <1>4, <2>1, <2>3, <2>4, <2>5 DEF Starts, UpTo
  <1> QED
    BY <1>5, <1>6

\* The client's three writes: each belongs where the stream stops.
LEMMA FirstWrites ==
    ASSUME EndsTypeOK, FitInv, ConnInv, OrderInv, FirstInv, handle = "ok",
           \/ cli = "id" /\ Write(Id) /\ cli' = "len"
           \/ cli = "len" /\ Write(<<Length(size)>>) /\ cli' = "packet"
           \/ cli = "packet" /\ Write(Packet(msg, size)) /\ cli' = "idle",
           UNCHANGED <<router, msg, size>>
    PROVE  FirstInv'
  <1> USE BoundsAssumption
  <1> SUFFICES ASSUME Reading'
               PROVE  /\ pub' = "body" => frame' = << >>
                      /\ \E m, n \in Nat : Starts(m, n)'
    BY DEF FirstInv
  <1>1. Reading /\ UNCHANGED <<pub, frame, frameLen, firsts, msg, size>>
    BY DEF Reading, router
  <1>2. PICK m \in Nat, n \in Nat : Starts(m, n)
    BY <1>1 DEF FirstInv
  <1>3. size \in Sizes /\ size \in Nat /\ size > 0 /\ msg \in Nat /\ msg \in 1 .. msg
    BY SizesAreNat DEF EndsTypeOK, ConnInv
  <1>4. Len(buf) \in Nat /\ Read \in Nat /\ Written \in Nat /\ Written = Read + Len(buf)
    BY LenProperties DEF FitInv, Read, Written
  <1>5. ASSUME ~(Written >= UpTo(n))
        PROVE  /\ m = msg /\ n = size
               /\ Written = IF cli = "id" THEN 0 ELSE IF cli = "len" THEN IdWords ELSE IdWords + 1
    BY <1>2, <1>4, <1>5 DEF Starts, UpTo
  <1>6. CASE cli = "id"
    <2>1. Write(Id) /\ cli' = "len"
      BY <1>6
    <2>2. /\ Id \in Seq(Words) /\ Len(Id) = IdWords
          /\ \A i \in 1 .. IdWords : Id[i] = NthWord(m, n, i)
      BY IdIsWords DEF Id, NthWord
    <2>3. ASSUME ~(Written >= UpTo(n)) PROVE Starts(m, n)'
      <3>1. Written = 0 /\ m = msg /\ n = size
        BY <1>5, <1>6, <2>3
      <3>2. ASSUME NEW i \in 1 .. Len(Id)
            PROVE  Written + i <= UpTo(n) /\ Id[i] = NthWord(m, n, Written + i)
        <4>1. i \in 1 .. IdWords /\ Written + i = i /\ i <= UpTo(n)
          BY <1>3, <2>2, <3>1 DEF UpTo
        <4> QED
          BY <2>2, <4>1
      <3>3. Written + Len(Id) = IdWords
        BY <2>2, <3>1
      <3> QED
        BY <1>1, <1>2, <1>3, <2>1, <2>2, <3>1, <3>2, <3>3, WriteOn DEF Write
    <2>4. ASSUME Written >= UpTo(n) PROVE Starts(m, n)'
      BY <1>1, <1>2, <2>1, <2>2, <2>4, WriteOn DEF Write
    <2>5. Starts(m, n)'
      BY <2>3, <2>4, Zenon
    <2> QED
      BY <1>1, <2>5 DEF FirstInv
  <1>7. CASE cli = "len"
    <2> DEFINE u == <<Length(size)>>
    <2>1. Write(u) /\ cli' = "packet"
      BY <1>7
    <2>2. u \in Seq(Words)
      BY <1>3, LengthIsWords
    <2>3. Len(u) = 1 /\ u[1] = Length(size)
      OBVIOUS
    <2> HIDE DEF u
    <2>4. ASSUME ~(Written >= UpTo(n)) PROVE Starts(m, n)'
      <3>1. Written = IdWords /\ m = msg /\ n = size
        BY <1>5, <1>7, <2>4
      <3>2. ASSUME NEW i \in 1 .. Len(u)
            PROVE  Written + i <= UpTo(n) /\ u[i] = NthWord(m, n, Written + i)
        <4>1. i = 1
          BY <2>3
        <4> QED
          BY <1>3, <2>3, <3>1, <4>1 DEF UpTo, NthWord
      <3>3. Written + Len(u) = IdWords + 1
        BY <2>3, <3>1
      <3> QED
        BY <1>1, <1>2, <1>3, <2>1, <2>2, <3>1, <3>2, <3>3, WriteOn DEF Write
    <2>5. ASSUME Written >= UpTo(n) PROVE Starts(m, n)'
      BY <1>1, <1>2, <2>1, <2>2, <2>5, WriteOn DEF Write
    <2>6. Starts(m, n)'
      BY <2>4, <2>5, Zenon
    <2> QED
      BY <1>1, <2>6 DEF FirstInv
  <1>8. CASE cli = "packet"
    <2> DEFINE u == Packet(msg, size)
    <2>1. Write(u) /\ cli' = "idle"
      BY <1>8
    <2>2. /\ u \in Seq(Words) /\ Len(u) = size
          /\ \A i \in 1 .. size : u[i] = [kind |-> "osc", msg |-> msg, word |-> i, of |-> size]
      BY <1>3, PacketIsWords
    <2> HIDE DEF u
    <2>3. ASSUME ~(Written >= UpTo(n)) PROVE Starts(m, n)'
      <3>1. Written = IdWords + 1 /\ m = msg /\ n = size
        BY <1>5, <1>8, <2>3
      <3>2. ASSUME NEW i \in 1 .. Len(u)
            PROVE  Written + i <= UpTo(n) /\ u[i] = NthWord(m, n, Written + i)
        <4>1. /\ i \in 1 .. size /\ Written + i <= UpTo(n) /\ ~(Written + i <= IdWords)
              /\ Written + i # IdWords + 1 /\ (Written + i) - (IdWords + 1) = i
          BY <1>3, <2>2, <3>1 DEF UpTo
        <4> QED
          BY <2>2, <3>1, <4>1 DEF NthWord
      <3>3. Written + Len(u) = UpTo(n)
        BY <1>3, <2>2, <3>1 DEF UpTo
      <3>4. \A j \in DOMAIN firsts : firsts[j] < m
        BY <1>8, <3>1 DEF OrderInv
      <3> QED
        BY <1>1, <1>2, <1>3, <1>8, <2>1, <2>2, <3>1, <3>2, <3>3, <3>4, WriteOn DEF Write
    <2>4. ASSUME Written >= UpTo(n) PROVE Starts(m, n)'
      BY <1>1, <1>2, <2>1, <2>2, <2>4, WriteOn DEF Write
    <2>5. Starts(m, n)'
      BY <2>3, <2>4, Zenon
    <2> QED
      BY <1>1, <2>5 DEF FirstInv
  <1> QED
    BY <1>6, <1>7, <1>8

\* The router reads the next k words, which are there, and goes on to the words
\* after them.
LEMMA ReadOn ==
    ASSUME FitInv, NEW m \in Nat, NEW n \in Nat, Starts(m, n), NEW k \in Nat, k <= Len(buf), Drop(k),
           Read' = Read + k, pub' = "body" => frameLen' = n, UNCHANGED <<handle, firsts, call>>
    PROVE  Starts(m, n)'
  <1> USE BoundsAssumption
  <1>1. Len(buf) \in Nat /\ Read \in Nat /\ buf \in Seq(Words)
    BY LenProperties DEF FitInv, Read
  <1>2. /\ Len(buf') = Len(buf) - k
        /\ \A i \in 1 .. Len(buf') : buf'[i] = buf[k + i] /\ k + i \in 1 .. Len(buf)
    BY <1>1, DropFacts DEF Drop
  <1>3. Written' = Written
    <2>1. Written = Read + Len(buf) /\ Written' = Read' + Len(buf')
      BY DEF Written
    <2> QED
      BY <1>1, <1>2, <2>1
  <1>4. ASSUME NEW i \in 1 .. Len(buf'), Read' + i <= UpTo(n)
        PROVE  buf'[i] = NthWord(m, n, Read' + i)
    <2>1. Read' + i = Read + (k + i) /\ k + i \in 1 .. Len(buf)
      BY <1>1, <1>2
    <2> QED
      BY <1>2, <1>4, <2>1 DEF Starts
  <1>5. UNCHANGED <<handle, msg, size, cli, firsts>>
    BY DEF call
  <1> QED
    BY <1>3, <1>4, <1>5 DEF Starts, Newest

\* The router's read of the source id gets the id.
LEMMA FirstId == ASSUME EndsTypeOK, FitInv, FirstInv, ReadSourceId PROVE FirstInv'
  <1> USE BoundsAssumption
  <1> SUFFICES ASSUME Reading' PROVE FirstInv'
    BY DEF FirstInv
  <1>1. /\ pub = "id" /\ buf # << >> /\ Drop(Got(IdWords))
        /\ UNCHANGED <<frameLen, frame, first, firsts, handle, call>>
        /\ pub' = IF Got(IdWords) = IdWords THEN "len" ELSE "close"
    BY DEF ReadSourceId, Readable
  <1>2. Reading /\ pub' = "len" /\ Got(IdWords) = IdWords
    BY <1>1 DEF Reading
  <1>3. PICK m \in Nat, n \in Nat : Starts(m, n)
    BY <1>2 DEF FirstInv
  <1>4. Len(buf) \in Nat /\ IdWords <= Len(buf)
    BY <1>2, LenProperties DEF FitInv, Got
  <1>5. Read' = Read + IdWords
    BY <1>1, <1>2 DEF Read
  <1>6. Starts(m, n)'
    BY <1>1, <1>2, <1>3, <1>4, <1>5, ReadOn
  <1> QED
    BY <1>2, <1>6 DEF FirstInv

\* Its read of the length gets the length that was written.
LEMMA FirstLength == ASSUME EndsTypeOK, FitInv, FirstInv, ReadLength PROVE FirstInv'
  <1> USE BoundsAssumption
  <1> SUFFICES ASSUME Reading' PROVE FirstInv'
    BY DEF FirstInv
  <1>1. pub = "len" /\ buf # << >> /\ Drop(1) /\ UNCHANGED <<first, firsts, handle, call>>
    BY DEF ReadLength, Readable
  <1>2. Reading
    BY <1>1 DEF Reading
  <1>3. PICK m \in Nat, n \in Nat : Starts(m, n)
    BY <1>2 DEF FirstInv
  <1>4. Len(buf) \in Nat /\ 1 <= Len(buf) /\ buf \in Seq(Words) /\ Read = IdWords
    BY <1>1, LenProperties, EmptySeq DEF FitInv, Read
  <1>5. n \in Sizes /\ n \in 1 .. MaxFrame /\ buf[1] = Length(n)
    <2>1. Written = IdWords + Len(buf)
      BY <1>4 DEF Written
    <2>2. Written > IdWords
      BY <1>4, <2>1
    <2>3. n \in Sizes /\ n \in 1 .. MaxFrame
      BY <1>3, <2>2, SizesAreNat DEF Starts
    <2>4. buf[1] = NthWord(m, n, IdWords + 1)
      BY <1>3, <1>4 DEF Starts, UpTo
    <2> QED
      BY <2>3, <2>4 DEF NthWord
  <1>6. ReadAsLength(Head(buf)) = {n}
    <2>1. Head(buf) = Length(n)
      BY <1>4, <1>5
    <2> QED
      BY <2>1 DEF ReadAsLength, Length
  <1>7. pub' = "body" /\ frameLen' = n /\ frame' = << >>
    BY <1>5, <1>6 DEF ReadLength
  <1>8. Read' = Read + 1
    BY <1>4, <1>7 DEF Read
  <1>9. Starts(m, n)'
    BY <1>1, <1>3, <1>4, <1>7, <1>8, ReadOn
  <1> QED
    BY <1>7, <1>9 DEF FirstInv

\* Its read of the body gets one packet.
LEMMA FirstChunk ==
    ASSUME EndsTypeOK, FitInv, FirstInv, ReadChunk, first
    PROVE  /\ ~first'
           /\ \E m \in 1 .. msg, n \in Sizes :
                 queue' = Append(queue, Packet(m, n)) /\ firsts' = Append(firsts, m) /\ Newest(m)
  <1> USE BoundsAssumption
  <1>1. pub = "body" /\ buf # << >> /\ Reading /\ frame = << >>
    BY DEF ReadChunk, Readable, Reading, FirstInv
  <1>2. PICK m \in Nat, n \in Nat : Starts(m, n)
    BY <1>1 DEF FirstInv
  <1>3. /\ Len(buf) \in Nat /\ Len(buf) > 0 /\ buf \in Seq(Words) /\ Read = IdWords + 1
        /\ queue \in Seq(Seq(Words)) /\ Len(queue) \in Nat /\ frameLen = n
    BY <1>1, <1>2, LenProperties, EmptySeq DEF FitInv, Read, Starts
  <1>4. n \in Sizes /\ m \in 1 .. msg /\ n <= Len(buf)
    <2>1. Written = (IdWords + 1) + Len(buf)
      BY <1>3 DEF Written
    <2>2. Written > IdWords + 1
      BY <1>3, <2>1
    <2> QED
      BY <1>2, <1>3, <2>1, <2>2 DEF Starts, UpTo
  <1>5. n \in Nat /\ n > 0
    BY <1>4, SizesAreNat
  <1> DEFINE p == SubSeq(buf, 1, n)
  <1>6. p = [i \in 1 .. n |-> buf[i]] /\ Len(p) = n /\ p \in Seq(Words)
    BY <1>3, <1>4, <1>5
  <1>7. ASSUME NEW i \in 1 .. n
        PROVE  buf[i] = [kind |-> "osc", msg |-> m, word |-> i, of |-> n]
    <2>1. /\ i \in 1 .. Len(buf) /\ Read + i <= UpTo(n) /\ ~(Read + i <= IdWords)
          /\ Read + i # IdWords + 1 /\ (Read + i) - (IdWords + 1) = i
      BY <1>3, <1>4, <1>5 DEF UpTo
    <2>2. buf[i] = NthWord(m, n, Read + i)
      BY <1>2, <2>1 DEF Starts
    <2> QED
      BY <2>1, <2>2 DEF NthWord
  <1>8. p = Packet(m, n)
    BY <1>6, <1>7 DEF Packet
  <1> HIDE DEF p
  <1>9. queue' = Append(queue, p)
    <2>1. frameLen - Len(frame) = n /\ Got(n) = n /\ frame \o p = p
      BY <1>1, <1>3, <1>4, <1>5, <1>6 DEF Got
    <2>2. LET k   == Got(frameLen - Len(frame))
              all == frame \o SubSeq(buf, 1, k)
          IN IF Len(all) = frameLen
               THEN queue' = Append(queue, all) /\ frame' = << >> /\ pub' = "id"
               ELSE frame' = all /\ UNCHANGED <<pub, queue>>
      BY Zenon DEF ReadChunk
    <2>3. LET all == frame \o p
          IN IF Len(all) = frameLen
               THEN queue' = Append(queue, all) /\ frame' = << >> /\ pub' = "id"
               ELSE frame' = all /\ UNCHANGED <<pub, queue>>
      BY <2>1, <2>2, Zenon DEF p
    <2> QED
      BY <1>3, <1>6, <2>1, <2>3
  <1>10. queue' # queue
    <2>1. Len(queue') = Len(queue) + 1
      BY <1>3, <1>6, <1>9, AppendProperties
    <2> QED
      BY <1>3, <2>1
  <1>11. first' = (first /\ queue' = queue)
    BY DEF ReadChunk
  <1>12. ~first'
    BY <1>10, <1>11
  <1>13. firsts' = Append(firsts, m)
    <2>1. frameLen - Len(frame) = n /\ Got(n) = n /\ frame \o p = p
      BY <1>1, <1>3, <1>4, <1>5, <1>6 DEF Got
    <2>2. LET k   == Got(frameLen - Len(frame))
              all == frame \o SubSeq(buf, 1, k)
          IN firsts' = IF first /\ Len(all) = frameLen THEN Append(firsts, NumberOf(all[1])) ELSE firsts
      BY Zenon DEF ReadChunk
    <2>3. LET all == frame \o p
          IN firsts' = IF first /\ Len(all) = frameLen THEN Append(firsts, NumberOf(all[1])) ELSE firsts
      BY <2>1, <2>2, Zenon DEF p
    <2>4. firsts' = Append(firsts, NumberOf(p[1]))
      BY <1>3, <1>6, <2>1, <2>3
    <2>5. p[1] = [kind |-> "osc", msg |-> m, word |-> 1, of |-> n]
      BY <1>5, <1>6, <1>7
    <2>6. NumberOf(p[1]) = m
      BY <2>5 DEF NumberOf
    <2> QED
      BY <2>4, <2>6
  <1>14. Newest(m)
    <2>1. Written = (IdWords + 1) + Len(buf)
      BY <1>3 DEF Written
    <2>2. Written >= UpTo(n)
      BY <1>3, <1>4, <1>5, <2>1 DEF UpTo
    <2> QED
      BY <1>2, <2>2 DEF Starts
  <1> QED
    BY <1>4, <1>8, <1>9, <1>12, <1>13, <1>14

\* Every step keeps the start of the stream.
LEMMA FirstStep == ASSUME EndsTypeOK, FitInv, ConnInv, OrderInv, FirstInv, [Next]_vars PROVE FirstInv'
  <1> USE BoundsAssumption
  <1>1. Len(buf) \in Nat /\ Read \in Nat /\ Written = Read + Len(buf)
    BY LenProperties DEF FitInv, Read, Written
  <1>2. ASSUME UNCHANGED <<pub, buf, frameLen>>
        PROVE  Read' = Read /\ Written' = Written
    BY <1>2 DEF Read, Written
  \* The client's end changes, but no word is added.
  <1>3. ASSUME UNCHANGED <<buf, router>>, msg' \in Nat, msg <= msg', msg \in Nat,
               handle' = "ok" => cli = "idle" \/ UNCHANGED <<cli, msg, size>>,
               handle' = "ok" => handle = "ok",
               cli' # "idle" => cli # "idle" \/ msg < msg'
        PROVE  FirstInv'
    <2> SUFFICES ASSUME Reading'
                 PROVE  /\ pub' = "body" => frame' = << >>
                        /\ \E m, n \in Nat : Starts(m, n)'
      BY DEF FirstInv
    <2>1. UNCHANGED <<pub, buf, frameLen, frame, firsts>> /\ Reading
      BY <1>3 DEF router, Reading
    <2>2. PICK m \in Nat, n \in Nat : Starts(m, n)
      BY <2>1 DEF FirstInv
    <2>3. Read' = Read /\ Written' = Written
      BY <1>2, <2>1
    <2>4. handle' = "ok" /\ Written < UpTo(n) => UNCHANGED <<cli, msg, size>>
      BY <1>3, <2>2 DEF Starts
    <2>5. Written >= UpTo(n) => Newest(m)'
      <3> SUFFICES ASSUME Written >= UpTo(n) PROVE Newest(m)'
        OBVIOUS
      <3>1. Newest(m) /\ m <= msg
        BY <1>1, <1>3, <2>2 DEF Starts, UpTo
      <3> QED
        BY <1>3, <2>1, <3>1 DEF Newest
    <2>6. Starts(m, n)'
      BY <1>3, <2>1, <2>2, <2>3, <2>4, <2>5 DEF Starts
    <2> QED
      BY <2>1, <2>6 DEF FirstInv
  <1>4. msg \in Nat
    BY DEF EndsTypeOK
  <1>5. CASE UNCHANGED vars
    BY <1>3, <1>4, <1>5 DEF vars, call
  <1>6. ASSUME NEW n \in Sizes, PublishChatbox(n) PROVE FirstInv'
    BY <1>3, <1>4, <1>6 DEF PublishChatbox
  <1>7. CASE Connect /\ handle' # "ok"
    BY <1>3, <1>4, <1>7 DEF Connect
  <1>8. CASE Connect /\ handle' = "ok"
    <2>1. /\ link = "listen" /\ cli = "connect" /\ cli' = "id" /\ buf' = << >> /\ pub' = pub
          /\ pub \in {"listen", "close"} /\ msg' = msg /\ size' = size /\ size \in Nat
      BY <1>8, SizesAreNat DEF Connect, ConnInv, EndsTypeOK, router
    <2>2. Read' = 0 /\ Written' = 0 /\ Len(buf') = 0
      BY <2>1 DEF Read, Written
    <2>3. \E m, n \in Nat : Starts(m, n)'
      <3>1. /\ \A i \in 1 .. Len(buf') :
                  Read' + i <= UpTo(size) => buf'[i] = NthWord(msg, size, Read' + i)
            /\ pub' # "body" /\ Written' \in {0, IdWords, IdWords + 1} /\ ~(Written' > IdWords)
            /\ cli' = "id" /\ Written' = 0
        BY <2>1, <2>2
      <3>2. ~(Written' >= UpTo(size))
        BY <2>1, <3>1 DEF UpTo
      <3> QED
        BY <1>4, <2>1, <3>1, <3>2 DEF Starts
    <2> QED
      BY <2>1, <2>3 DEF FirstInv
  <1>9. CASE Close
    BY <1>3, <1>4, <1>9 DEF Close, Disconnect, call
  <1>10. CASE WriteId
    BY <1>3, <1>4, <1>10, FirstWrites DEF WriteId, Write, WriteFails, Disconnect
  <1>11. CASE WriteLen
    BY <1>3, <1>4, <1>11, FirstWrites DEF WriteLen, Write, Retry, WriteFails, Disconnect
  <1>12. CASE WritePacket
    BY <1>3, <1>4, <1>12, FirstWrites DEF WritePacket, Write, Retry, WriteFails, Disconnect
  <1>13. CASE CreateNamedPipe
    <2>1. /\ pub' = "listen" /\ buf' = << >> /\ handle' # "ok"
      BY <1>13 DEF CreateNamedPipe, ConnInv
    <2>2. Read' = 0 /\ Written' = 0 /\ Len(buf') = 0
      BY <2>1 DEF Read, Written
    <2>3. Starts(0, 0)'
      BY <2>1, <2>2 DEF Starts, UpTo
    <2> QED
      BY <2>1, <2>3 DEF FirstInv
  <1>14. CASE Accept
    <2> SUFFICES ASSUME Reading' PROVE FirstInv'
      BY DEF FirstInv
    <2>1. /\ pub = "listen" /\ pub' = "id" /\ Reading
          /\ UNCHANGED <<buf, frameLen, frame, firsts, handle, cli, msg, size>>
      BY <1>14 DEF Accept, Reading, call
    <2>2. PICK m \in Nat, n \in Nat : Starts(m, n)
      BY <2>1 DEF FirstInv
    <2>3. Read' = Read /\ Written' = Written
      BY <2>1 DEF Read, Written
    <2>4. Starts(m, n)'
      BY <2>1, <2>2, <2>3 DEF Starts, Newest
    <2> QED
      BY <2>1, <2>4 DEF FirstInv
  <1>15. CASE ReadSourceId
    BY <1>15, FirstId
  <1>16. CASE ReadLength
    BY <1>16, FirstLength
  <1>17. CASE ReadChunk
    <2>1. first' => first
      BY <1>17 DEF ReadChunk
    <2> QED
      BY <1>17, <2>1, FirstChunk DEF FirstInv, Reading
  <1>18. CASE ReadFails \/ DisconnectNamedPipe
    BY <1>18 DEF ReadFails, DisconnectNamedPipe, FirstInv, Reading
  <1> QED
    BY <1>5, <1>6, <1>7, <1>8, <1>9, <1>10, <1>11, <1>12, <1>13, <1>14, <1>15, <1>16, <1>17, <1>18
    DEF Next, Client, Router

\* An enqueue of a first frame delivers the newest packet so far.
LEMMA AppendNewest ==
    ASSUME OrderInv, NEW m \in 1 .. msg, Newest(m), msg \in Nat, firsts' = Append(firsts, m),
           UNCHANGED <<msg, cli>>
    PROVE  OrderInv'
  <1>1. firsts \in Seq(Nat) /\ m \in Nat /\ Len(firsts) \in Nat /\ DOMAIN firsts = 1 .. Len(firsts)
    BY LenProperties DEF OrderInv
  <1>2. /\ firsts' \in Seq(Nat) /\ DOMAIN firsts' = 1 .. Len(firsts) + 1
        /\ \A j \in DOMAIN firsts : firsts'[j] = firsts[j]
        /\ firsts'[Len(firsts) + 1] = m
    BY <1>1, AppendProperties, LenProperties
  <1>3. ASSUME NEW j \in DOMAIN firsts'
        PROVE  firsts'[j] <= msg' /\ (cli' # "idle" => firsts'[j] < msg')
    <2>1. j \in DOMAIN firsts \/ j = Len(firsts) + 1
      BY <1>1, <1>2
    <2> QED
      BY <1>2, <2>1 DEF OrderInv, Newest
  <1> QED
    BY <1>2, <1>3 DEF OrderInv

\* The steps that enqueue no first frame.
LEMMA KeepFirsts ==
    ASSUME EndsTypeOK, OrderInv, firsts' = firsts, msg' \in Nat, msg <= msg',
           cli' # "idle" => cli # "idle" \/ msg < msg'
    PROVE  OrderInv'
  <1>1. msg \in Nat /\ \A j \in DOMAIN firsts : firsts[j] \in Nat
    BY ElementOfSeq, LenProperties DEF EndsTypeOK, OrderInv
  <1> QED
    BY <1>1 DEF OrderInv

\* Only a read of the rest of a first frame changes the first frames.
LEMMA ChunkOrder ==
    ASSUME EndsTypeOK, FitInv, FirstInv, ReadChunk
    PROVE  \/ first /\ \E m \in 1 .. msg : firsts' = Append(firsts, m) /\ Newest(m)
           \/ firsts' = firsts
  <1>1. CASE first
    BY <1>1, FirstChunk
  <1>2. CASE ~first
    BY <1>2, Zenon DEF ReadChunk
  <1> QED
    BY <1>1, <1>2

\* Every step keeps the first frames older than the packet under way.
LEMMA OrderStep == ASSUME EndsTypeOK, FitInv, OrderInv, FirstInv, [Next]_vars PROVE OrderInv'
  <1>1. msg \in Nat
    BY DEF EndsTypeOK
  <1>2. CASE UNCHANGED vars
    BY <1>1, <1>2, KeepFirsts DEF vars, router, call
  <1>3. ASSUME NEW n \in Sizes, PublishChatbox(n) PROVE OrderInv'
    BY <1>1, <1>3, KeepFirsts DEF PublishChatbox, router
  <1>4. CASE Connect \/ WriteId \/ WriteLen \/ WritePacket \/ Close
    BY <1>1, <1>4, KeepFirsts DEF Connect, WriteId, WriteLen, WritePacket, Retry, Close, router, call
  <1>5. CASE CreateNamedPipe \/ Accept \/ ReadFails \/ DisconnectNamedPipe \/ ReadSourceId \/ ReadLength
    BY <1>1, <1>5, KeepFirsts
    DEF CreateNamedPipe, Accept, ReadFails, DisconnectNamedPipe, ReadSourceId, ReadLength, call
  <1>6. CASE ReadChunk
    <2>1. UNCHANGED <<msg, cli>>
      BY <1>6 DEF ReadChunk, call
    <2>2. CASE firsts' = firsts
      BY <1>1, <2>1, <2>2, KeepFirsts
    <2>3. ASSUME NEW m \in 1 .. msg, firsts' = Append(firsts, m), Newest(m) PROVE OrderInv'
      BY <1>1, <2>1, <2>3, AppendNewest
    <2> QED
      BY <1>6, <2>2, <2>3, ChunkOrder
  <1> QED
    BY <1>2, <1>3, <1>4, <1>5, <1>6 DEF Next, Client, Router

\* A frame that is the first of its connection is a packet.
LEMMA FirstEnqueued ==
    ASSUME EndsTypeOK, FitInv, FirstInv, Next, first, queue' # queue
    PROVE  \E m \in 1 .. msg, n \in Sizes : queue' = Append(queue, Packet(m, n))
  <1>1. ReadChunk
    BY DEF Next, Client, Router, PublishChatbox, Connect, WriteId, WriteLen, WritePacket, Close,
           CreateNamedPipe, Accept, ReadSourceId, ReadLength, ReadFails, DisconnectNamedPipe, router
  <1> QED
    BY <1>1, FirstChunk

PipeInv == EndsTypeOK /\ FitInv /\ ConnInv /\ OrderInv /\ FirstInv

\* The invariant of the two ends of the pipe.
LEMMA PipeInvariance == Spec => []PipeInv
  <1>1. Init => PipeInv
    <2> SUFFICES ASSUME Init PROVE PipeInv
      OBVIOUS
    <2>1. EndsTypeOK /\ ConnInv
      BY BoundsAssumption DEF Init, EndsTypeOK, ConnInv
    <2>2. /\ buf \in Seq(Words) /\ frame \in Seq(Words) /\ queue \in Seq(Seq(Words))
          /\ Len(frame) = 0 /\ Len(queue) = 0
      BY DEF Init
    <2>3. FitInv
      BY <2>2, BoundsAssumption DEF Init, FitInv
    <2>4. FirstInv
      BY DEF Init, FirstInv, Reading
    <2>5. OrderInv
      BY DEF Init, OrderInv
    <2> QED
      BY <2>1, <2>3, <2>4, <2>5 DEF PipeInv
  <1>2. PipeInv /\ [Next]_vars => PipeInv'
    BY EndsStep, FitStep, ConnStep, OrderStep, FirstStep DEF PipeInv
  <1> QED
    BY <1>1, <1>2, PTL DEF Spec

\* As RouterPublisher writes (the source id once per connection), the first frame that
\* PubPipeWorkerMain enqueues of a connection is one whole packet: what goes wrong
\* without an id per frame begins with the second.
THEOREM FirstFrameArrives == Spec => FirstFrameIsPacket
  <1> DEFINE Step == first /\ queue' # queue =>
                       \E m \in 1 .. msg, n \in Sizes : queue' = Append(queue, Packet(m, n))
  <1>1. PipeInv /\ [Next]_vars => [Step]_vars
    BY FirstEnqueued DEF PipeInv
  <1>2. Spec => [][Step]_vars
    BY <1>1, PipeInvariance, PTL DEF Spec
  <1> QED
    BY <1>2 DEF FirstFrameIsPacket

\* Every step of the pipe is a publication, a delivery of a first frame, or neither.
LEMMA DeliveryStep ==
    ASSUME PipeInv, [Next]_vars
    PROVE  [Delivery!Publish \/ Delivery!Deliver]_<<msg, firsts>>
  <1>1. ASSUME NEW n \in Sizes, PublishChatbox(n) PROVE Delivery!Publish
    BY <1>1 DEF PublishChatbox, router, Delivery!Publish
  <1>2. CASE ReadChunk
    <2>1. msg' = msg
      BY <1>2 DEF ReadChunk, call
    <2> QED
      BY <1>2, <2>1, ChunkOrder DEF PipeInv, Newest, Delivery!Deliver
  <1>3. CASE UNCHANGED vars \/ Connect \/ WriteId \/ WriteLen \/ WritePacket \/ Close
    BY <1>3 DEF vars, router, call, Connect, WriteId, WriteLen, WritePacket, Close
  <1>4. CASE CreateNamedPipe \/ Accept \/ ReadSourceId \/ ReadLength \/ ReadFails \/ DisconnectNamedPipe
    BY <1>4 DEF call, CreateNamedPipe, Accept, ReadSourceId, ReadLength, ReadFails, DisconnectNamedPipe
  <1> QED
    BY <1>1, <1>2, <1>3, <1>4 DEF Next, Client, Router

\* The first frames of RouterPublisher's connections implement PacketDelivery, for ids
\* and packets of any size and any number of broken connections and retries: none
\* arrives twice, none overtakes another.
THEOREM FirstFramesInOrder == Spec => IsInOrderDelivery
  <1>1. Init => Delivery!Init
    BY DEF Init, Delivery!Init
  <1>2. PipeInv /\ [Next]_vars => [Delivery!Publish \/ Delivery!Deliver]_<<msg, firsts>>
    BY DeliveryStep
  <1> QED
    BY <1>1, <1>2, PipeInvariance, PTL DEF Spec, IsInOrderDelivery, Delivery!Spec
=============================================================================
