----------------------------- MODULE FrameRing -----------------------------
(***************************************************************************)
(* The face-frame ring in shared memory: one host process (FrameWriter.cs) *)
(* publishes frames, the driver's worker thread (WorkerLoop through        *)
(* FaceFrameReader::TryRead) reads the latest one.  Each of the N slots is *)
(* a seqlock: a generation and a body.  A body is copied word by word, in  *)
(* any order, so a reader can see a mixture of two frames; x64 keeps the   *)
(* program order of the writer's stores, and of the reader's loads around  *)
(* the acquire fence.                                                      *)
(*                                                                         *)
(* A frame is its serial number.  The serial number is a history value:    *)
(* the code only has publish_index, which every new host starts again at 1 *)
(* (_localPublishIndex).  The supervisor can kill the host at any point of *)
(* WriteUnderSeqlock, and the next host opens the same segment.            *)
(***************************************************************************)
EXTENDS Naturals, FiniteSets

CONSTANTS
    N,           \* FaceTrackingFrameShmem::RING_SIZE
    Words,       \* the words of a frame body
    MaxRetries,  \* max_retries of TryReadLatestWire
    MaxFrames,   \* bound: frames begun by all hosts together
    MaxKills     \* bound: host processes killed

ASSUME NAssumption == N \in Nat \ {0}
ASSUME RetriesAssumption == MaxRetries \in Nat \ {0}

VARIABLES
    generation, body, publish_index,                 \* the shared segment
    wpc, localPublishIndex, prevGen, wtodo,          \* WriteUnderSeqlock
    rpc, last_idx, idx, g1, rtodo, rbuf, attempt,    \* WorkerLoop, TryReadLatestWire
    out,                                             \* the frame handed to the worker
    frames, published, rpub, orphans, tainted, kills, outFrom, outPub  \* history

segment == <<generation, body, publish_index>>
writer  == <<wpc, localPublishIndex, prevGen, wtodo>>
reader  == <<rpc, last_idx, idx, g1, rtodo, rbuf, attempt, out, rpub, outFrom, outPub>>
history == <<frames, published, orphans, tainted, kills>>
vars    == <<segment, writer, reader, history>>

Slots   == 0 .. N - 1
Slot(i) == (i - 1) % N
Odd(g)  == g % 2 = 1

wslot == Slot(localPublishIndex)   \* the slot the host is writing
\* Mutant of rslot: the slot of the next index.
RslotOffByOne == idx % N

rslot == Slot(idx)                 \* the slot the worker is reading

\* The host has marked its slot's generation and not yet closed it.
MidWrite == wpc \in {"body", "close"}

Init ==
    /\ generation = [s \in Slots |-> 0]
    /\ body = [s \in Slots |-> [w \in Words |-> 0]]
    /\ publish_index = 0
    /\ wpc = "idle" /\ localPublishIndex = 0 /\ prevGen = 0 /\ wtodo = {}
    /\ rpc = "poll" /\ last_idx = 0 /\ idx = 0 /\ g1 = 0 /\ attempt = 0
    /\ rtodo = {} /\ rbuf = [w \in Words |-> 0]
    /\ out = [w \in Words |-> 0] /\ outFrom = 0 /\ outPub = 0 /\ rpub = 0
    /\ frames = 0 /\ published = 0 /\ orphans = 0 /\ tainted = {} /\ kills = 0

-----------------------------------------------------------------------------
(* The host: FrameWriter.WriteUnderSeqlock.                                *)

\* Interlocked.Increment of the local index, then the slot's generation.
BeginWrite ==
    /\ wpc = "idle" /\ frames < MaxFrames
    /\ wpc' = "open"
    /\ localPublishIndex' = localPublishIndex + 1
    /\ prevGen' = generation[Slot(localPublishIndex + 1)]
    /\ frames' = frames + 1
    /\ UNCHANGED <<segment, wtodo, reader, published, orphans, tainted, kills>>

\* Mutant of OpenSlot: the slot is not marked odd while it is written.
OpenSlotUnmarked ==
    /\ wpc = "open"
    /\ wpc' = "body"
    /\ wtodo' = Words
    /\ UNCHANGED <<segment, localPublishIndex, prevGen, reader, history>>

OpenSlot ==
    /\ wpc = "open"
    /\ wpc' = "body"
    /\ generation' = [generation EXCEPT ![wslot] = prevGen + 1]
    /\ wtodo' = Words
    /\ UNCHANGED <<body, publish_index, localPublishIndex, prevGen, reader, history>>

WriteWord(w) ==
    /\ wpc = "body" /\ w \in wtodo
    /\ body' = [body EXCEPT ![wslot][w] = frames]
    /\ wtodo' = wtodo \ {w}
    /\ wpc' = IF wtodo = {w} THEN "close" ELSE "body"
    /\ UNCHANGED <<generation, publish_index, localPublishIndex, prevGen, reader, history>>

\* Mutant of CloseSlot: the generation stays odd.
CloseSlotStaysOdd ==
    /\ wpc = "close"
    /\ wpc' = "publish"
    /\ generation' = [generation EXCEPT ![wslot] = prevGen + 1]
    /\ UNCHANGED <<body, publish_index, localPublishIndex, prevGen, wtodo, reader, history>>

CloseSlot ==
    /\ wpc = "close"
    /\ wpc' = "publish"
    /\ generation' = [generation EXCEPT ![wslot] = prevGen + 2]
    /\ UNCHANGED <<body, publish_index, localPublishIndex, prevGen, wtodo, reader, history>>

PublishIndex ==
    /\ wpc = "publish"
    /\ wpc' = "idle"
    /\ publish_index' = localPublishIndex
    /\ published' = frames
    /\ UNCHANGED <<generation, body, localPublishIndex, prevGen, wtodo, reader,
                   frames, orphans, tainted, kills>>

\* TerminateProcess by the supervisor, and the host it spawns next: a new
\* FrameWriter on the same segment, whose local index starts at 0.
KillAndRespawn ==
    /\ kills < MaxKills
    /\ kills' = kills + 1
    /\ wpc' = "idle" /\ localPublishIndex' = 0 /\ prevGen' = 0 /\ wtodo' = {}
    /\ tainted' = IF MidWrite THEN tainted \cup {wslot} ELSE tainted
    /\ orphans' = IF wpc = "idle" THEN orphans ELSE orphans + 1
    /\ UNCHANGED <<segment, reader, frames, published>>

-----------------------------------------------------------------------------
(* The driver's worker: WorkerLoop, then TryReadLatestWire.                *)

\* idx == last_idx sleeps and polls again; anything else is taken as news.
Poll ==
    /\ rpc = "poll" /\ publish_index # last_idx
    /\ last_idx' = publish_index
    /\ rpc' = "load"
    /\ UNCHANGED <<segment, writer, idx, g1, rtodo, rbuf, attempt, out, rpub,
                   outFrom, outPub, history>>

\* TryReadLatestWire loads publish_index again.  It is not 0 here: the poll
\* saw a non-zero index and nothing ever stores 0 again.
LoadIndex ==
    /\ rpc = "load"
    /\ idx' = publish_index
    /\ rpub' = published
    /\ attempt' = 0
    /\ rpc' = "gen1"
    /\ UNCHANGED <<segment, writer, last_idx, g1, rtodo, rbuf, out, outFrom, outPub, history>>

\* A failed attempt: the next one, or return false to the worker loop.
NextAttempt ==
    /\ attempt' = attempt + 1
    /\ rpc' = IF attempt + 1 < MaxRetries THEN "gen1" ELSE "poll"

LoadGen1 ==
    /\ rpc = "gen1"
    /\ IF Odd(generation[rslot])
         THEN NextAttempt /\ UNCHANGED <<g1, rtodo>>
         ELSE /\ g1' = generation[rslot] /\ rtodo' = Words
              /\ rpc' = "copy" /\ UNCHANGED attempt
    /\ UNCHANGED <<segment, writer, last_idx, idx, rbuf, out, rpub, outFrom, outPub, history>>

CopyWord(w) ==
    /\ rpc = "copy" /\ w \in rtodo
    /\ rbuf' = [rbuf EXCEPT ![w] = body[rslot][w]]
    /\ rtodo' = rtodo \ {w}
    /\ rpc' = IF rtodo = {w} THEN "gen2" ELSE "copy"
    /\ UNCHANGED <<segment, writer, last_idx, idx, g1, attempt, out, rpub, outFrom, outPub, history>>

\* Mutant of LoadGen2: last_idx is taken after the read, not before it.
LoadGen2LateIndex ==
    /\ rpc = "gen2"
    /\ IF generation[rslot] = g1
         THEN /\ out' = rbuf /\ outFrom' = rslot /\ outPub' = rpub
              /\ rpc' = "poll" /\ last_idx' = publish_index /\ UNCHANGED attempt
         ELSE NextAttempt /\ UNCHANGED <<out, outFrom, outPub, last_idx>>
    /\ UNCHANGED <<segment, writer, idx, g1, rtodo, rbuf, rpub, history>>

LoadGen2 ==
    /\ rpc = "gen2"
    /\ IF generation[rslot] = g1
         THEN /\ out' = rbuf /\ outFrom' = rslot /\ outPub' = rpub
              /\ rpc' = "poll" /\ UNCHANGED attempt
         ELSE NextAttempt /\ UNCHANGED <<out, outFrom, outPub>>
    /\ UNCHANGED <<segment, writer, last_idx, idx, g1, rtodo, rbuf, rpub, history>>

-----------------------------------------------------------------------------
Writer == \/ BeginWrite \/ OpenSlot \/ CloseSlot \/ PublishIndex
          \/ \E w \in Words : WriteWord(w)
Reader == \/ Poll \/ LoadIndex \/ LoadGen1 \/ LoadGen2
          \/ \E w \in Words : CopyWord(w)
Next   == Writer \/ Reader \/ KillAndRespawn

Spec == Init /\ [][Next]_vars

\* A host that has begun a frame finishes it, and the worker keeps running;
\* nothing obliges the host to begin another frame.
FairSpec ==
    /\ Spec
    /\ WF_vars(Reader)
    /\ WF_vars(OpenSlot) /\ WF_vars(CloseSlot) /\ WF_vars(PublishIndex)
    /\ WF_vars(\E w \in Words : WriteWord(w))

-----------------------------------------------------------------------------
Whole(b) == \A v, w \in Words : b[v] = b[w]

\* The type invariant: the slots of the segment, the loop of the writer and of the reader.
TypeOK ==
    /\ generation \in [Slots -> Nat]
    /\ body \in [Slots -> [Words -> Nat]]
    /\ publish_index \in Nat
    /\ wpc \in {"idle", "open", "body", "close", "publish"}
    /\ localPublishIndex \in Nat /\ prevGen \in Nat /\ wtodo \subseteq Words
    /\ rpc \in {"poll", "load", "gen1", "copy", "gen2"}
    /\ last_idx \in Nat /\ idx \in Nat /\ g1 \in Nat /\ attempt \in Nat
    /\ rtodo \subseteq Words /\ rbuf \in [Words -> Nat] /\ out \in [Words -> Nat]
    /\ outFrom \in Slots /\ outPub \in Nat /\ rpub \in Nat
    /\ frames \in Nat /\ published \in Nat /\ orphans \in Nat /\ kills \in Nat
    /\ tainted \subseteq Slots

\* A frame handed to the worker is one frame, never a mixture of two, unless
\* it came from a slot in which a host was killed between the two generation
\* stores of WriteUnderSeqlock: the damage of a kill stays in that slot.
TornOnlyWhereKilled == outFrom \notin tainted => Whole(out)

\* No word handed to the worker is older than the frame that was the latest
\* published one when TryReadLatestWire loaded publish_index.
FreshRead == \A w \in Words : out[w] >= outPub

\* While no host has died inside a write, a frame handed to the worker is at
\* most one frame older than the one before it (a reader overtaken by a whole
\* lap can return a frame whose index is not published yet, and then the
\* published one).
StepBackByOne ==
    [][orphans = 0 => \A w \in Words : out'[w] + 1 >= out[w]]_vars

\* Protocol.h:1309 "equal means no new data": when the poll finds the index it
\* saw last time, no frame was published since the last read was loaded.  A
\* second host counts from 1 again and can meet last_idx with a new frame.
EqualMeansNoNewData ==
    (rpc = "poll" /\ publish_index = last_idx /\ kills = 0) => published <= rpub

\* Every published frame, or a later one, reaches the worker although the loop
\* stores last_idx before the read and does not repeat a read that failed: a
\* read fails only because a later frame is on its way.  A kill ends the
\* promise: the later frame may never be finished.
CatchesUp ==
    \A f \in 1 .. MaxFrames :
        published = f ~> ((\A w \in Words : out[w] >= f) \/ kills > 0)
=============================================================================
