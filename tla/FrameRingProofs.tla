-------------------------- MODULE FrameRingProofs --------------------------
(***************************************************************************)
(* TLAPS proofs for FrameRing: for every ring size, set of words, retry    *)
(* count and number of frames and kills.                                   *)
(***************************************************************************)
EXTENDS FrameRing, TLAPS

\* The slot of every index is a slot of the ring.
LEMMA SlotType == \A i \in Nat : Slot(i) \in Slots
  BY NAssumption DEF Slot, Slots

\* One store of the generation flips its parity, two restore it.
LEMMA Parity == \A g \in Nat : (Odd(g + 1) <=> ~Odd(g)) /\ (Odd(g + 2) <=> Odd(g))
  BY DEF Odd

-----------------------------------------------------------------------------
(* The inductive invariant, in parts.                                      *)

\* What the writer has stored so far in the slot it is working on.
WriterInv ==
    /\ wpc = "open" => generation[wslot] = prevGen
    /\ MidWrite => generation[wslot] = prevGen + 1
    /\ wpc = "body" => \A w \in Words \ wtodo : body[wslot][w] = frames
    /\ wpc \in {"close", "publish"} => \A w \in Words : body[wslot][w] = frames

\* In a slot no kill has spoilt, the generation is odd exactly while the host
\* is inside it, and outside a write the body is one frame.
SlotInv ==
    \A s \in Slots \ tainted :
        /\ Odd(generation[s]) <=> (MidWrite /\ wslot = s)
        /\ ~Odd(generation[s]) => Whole(body[s])

\* What the reader has copied is what the slot holds, as long as the slot's
\* generation is the one it started from.
ReaderInv ==
    (rpc \in {"copy", "gen2"} /\ rslot \notin tainted) =>
        /\ ~Odd(g1)
        /\ g1 <= generation[rslot]
        /\ generation[rslot] = g1 => \A w \in Words \ rtodo : rbuf[w] = body[rslot][w]

DoneInv == rpc = "gen2" => rtodo = {}

SeqlockInv == TypeOK /\ WriterInv /\ SlotInv /\ ReaderInv /\ DoneInv /\ TornOnlyWhereKilled

\* The shape of the state is preserved by every step.
LEMMA TypeStep == TypeOK /\ [Next]_vars => TypeOK'
  <1> SUFFICES ASSUME TypeOK, [Next]_vars PROVE TypeOK'
    OBVIOUS
  <1> USE SlotType, NAssumption DEF TypeOK, wslot, rslot
  <1>1. CASE BeginWrite
    <2>1. generation[Slot(localPublishIndex + 1)] \in Nat
      BY <1>1 DEF BeginWrite
    <2> QED BY <1>1, <2>1 DEF BeginWrite, segment, reader
  <1>2. CASE OpenSlot
    BY <1>2 DEF OpenSlot, reader, history
  <1>3. ASSUME NEW w \in Words, WriteWord(w) PROVE TypeOK'
    BY <1>3 DEF WriteWord, reader, history
  <1>4. CASE CloseSlot
    BY <1>4 DEF CloseSlot, reader, history
  <1>5. CASE PublishIndex
    BY <1>5 DEF PublishIndex, reader
  <1>6. CASE KillAndRespawn
    BY <1>6 DEF KillAndRespawn, segment, reader
  <1>7. CASE Poll
    BY <1>7 DEF Poll, segment, writer, history
  <1>8. CASE LoadIndex
    BY <1>8 DEF LoadIndex, segment, writer, history
  <1>9. CASE LoadGen1
    BY <1>9 DEF LoadGen1, NextAttempt, segment, writer, history
  <1>10. ASSUME NEW w \in Words, CopyWord(w) PROVE TypeOK'
    BY <1>10 DEF CopyWord, segment, writer, history
  <1>11. CASE LoadGen2
    BY <1>11 DEF LoadGen2, NextAttempt, segment, writer, history
  <1>12. CASE UNCHANGED vars
    BY <1>12 DEF vars, segment, writer, reader, history
  <1> QED BY <1>1, <1>2, <1>3, <1>4, <1>5, <1>6, <1>7, <1>8, <1>9, <1>10, <1>11, <1>12
         DEF Next, Writer, Reader

\* The type invariant of the ring holds in every reachable state.
THEOREM TypeCorrect == Spec => []TypeOK
  <1>1. Init => TypeOK
    BY NAssumption DEF Init, TypeOK, Slots
  <1> QED BY <1>1, TypeStep, PTL DEF Spec

-----------------------------------------------------------------------------
(* No torn frame.                                                          *)

\* A writer step keeps the reader's copy honest: a generation that still is
\* g1 was not touched, and the body under it was not either.
LEMMA SeqlockWriter ==
  ASSUME SeqlockInv, Writer PROVE SeqlockInv'
  <1>0. TypeOK'
    BY TypeStep DEF SeqlockInv, Next
  <1>a. wslot \in Slots /\ rslot \in Slots
    BY SlotType DEF SeqlockInv, TypeOK, wslot, rslot
  <1> USE SlotType, <1>a DEF SeqlockInv, TypeOK, wslot, rslot, MidWrite
  <1>1. CASE BeginWrite
    <2> USE <1>1 DEF BeginWrite, segment, reader
    <2>1. WriterInv'
      BY DEF WriterInv
    <2>2. SlotInv'
      BY DEF SlotInv
    <2>3. ReaderInv' /\ DoneInv' /\ TornOnlyWhereKilled'
      BY DEF ReaderInv, DoneInv, TornOnlyWhereKilled
    <2> QED BY <1>0, <2>1, <2>2, <2>3
  <1>2. CASE OpenSlot
    <2> USE <1>2 DEF OpenSlot, reader, history
    <2>1. WriterInv'
      BY DEF WriterInv
    <2>2. SlotInv'
      <3> SUFFICES ASSUME NEW s \in Slots \ tainted
                   PROVE  /\ Odd(generation'[s]) <=> wslot = s
                          /\ ~Odd(generation'[s]) => Whole(body[s])
        BY DEF SlotInv, Whole
      <3>1. CASE s = wslot
        <4>1. ~Odd(generation[s]) /\ generation'[s] = generation[s] + 1
          BY <3>1 DEF SlotInv, WriterInv
        <4>2. Odd(generation'[s])
          BY <4>1, Parity
        <4> QED BY <3>1, <4>2
      <3>2. CASE s # wslot
        <4>1. generation'[s] = generation[s]
          BY <3>2
        <4>2. ~Odd(generation[s]) /\ Whole(body[s])
          BY <3>2 DEF SlotInv
        <4> QED BY <3>2, <4>1, <4>2
      <3> QED BY <3>1, <3>2
    <2>3. ReaderInv'
      <3> SUFFICES ASSUME rpc \in {"copy", "gen2"}, rslot \notin tainted
                   PROVE  /\ ~Odd(g1) /\ g1 <= generation'[rslot]
                          /\ generation'[rslot] = g1 =>
                               \A w \in Words \ rtodo : rbuf[w] = body[rslot][w]
        BY DEF ReaderInv
      <3>1. CASE rslot = wslot
        <4>1. g1 <= generation[rslot] /\ generation'[rslot] = generation[rslot] + 1
          BY <3>1 DEF ReaderInv, WriterInv
        <4>2. ~Odd(g1)
          BY DEF ReaderInv
        <4>3. g1 <= generation'[rslot] /\ generation'[rslot] # g1
          BY <4>1
        <4> QED BY <4>2, <4>3
      <3>2. CASE rslot # wslot
        <4>1. generation'[rslot] = generation[rslot]
          BY <3>2
        <4> QED BY <4>1 DEF ReaderInv
      <3> QED BY <3>1, <3>2
    <2>4. DoneInv' /\ TornOnlyWhereKilled'
      BY DEF DoneInv, TornOnlyWhereKilled, Whole
    <2> QED BY <1>0, <2>1, <2>2, <2>3, <2>4
  <1>3. ASSUME NEW w \in Words, WriteWord(w) PROVE SeqlockInv'
    <2> USE <1>3 DEF WriteWord, reader, history
    <2>1. body'[wslot] = [body[wslot] EXCEPT ![w] = frames]
      OBVIOUS
    <2>2. \A v \in Words \ wtodo' : body'[wslot][v] = frames
      BY <2>1 DEF WriterInv
    <2>3. wpc' = "close" => wtodo' = {}
      OBVIOUS
    <2>4. WriterInv'
      BY <2>2, <2>3 DEF WriterInv
    <2>5. SlotInv'
      BY DEF SlotInv, WriterInv, Whole
    <2>6. ReaderInv'
      BY DEF ReaderInv, SlotInv
    <2>7. DoneInv' /\ TornOnlyWhereKilled'
      BY DEF DoneInv, TornOnlyWhereKilled, Whole
    <2> QED BY <1>0, <2>4, <2>5, <2>6, <2>7
  <1>4. CASE CloseSlot
    <2> USE <1>4 DEF CloseSlot, reader, history
    <2>1. WriterInv'
      BY DEF WriterInv
    <2>2. SlotInv'
      <3>1. Whole(body[wslot])
        BY DEF WriterInv, Whole
      <3>2. ~Odd(generation'[wslot]) \/ wslot \in tainted
        BY Parity DEF SlotInv, WriterInv
      <3> SUFFICES ASSUME NEW s \in Slots \ tainted
                   PROVE  ~Odd(generation'[s]) /\ Whole(body[s])
        BY DEF SlotInv, Whole
      <3>3. CASE s = wslot
        BY <3>1, <3>2, <3>3
      <3>4. CASE s # wslot
        BY <3>4 DEF SlotInv
      <3> QED BY <3>3, <3>4
    <2>3. ReaderInv'
      <3> SUFFICES ASSUME rpc \in {"copy", "gen2"}, rslot \notin tainted
                   PROVE  /\ ~Odd(g1) /\ g1 <= generation'[rslot]
                          /\ generation'[rslot] = g1 =>
                               \A w \in Words \ rtodo : rbuf[w] = body[rslot][w]
        BY DEF ReaderInv
      <3>1. CASE rslot = wslot
        <4>1. g1 <= generation[rslot] /\ generation'[rslot] = generation[rslot] + 1
          BY <3>1 DEF ReaderInv, WriterInv
        <4>2. ~Odd(g1)
          BY DEF ReaderInv
        <4>3. g1 <= generation'[rslot] /\ generation'[rslot] # g1
          BY <4>1
        <4> QED BY <4>2, <4>3
      <3>2. CASE rslot # wslot
        <4>1. generation'[rslot] = generation[rslot]
          BY <3>2
        <4> QED BY <4>1 DEF ReaderInv
      <3> QED BY <3>1, <3>2
    <2>4. DoneInv' /\ TornOnlyWhereKilled'
      BY DEF DoneInv, TornOnlyWhereKilled, Whole
    <2> QED BY <1>0, <2>1, <2>2, <2>3, <2>4
  <1>5. CASE PublishIndex
    BY <1>0, <1>5 DEF PublishIndex, reader, WriterInv, SlotInv, ReaderInv, DoneInv,
                      TornOnlyWhereKilled
  <1> QED BY <1>1, <1>2, <1>3, <1>4, <1>5 DEF Writer

\* A reader step: the frame it hands over was copied under one generation.
LEMMA SeqlockReader ==
  ASSUME SeqlockInv, Reader PROVE SeqlockInv'
  <1>0. TypeOK'
    BY TypeStep DEF SeqlockInv, Next
  <1>a. wslot \in Slots /\ rslot \in Slots
    BY SlotType DEF SeqlockInv, TypeOK, wslot, rslot
  <1> USE SlotType DEF SeqlockInv, TypeOK, wslot, rslot, MidWrite
  <1>1. WriterInv' /\ SlotInv'
    BY DEF Reader, Poll, LoadIndex, LoadGen1, LoadGen2, CopyWord, segment, writer, history,
           WriterInv, SlotInv
  <1>2. CASE Poll \/ LoadIndex
    BY <1>0, <1>1, <1>2 DEF Poll, LoadIndex, segment, writer, history, ReaderInv, DoneInv,
                            TornOnlyWhereKilled
  <1>3. CASE LoadGen1
    BY <1>0, <1>1, <1>3 DEF LoadGen1, NextAttempt, segment, writer, history, ReaderInv, DoneInv,
                            TornOnlyWhereKilled
  <1>4. ASSUME NEW w \in Words, CopyWord(w) PROVE SeqlockInv'
    <2> USE <1>4 DEF CopyWord, segment, writer, history
    <2>1. ReaderInv'
      BY DEF ReaderInv
    <2>2. DoneInv' /\ TornOnlyWhereKilled'
      BY DEF DoneInv, TornOnlyWhereKilled
    <2> QED BY <1>0, <1>1, <2>1, <2>2
  <1>5. CASE LoadGen2
    <2> USE <1>5 DEF LoadGen2, NextAttempt, segment, writer, history
    <2>1. ReaderInv' /\ DoneInv'
      BY DEF ReaderInv, DoneInv
    <2>2. TornOnlyWhereKilled'
      <3>1. CASE generation[rslot] = g1
        <4>1. rslot \notin tainted =>
                 Whole(body[rslot]) /\ \A w \in Words : rbuf[w] = body[rslot][w]
          BY <3>1, <1>a DEF ReaderInv, DoneInv, SlotInv
        <4>2. rslot \notin tainted => Whole(rbuf)
          BY <4>1 DEF Whole
        <4> QED BY <3>1, <4>2 DEF TornOnlyWhereKilled, Whole
      <3>2. CASE generation[rslot] # g1
        BY <3>2 DEF TornOnlyWhereKilled, Whole
      <3> QED BY <3>1, <3>2
    <2> QED BY <1>0, <1>1, <2>1, <2>2
  <1> QED BY <1>2, <1>3, <1>4, <1>5 DEF Reader

\* A kill spoils at most the slot it interrupts, and touches no memory.
LEMMA SeqlockKill ==
  ASSUME SeqlockInv, KillAndRespawn PROVE SeqlockInv'
  <1>0. TypeOK'
    BY TypeStep DEF SeqlockInv, Next
  <1> QED BY <1>0, SlotType DEF SeqlockInv, TypeOK, KillAndRespawn, segment, reader, WriterInv,
             SlotInv, ReaderInv, DoneInv, TornOnlyWhereKilled, wslot, rslot, MidWrite

\* An empty ring satisfies the seqlock invariant.
LEMMA SeqlockInit == Init => SeqlockInv
  BY NAssumption DEF Init, SeqlockInv, TypeOK, Slots, WriterInv, SlotInv, ReaderInv, DoneInv,
                     TornOnlyWhereKilled, Whole, MidWrite, Odd

\* The seqlock invariant is inductive.
LEMMA SeqlockStep == SeqlockInv /\ [Next]_vars => SeqlockInv'
  <1> SUFFICES ASSUME SeqlockInv, [Next]_vars PROVE SeqlockInv'
    OBVIOUS
  <1>1. CASE UNCHANGED vars
    BY <1>1 DEF vars, segment, writer, reader, history, SeqlockInv, TypeOK, WriterInv, SlotInv,
                ReaderInv, DoneInv, TornOnlyWhereKilled, wslot, rslot, MidWrite
  <1> QED BY <1>1, SeqlockWriter, SeqlockReader, SeqlockKill DEF Next

\* TryReadLatestWire never hands the worker a mixture of two frames, unless
\* the slot it reads is one in which a host was killed inside a write.
THEOREM ReadsAreWhole == Spec => []TornOnlyWhereKilled
  <1>1. SeqlockInv => TornOnlyWhereKilled
    BY DEF SeqlockInv
  <1> QED BY <1>1, SeqlockInit, SeqlockStep, PTL DEF Spec

-----------------------------------------------------------------------------
(* Freshness.                                                              *)

\* How old the words in the segment, in the reader's buffer and in the last
\* delivered frame can be, counted in frames.
Reading == rpc \in {"gen1", "copy", "gen2"}

AgeInv ==
    /\ published <= frames
    /\ \A s \in Slots, w \in Words : body[s][w] <= frames
    /\ \A w \in Words : body[Slot(publish_index)][w] >= published
    /\ \A w \in Words : rbuf[w] <= frames
    /\ rpub <= published
    /\ Reading => \A w \in Words : body[rslot][w] >= rpub
    /\ rpc \in {"copy", "gen2"} => \A w \in Words \ rtodo : rbuf[w] >= rpub

StepInv ==
    orphans = 0 =>
        /\ frames = IF wpc = "idle" THEN published ELSE published + 1
        /\ \A w \in Words : out[w] <= published + 1
        /\ Reading => \A w \in Words : out[w] <= rpub + 1

FreshInv == TypeOK /\ WriterInv /\ DoneInv /\ AgeInv /\ StepInv /\ FreshRead

\* The writer only ever stores the newest frame.
LEMMA FreshWriter ==
  ASSUME FreshInv, SeqlockInv', Writer PROVE FreshInv'
  <1>0. TypeOK' /\ WriterInv' /\ DoneInv'
    BY DEF SeqlockInv
  <1>a. wslot \in Slots /\ rslot \in Slots /\ Slot(publish_index) \in Slots
    BY SlotType DEF FreshInv, TypeOK, wslot, rslot
  <1> USE <1>a DEF FreshInv, TypeOK, rslot, Reading
  <1>1. CASE BeginWrite
    BY <1>0, <1>1 DEF BeginWrite, segment, reader, AgeInv, StepInv, FreshRead
  <1>2. CASE OpenSlot
    BY <1>0, <1>2 DEF OpenSlot, reader, history, AgeInv, StepInv, FreshRead
  <1>3. ASSUME NEW w \in Words, WriteWord(w) PROVE FreshInv'
    <2> USE <1>3 DEF WriteWord, reader, history
    <2>1. \A s \in Slots, v \in Words : body'[s][v] = body[s][v] \/ body'[s][v] = frames
      OBVIOUS
    <2>2. AgeInv'
      BY <1>0, <2>1 DEF AgeInv
    <2>3. StepInv' /\ FreshRead'
      BY DEF StepInv, FreshRead
    <2> QED BY <1>0, <2>2, <2>3
  <1>4. CASE CloseSlot
    BY <1>0, <1>4 DEF CloseSlot, reader, history, AgeInv, StepInv, FreshRead
  <1>5. CASE PublishIndex
    <2> USE <1>5 DEF PublishIndex, reader
    <2>1. AgeInv'
      BY <1>0 DEF AgeInv, WriterInv, wslot
    <2>2. StepInv' /\ FreshRead'
      BY <1>0 DEF StepInv, FreshRead, AgeInv
    <2> QED BY <1>0, <2>1, <2>2
  <1> QED BY <1>1, <1>2, <1>3, <1>4, <1>5 DEF Writer

\* The reader copies words that were in the slot after the index was loaded.
LEMMA FreshReader ==
  ASSUME FreshInv, SeqlockInv', Reader PROVE FreshInv'
  <1>0. TypeOK' /\ WriterInv' /\ DoneInv'
    BY DEF SeqlockInv
  <1>a. rslot \in Slots /\ Slot(publish_index) \in Slots
    BY SlotType DEF FreshInv, TypeOK, rslot
  <1> USE <1>a DEF FreshInv, TypeOK, rslot, Reading
  <1>1. CASE Poll
    BY <1>0, <1>1 DEF Poll, segment, writer, history, AgeInv, StepInv, FreshRead
  <1>2. CASE LoadIndex
    BY <1>0, <1>2 DEF LoadIndex, segment, writer, history, AgeInv, StepInv, FreshRead
  <1>3. CASE LoadGen1
    BY <1>0, <1>3 DEF LoadGen1, NextAttempt, segment, writer, history, AgeInv, StepInv, FreshRead
  <1>4. ASSUME NEW w \in Words, CopyWord(w) PROVE FreshInv'
    <2> USE <1>4 DEF CopyWord, segment, writer, history
    <2>1. AgeInv'
      BY <1>0 DEF AgeInv
    <2>2. StepInv' /\ FreshRead'
      BY DEF StepInv, FreshRead
    <2> QED BY <1>0, <2>1, <2>2
  <1>5. CASE LoadGen2
    BY <1>0, <1>5 DEF LoadGen2, NextAttempt, segment, writer, history, AgeInv, StepInv, FreshRead,
                      DoneInv
  <1> QED BY <1>1, <1>2, <1>3, <1>4, <1>5 DEF Reader

\* Together with the seqlock, the ages form an inductive invariant.
LEMMA FreshStep == SeqlockInv /\ FreshInv /\ [Next]_vars => FreshInv'
  <1> SUFFICES ASSUME SeqlockInv, FreshInv, [Next]_vars PROVE FreshInv'
    OBVIOUS
  <1>1. SeqlockInv'
    BY SeqlockStep
  <1>2. CASE KillAndRespawn
    <2>1. TypeOK' /\ WriterInv' /\ DoneInv'
      BY <1>1 DEF SeqlockInv
    <2> QED BY <1>2, <2>1 DEF FreshInv, TypeOK, KillAndRespawn, segment, reader, AgeInv, StepInv,
                              FreshRead, rslot, Reading
  <1>3. CASE UNCHANGED vars
    BY <1>3 DEF vars, segment, writer, reader, history, FreshInv, TypeOK, WriterInv, DoneInv,
                AgeInv, StepInv, FreshRead, rslot, wslot, MidWrite, Reading
  <1> QED BY <1>1, <1>2, <1>3, FreshWriter, FreshReader DEF Next

\* An empty ring satisfies the age invariant.
LEMMA FreshInit == Init => FreshInv
  BY NAssumption, SlotType
     DEF Init, FreshInv, TypeOK, Slots, WriterInv, DoneInv, AgeInv, StepInv, FreshRead, Reading,
         MidWrite, rslot, Slot

\* What TryReadLatestWire returns is at least as new as the frame that was the
\* latest published one when it loaded publish_index, killed hosts or not.
THEOREM ReadsAreFresh == Spec => []FreshRead
  <1>1. SeqlockInv /\ FreshInv => FreshRead
    BY DEF FreshInv
  <1> QED BY <1>1, SeqlockInit, SeqlockStep, FreshInit, FreshStep, PTL DEF Spec

\* Successive frames handed to the worker go back by at most one frame, as
\* long as no host has died inside a write.
THEOREM ReadsStepBackByOne == Spec => StepBackByOne
  <1>1. FreshInv /\ [Next]_vars =>
            [orphans = 0 => \A w \in Words : out'[w] + 1 >= out[w]]_vars
    <2> SUFFICES ASSUME FreshInv, Next, orphans = 0, NEW w \in Words
                 PROVE  out'[w] + 1 >= out[w]
      OBVIOUS
    <2> USE DEF FreshInv, TypeOK
    <2>1. CASE LoadGen2
      BY <2>1 DEF LoadGen2, DoneInv, AgeInv, StepInv, Reading
    <2>2. CASE Writer \/ KillAndRespawn
      BY <2>2 DEF Writer, BeginWrite, OpenSlot, WriteWord, CloseSlot, PublishIndex,
                  KillAndRespawn, reader
    <2>3. CASE Poll \/ LoadIndex \/ LoadGen1 \/ \E v \in Words : CopyWord(v)
      BY <2>3 DEF Poll, LoadIndex, LoadGen1, CopyWord
    <2> QED BY <2>1, <2>2, <2>3 DEF Next, Reader
  <1> QED BY <1>1, SeqlockInit, SeqlockStep, FreshInit, FreshStep, PTL DEF Spec, StepBackByOne

-----------------------------------------------------------------------------
(* The poll.                                                               *)

\* Before the first kill the index in the segment is the serial number of the
\* frame it stands for, and the index the poll has remembered is not ahead of
\* the one the last read was loaded with.
PollInv ==
    kills = 0 =>
        /\ localPublishIndex = frames /\ publish_index = published
        /\ published <= frames /\ last_idx <= publish_index
        /\ rpc # "load" => last_idx <= rpub

\* PollInv is inductive on top of the types.
LEMMA PollStep == TypeOK /\ PollInv /\ [Next]_vars => PollInv'
  <1> SUFFICES ASSUME TypeOK, PollInv, [Next]_vars PROVE PollInv'
    OBVIOUS
  <1> USE DEF TypeOK, PollInv
  <1>1. CASE Writer
    <2>1. CASE BeginWrite
      BY <2>1 DEF BeginWrite, segment, reader
    <2>2. CASE OpenSlot \/ CloseSlot
      BY <2>2 DEF OpenSlot, CloseSlot, reader, history
    <2>3. ASSUME NEW w \in Words, WriteWord(w) PROVE PollInv'
      BY <2>3 DEF WriteWord, reader, history
    <2>4. CASE PublishIndex
      BY <2>4 DEF PublishIndex, reader
    <2> QED BY <1>1, <2>1, <2>2, <2>3, <2>4 DEF Writer
  <1>2. CASE Poll \/ LoadIndex
    BY <1>2 DEF Poll, LoadIndex, segment, writer, history
  <1>3. CASE LoadGen1 \/ LoadGen2
    BY <1>3 DEF LoadGen1, LoadGen2, NextAttempt, segment, writer, history
  <1>4. ASSUME NEW w \in Words, CopyWord(w) PROVE PollInv'
    BY <1>4 DEF CopyWord, segment, writer, history
  <1>5. CASE KillAndRespawn
    BY <1>5 DEF KillAndRespawn
  <1>6. CASE UNCHANGED vars
    BY <1>6 DEF vars, segment, writer, reader, history
  <1> QED BY <1>1, <1>2, <1>3, <1>4, <1>5, <1>6 DEF Next, Reader

\* "Equal means no new data" (Protocol.h:1309) until a host is killed: when
\* the poll finds the index it remembers, no frame was published since the
\* last read was loaded.
THEOREM EqualIsOld == Spec => []EqualMeansNoNewData
  <1>1. Init => PollInv
    BY DEF Init, PollInv
  <1>2. TypeOK /\ PollInv => EqualMeansNoNewData
    BY DEF TypeOK, PollInv, EqualMeansNoNewData
  <1> QED BY <1>1, <1>2, PollStep, TypeCorrect, PTL DEF Spec
=============================================================================
