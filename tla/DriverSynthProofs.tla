------------------------- MODULE DriverSynthProofs --------------------------
(***************************************************************************)
(* Theorems about the headset driven from a head-mounted tracker, for any  *)
(* set of trackers and durations that change at any time.                  *)
(***************************************************************************)
EXTENDS DriverSynth, TLAPS

Phases == {"Uninitialized", "SynthStable", "GraceHold", "BlendingToFallback", "FallbackStable",
           "WaitingForStableSynth", "BlendingToSynth"}
Clock == 0..MaxTransition
BlendType == [phase : Phases, cur : Poses, start : Poses,
              age : Clock, since : BOOLEAN, stable : Clock]

\* What is being shown in each phase of the blender.
Shape(b) ==
    /\ b.phase = "Uninitialized" => b.cur = {}
    /\ b.phase = "SynthStable" => \E x \in Trackers : b.cur = {x}
    /\ b.phase = "GraceHold" => b.start = b.cur /\ \E x \in Trackers : b.cur = {x}
    /\ b.phase = "BlendingToFallback" =>
          b.start # {} /\ b.cur \in {b.start, b.start \cup {Headset}}
    /\ b.phase \in {"FallbackStable", "WaitingForStableSynth"} => b.cur = {Headset}
    /\ b.phase = "BlendingToSynth" =>
          b.start # {} /\ (b.cur = b.start \/ \E x \in Trackers : b.cur = b.start \cup {x})

\* A blend that is k frames old shows something of where it goes.
Timely(b, k) ==
    /\ b.phase = "BlendingToFallback" /\ b.age >= k => Headset \in b.cur
    /\ b.phase = "BlendingToSynth" /\ b.age >= k => \E x \in Trackers : x \in b.cur

Sources(b) == b.cur \cup b.start

Frames == [pc : {"idle"}] \cup [pc : {"read"}, config : Configs]
          \cup [pc : {"composed"}, on : BOOLEAN, synth : Trackers \cup {None}, timing : Timings]

\* What the proofs need of the types, and the blender's shape.
BlendInv ==
    /\ config \in Configs /\ frame \in Frames /\ reset \in BOOLEAN /\ late \in BOOLEAN
    /\ blend \in BlendType /\ Shape(blend) /\ out # {}

\* After a blended frame the pose is the blender's, and the blend is on time:
\* one frame old, or two while the next frame is under way.
TimeInv ==
    /\ passed \in BOOLEAN
    /\ ~passed => Timely(blend, IF frame.pc = "idle" THEN 1 ELSE 2) /\ (reset \/ out = blend.cur)

\* No change of config is under way, and the blender has taken its reset.
Settled == configPc = "idle" /\ ~reset

\* A frame of the headset that is under way has then seen this config, and
\* composed its pose from no other tracker.
FrameInv ==
    Settled =>
        /\ frame.pc = "read" => frame.config.dev = config.dev /\ config.on
        /\ frame.pc = "composed" /\ frame.on => config.on /\ frame.synth \in {None, config.dev}

\* Nothing of another tracker is then in the blend, nor in what it starts from.
SourceInv ==
    Settled /\ config.on /\ ~late => Sources(blend) \cup out \subseteq {config.dev, Headset}

IInv == BlendInv /\ TimeInv /\ FrameInv /\ SourceInv

-----------------------------------------------------------------------------
(* The blender's operators.                                                *)

\* The blender's clocks start at zero, count in natural numbers and stop at the longest duration.
LEMMA Clocks ==
    0 \in Clock /\ Clock \subseteq Nat /\ \A n \in Clock : Later(n, MaxTransition) \in Clock
  BY TimingAssumption DEF Clock, Later

\* The durations are natural numbers.
LEMMA Durations ==
    ASSUME NEW tm \in Timings
    PROVE  /\ tm.staleLimit \in Nat /\ tm.graceHold \in Nat /\ tm.blendToFallback \in Nat
           /\ tm.stableBeforeSynth \in Nat /\ tm.blendToSynth \in Nat
  BY TimingAssumption

USE Clocks

\* A new phase starts its clock; the pose shown does not change.
LEMMA SetPhaseFacts ==
    ASSUME NEW b \in BlendType, NEW ph \in Phases
    PROVE  /\ SetPhase(b, ph) \in BlendType
           /\ SetPhase(b, ph).phase = ph /\ SetPhase(b, ph).cur = b.cur
           /\ SetPhase(b, ph).start \in {b.start, {}}
           /\ ph \in {"GraceHold", "BlendingToFallback", "BlendingToSynth"} \/ b.phase = ph
                => SetPhase(b, ph).start = b.start
           /\ b.phase # ph => SetPhase(b, ph).age = 0
           /\ b.phase = ph => SetPhase(b, ph).age = b.age
  BY DEF SetPhase, BlendType, Poses, Timed

\* Setting the pose keeps the rest.
LEMMA SetCur ==
    ASSUME NEW b \in BlendType, NEW x \in Poses
    PROVE  LET r == [b EXCEPT !.cur = x] IN
           /\ r \in BlendType /\ r.cur = x
           /\ r.phase = b.phase /\ r.start = b.start /\ r.age = b.age
  BY DEF BlendType

\* Setting what a blend starts from keeps the rest.
LEMMA SetStart ==
    ASSUME NEW b \in BlendType, NEW x \in Poses
    PROVE  LET r == [b EXCEPT !.start = x] IN
           /\ r \in BlendType /\ r.start = x
           /\ r.phase = b.phase /\ r.cur = b.cur /\ r.age = b.age
  BY DEF BlendType

\* The clock of the wait for a stable tracker shows nothing.
LEMMA SetSince ==
    ASSUME NEW b \in BlendType, NEW x \in BOOLEAN
    PROVE  LET r == [b EXCEPT !.since = x, !.stable = 0] IN
           /\ r \in BlendType
           /\ r.phase = b.phase /\ r.start = b.start /\ r.cur = b.cur /\ r.age = b.age
  BY DEF BlendType

\* A blend towards the headset's own pose.
LEMMA ToFallbackFacts ==
    ASSUME NEW b \in BlendType, b.phase = "BlendingToFallback", b.start # {}, NEW tm \in Timings
    PROVE  /\ ToFallback(b, tm) \in BlendType /\ Shape(ToFallback(b, tm)) /\ Timely(ToFallback(b, tm), 1)
           /\ ToFallback(b, tm).phase \in {"BlendingToFallback", "FallbackStable"}
           /\ ToFallback(b, tm).start \subseteq b.start
           /\ ToFallback(b, tm).cur = IF b.age >= tm.blendToFallback THEN {Headset}
                                  ELSE IF b.age = 0 THEN b.start ELSE b.start \cup {Headset}
  <1> USE Durations
  <1>1. b.age \in Nat /\ b.start \in Poses /\ {Headset} \in Poses
    BY DEF BlendType, Poses
  <1>2. CASE b.age >= tm.blendToFallback
    <2> DEFINE g == SetPhase(b, "FallbackStable")
    <2>1. ToFallback(b, tm) = [g EXCEPT !.cur = {Headset}]
      BY <1>2 DEF ToFallback
    <2>2. g \in BlendType /\ g.phase = "FallbackStable" /\ g.start \in {b.start, {}}
      BY SetPhaseFacts DEF Phases
    <2> HIDE DEF g
    <2>3. /\ ToFallback(b, tm) \in BlendType /\ ToFallback(b, tm).cur = {Headset}
          /\ ToFallback(b, tm).phase = "FallbackStable" /\ ToFallback(b, tm).start = g.start
      <3> DEFINE h == [g EXCEPT !.cur = {Headset}]
      <3>1. h \in BlendType /\ h.cur = {Headset} /\ h.phase = g.phase /\ h.start = g.start
        BY <1>1, <2>2, SetCur
      <3> HIDE DEF h
      <3> QED
        BY <2>1, <2>2, <3>1 DEF h
    <2>4. Shape(ToFallback(b, tm)) /\ Timely(ToFallback(b, tm), 1)
      BY <2>3 DEF Shape, Timely
    <2> QED
      BY <1>2, <2>2, <2>3, <2>4
  <1>3. CASE b.age < tm.blendToFallback
    <2> DEFINE m == Mix(b.start, {Headset}, b.age, tm.blendToFallback)
    <2>1. ToFallback(b, tm) = [b EXCEPT !.cur = m]
      BY <1>1, <1>3 DEF ToFallback
    <2>2. m = IF b.age = 0 THEN b.start ELSE b.start \cup {Headset}
      BY <1>1, <1>3 DEF Mix
    <2>3. m \in Poses
      BY <1>1, <2>2 DEF Poses
    <2> HIDE DEF m
    <2>4. /\ ToFallback(b, tm) \in BlendType /\ ToFallback(b, tm).cur = m
          /\ ToFallback(b, tm).phase = "BlendingToFallback" /\ ToFallback(b, tm).start = b.start
          /\ ToFallback(b, tm).age = b.age
      BY <2>1, <2>3, SetCur
    <2>5. Shape(ToFallback(b, tm)) /\ Timely(ToFallback(b, tm), 1)
      BY <1>3, <2>2, <2>4 DEF Shape, Timely
    <2> QED
      BY <1>1, <1>3, <2>2, <2>4, <2>5
  <1> QED
    BY <1>1, <1>2, <1>3
-----------------------------------------------------------------------------
(* One frame.                                                              *)

Long(tm) == tm.blendToFallback >= 2 /\ tm.blendToSynth >= 2

\* What a frame makes of blend b and tracker t: only their sources and the
\* headset's, a blend that is on time, and with long blends, one that was on
\* time and an unchanged tracker d not all sources other than before.
Outcome(b, t, tm, r) ==
    /\ r \in BlendType /\ Shape(r) /\ r.phase # "Uninitialized" /\ Timely(r, 1)
    /\ Sources(r) \subseteq Sources(b) \cup {Headset} \cup ({t} \ {None})
    /\ Long(tm) /\ Timely(b, 2) /\ b.phase # "Uninitialized" =>
          \A d : b.cur \subseteq {d, Headset} /\ t \in {None, d} => r.cur \cap b.cur # {}

\* The first frame shows one source.
LEMMA FirstFrameStep ==
    ASSUME NEW b \in BlendType, b.phase = "Uninitialized", NEW t \in Trackers \cup {None},
           NEW tm \in Timings
    PROVE  Outcome(b, t, tm, FirstFrame(b, t))
  <1>1. CASE t # None
    <2> DEFINE g == SetPhase(b, "SynthStable")
               h == [g EXCEPT !.cur = {t}]
               r == [h EXCEPT !.since = TRUE, !.stable = 0]
    <2>1. g \in BlendType /\ g.phase = "SynthStable" /\ g.start \in {b.start, {}}
      BY SetPhaseFacts DEF Phases
    <2>2. FirstFrame(b, t) = [g EXCEPT !.cur = {t}, !.since = TRUE, !.stable = 0]
      BY <1>1 DEF FirstFrame
    <2> HIDE DEF g
    <2>3. FirstFrame(b, t) = r
      BY <2>1, <2>2 DEF BlendType
    <2>4. {t} \in Poses
      BY <1>1 DEF Poses
    <2>5. h \in BlendType /\ h.phase = "SynthStable" /\ h.start = g.start /\ h.cur = {t}
      BY <2>1, <2>4, SetCur
    <2> HIDE DEF h
    <2>6. r \in BlendType /\ r.phase = "SynthStable" /\ r.start = g.start /\ r.cur = {t}
      BY <2>5, SetSince
    <2> HIDE DEF r
    <2>7. Shape(r) /\ Timely(r, 1)
      BY <1>1, <2>6 DEF Shape, Timely
    <2> QED
      BY <1>1, <2>1, <2>3, <2>6, <2>7 DEF Outcome, Sources
  <1>2. CASE t = None
    <2> DEFINE g == SetPhase(b, "FallbackStable")
    <2>1. g \in BlendType /\ g.phase = "FallbackStable" /\ g.start \in {b.start, {}}
      BY SetPhaseFacts DEF Phases
    <2>2. FirstFrame(b, t) = [g EXCEPT !.cur = {Headset}, !.since = FALSE]
      BY <1>2 DEF FirstFrame
    <2> HIDE DEF g
    <2>3. FirstFrame(b, t) \in BlendType /\ FirstFrame(b, t).phase = "FallbackStable"
          /\ FirstFrame(b, t).start = g.start /\ FirstFrame(b, t).cur = {Headset}
      BY <2>1, <2>2 DEF BlendType, Poses
    <2>4. Shape(FirstFrame(b, t)) /\ Timely(FirstFrame(b, t), 1)
      BY <2>3 DEF Shape, Timely
    <2> QED
      BY <1>2, <2>1, <2>3, <2>4 DEF Outcome, Sources
  <1> QED
    BY <1>1, <1>2

\* The wait for a stable tracker starts once.
LEMMA StableFacts ==
    ASSUME NEW b \in BlendType
    PROVE  /\ Stable(b) \in BlendType
           /\ Stable(b).phase = b.phase /\ Stable(b).start = b.start
           /\ Stable(b).cur = b.cur /\ Stable(b).age = b.age
  <1>1. CASE b.since
    BY <1>1 DEF Stable
  <1>2. CASE ~b.since
    BY <1>2, SetSince DEF Stable
  <1> QED
    BY <1>1, <1>2
\* A frame with a pose from the tracker.
LEMMA WithSynthStep ==
    ASSUME NEW b \in BlendType, Shape(b), b.phase # "Uninitialized", NEW t \in Trackers,
           NEW tm \in Timings
    PROVE  Outcome(b, t, tm, WithSynth(b, t, tm))
  <1> DEFINE s == Stable(b)
             w == IF s.phase = "BlendingToSynth" THEN s
                  ELSE [SetPhase(s, "BlendingToSynth") EXCEPT !.start = s.cur]
             r == WithSynth(b, t, tm)
  <1> SUFFICES Outcome(b, t, tm, r)
    OBVIOUS
  <1> USE Durations
  <1>1. /\ s \in BlendType /\ s.phase = b.phase /\ s.start = b.start /\ s.cur = b.cur
        /\ s.age = b.age
    BY StableFacts
  <1>2. {t} \in Poses /\ {Headset} \in Poses /\ t # Headset /\ t # None
    BY SourcesAssumption DEF Poses
  <1>3. /\ b.cur \in Poses /\ b.start \in Poses /\ b.age \in Nat /\ s.stable \in Nat
        /\ b.phase \in Phases
    BY <1>1 DEF BlendType
  <1>4. /\ w \in BlendType /\ w.phase = "BlendingToSynth" /\ w.cur = b.cur
        /\ b.phase = "BlendingToSynth" => w.start = b.start /\ w.age = b.age
        /\ b.phase # "BlendingToSynth" => w.start = b.cur /\ w.age = 0
    <2>1. CASE s.phase = "BlendingToSynth"
      BY <1>1, <2>1
    <2>2. CASE s.phase # "BlendingToSynth"
      <3> DEFINE g == SetPhase(s, "BlendingToSynth")
      <3>1. g \in BlendType /\ g.phase = "BlendingToSynth" /\ g.cur = s.cur /\ g.age = 0
        BY <1>1, <2>2, SetPhaseFacts DEF Phases
      <3>2. w = [g EXCEPT !.start = s.cur]
        BY <2>2
      <3> HIDE DEF g, s, w
      <3>3. w \in BlendType /\ w.phase = g.phase /\ w.cur = g.cur /\ w.age = g.age /\ w.start = s.cur
        BY <1>1, <1>3, <3>1, <3>2, SetStart
      <3> QED
        BY <1>1, <2>2, <3>1, <3>3
    <2> QED
      BY <2>1, <2>2
  <1> DEFINE Drives == b.phase \in {"SynthStable", "GraceHold"}
             Back == s.phase = "BlendingToFallback" /\ s.stable < tm.stableBeforeSynth
             Waits == s.phase \in {"FallbackStable", "WaitingForStableSynth"}
                      /\ s.stable < tm.stableBeforeSynth
             X1 == [SetPhase(b, "SynthStable") EXCEPT !.cur = {t}, !.since = TRUE, !.stable = 0]
             X2 == ToFallback(s, tm)
             X3 == [SetPhase(s, "WaitingForStableSynth") EXCEPT !.cur = {Headset}]
             X4 == IF w.age >= tm.blendToSynth
                     THEN [SetPhase(w, "SynthStable") EXCEPT !.cur = {t}]
                     ELSE [w EXCEPT !.cur = Mix(w.start, {t}, w.age, tm.blendToSynth)]
  <1>5. r = CASE Drives -> X1 [] Back -> X2 [] Waits -> X3 [] OTHER -> X4
    BY Zenon DEF WithSynth
  <1>6. ~(Drives /\ Back) /\ ~(Drives /\ Waits) /\ ~(Back /\ Waits)
    BY <1>1
  <1>7. CASE Drives
    <2>1. r = X1
      <3> HIDE DEF Drives, Back, Waits, X1, X2, X3, X4, r
      <3> QED
        BY <1>5, <1>6, <1>7
    <2> DEFINE g == SetPhase(b, "SynthStable")
    <2>2. g \in BlendType /\ g.phase = "SynthStable" /\ g.start \in {b.start, {}}
      BY SetPhaseFacts DEF Phases
    <2>3. r = [g EXCEPT !.cur = {t}, !.since = TRUE, !.stable = 0]
      BY <2>1
    <2> HIDE DEF g, r
    <2>4. r \in BlendType /\ r.phase = "SynthStable" /\ r.start = g.start /\ r.cur = {t}
      BY <1>2, <2>2, <2>3 DEF BlendType
    <2>5. Shape(r) /\ Timely(r, 1)
      BY <2>4 DEF Shape, Timely
    <2>6. ASSUME NEW d, b.cur \subseteq {d, Headset}, t \in {None, d} PROVE r.cur \cap b.cur # {}
      <3>1. PICK x \in Trackers : b.cur = {x}
        BY <1>7 DEF Shape
      <3>2. x = d /\ t = d
        BY <1>2, <2>6, <3>1, SourcesAssumption
      <3> QED
        BY <2>4, <3>1, <3>2
    <2> QED
      BY <1>2, <2>2, <2>4, <2>5, <2>6 DEF Outcome, Sources
  <1>8. CASE Back
    <2>1. r = X2
      <3> HIDE DEF Drives, Back, Waits, X1, X2, X3, X4, r
      <3> QED
        BY <1>5, <1>6, <1>8
    <2>2. b.phase = "BlendingToFallback" /\ s.start # {} /\ b.start \subseteq b.cur
          /\ (Timely(b, 2) /\ b.age >= 2 => Headset \in b.cur)
      BY <1>1, <1>8 DEF Shape, Timely
    <2> HIDE DEF r, s
    <2>3. /\ r \in BlendType /\ Shape(r) /\ r.phase # "Uninitialized" /\ Timely(r, 1) /\ r.start \subseteq b.start
          /\ r.cur = IF b.age >= tm.blendToFallback THEN {Headset}
                     ELSE IF b.age = 0 THEN b.start ELSE b.start \cup {Headset}
      BY <1>1, <2>1, <2>2, ToFallbackFacts
    <2>4. Long(tm) /\ Timely(b, 2) => r.cur \cap b.cur # {}
      BY <1>1, <1>3, <2>2, <2>3, Durations DEF Long
    <2> QED
      BY <2>3, <2>4 DEF Outcome, Sources
  <1>9. CASE Waits
    <2>1. r = X3
      <3> HIDE DEF Drives, Back, Waits, X1, X2, X3, X4, r
      <3> QED
        BY <1>5, <1>6, <1>9
    <2> DEFINE g == SetPhase(s, "WaitingForStableSynth")
    <2>2. g \in BlendType /\ g.phase = "WaitingForStableSynth" /\ g.start \in {s.start, {}}
      BY <1>1, SetPhaseFacts DEF Phases
    <2>3. b.cur = {Headset}
      BY <1>1, <1>9 DEF Shape
    <2> HIDE DEF g, r, s
    <2>4. r \in BlendType /\ r.phase = "WaitingForStableSynth" /\ r.start = g.start
          /\ r.cur = {Headset}
      BY <1>2, <2>1, <2>2, SetCur DEF g
    <2>5. Shape(r) /\ Timely(r, 1)
      BY <2>4 DEF Shape, Timely
    <2> QED
      BY <1>1, <2>2, <2>3, <2>4, <2>5 DEF Outcome, Sources
  <1>10. CASE ~Drives /\ ~Back /\ ~Waits
    <2>1. r = X4
      <3> HIDE DEF Drives, Back, Waits, X1, X2, X3, X4, r
      <3> QED
        BY <1>5, <1>6, <1>10
    <2>2. w.start # {} /\ w.start \subseteq b.cur /\ w.start \in Poses /\ w.age \in Nat
          /\ w.start \subseteq Sources(b)
      <3>1. CASE b.phase = "BlendingToSynth"
        BY <1>3, <1>4, <3>1 DEF Shape, Sources
      <3>2. CASE b.phase # "BlendingToSynth"
        <4>1. b.phase \in {"BlendingToFallback", "FallbackStable", "WaitingForStableSynth"}
          BY <1>3, <1>10, <3>2 DEF Phases
        <4>2. b.cur # {}
          BY <4>1 DEF Shape
        <4> QED
          BY <1>3, <1>4, <3>2, <4>2 DEF Sources
      <3> QED
        BY <3>1, <3>2
    <2> HIDE DEF w, r
    <2>3. CASE w.age >= tm.blendToSynth
      <3> DEFINE g == SetPhase(w, "SynthStable")
      <3>1. g \in BlendType /\ g.phase = "SynthStable" /\ g.start \in {w.start, {}}
        BY <1>4, SetPhaseFacts DEF Phases
      <3> HIDE DEF g
      <3>2. r \in BlendType /\ r.phase = "SynthStable" /\ r.start = g.start /\ r.cur = {t}
        BY <1>2, <2>1, <2>3, <3>1, SetCur DEF g
      <3>3. Shape(r) /\ Timely(r, 1)
        BY <3>2 DEF Shape, Timely
      <3>4. ASSUME Long(tm), Timely(b, 2), NEW d, b.cur \subseteq {d, Headset}, t \in {None, d}
            PROVE  r.cur \cap b.cur # {}
        <4>1. b.phase = "BlendingToSynth" /\ b.age >= 2
          BY <1>3, <1>4, <2>3, <3>4 DEF Long
        <4>2. PICK x \in Trackers : x \in b.cur
          BY <3>4, <4>1 DEF Timely
        <4>3. x = d /\ t = d
          BY <1>2, <3>4, <4>2, SourcesAssumption
        <4> QED
          BY <3>2, <4>2, <4>3
      <3> QED
        BY <1>2, <2>2, <3>1, <3>2, <3>3, <3>4 DEF Outcome, Sources
    <2>4. CASE w.age < tm.blendToSynth
      <3> DEFINE m == Mix(w.start, {t}, w.age, tm.blendToSynth)
      <3>1. m = IF w.age = 0 THEN w.start ELSE w.start \cup {t}
        BY <2>2, <2>4 DEF Mix
      <3>2. m \in Poses
        BY <2>2, <3>1 DEF Poses
      <3> HIDE DEF m
      <3>3. r = [w EXCEPT !.cur = m]
        BY <2>1, <2>2, <2>4 DEF m
      <3>4. /\ r \in BlendType /\ r.phase = "BlendingToSynth" /\ r.start = w.start /\ r.cur = m
            /\ r.age = w.age
        BY <1>4, <3>2, <3>3, SetCur
      <3>5. Shape(r) /\ Timely(r, 1)
        BY <2>2, <2>4, <3>1, <3>4 DEF Shape, Timely
      <3>6. r.cur \cap b.cur # {}
        BY <2>2, <3>1, <3>4
      <3> QED
        BY <1>2, <2>2, <3>1, <3>4, <3>5, <3>6 DEF Outcome, Sources
    <2> QED
      BY <2>2, <2>3, <2>4
  <1> HIDE DEF r
  <1> QED
    BY <1>7, <1>8, <1>9, <1>10
\* A frame without one.
LEMMA WithoutSynthStep ==
    ASSUME NEW b0 \in BlendType, Shape(b0), b0.phase # "Uninitialized", NEW tm \in Timings
    PROVE  Outcome(b0, None, tm, WithoutSynth(b0, tm))
  <1> DEFINE b == [b0 EXCEPT !.since = FALSE, !.stable = 0]
             g == Hold(b)
             r == WithoutSynth(b0, tm)
  <1> SUFFICES Outcome(b0, None, tm, r)
    OBVIOUS
  <1> USE Durations
  <1>1. /\ b \in BlendType /\ b.phase = b0.phase /\ b.start = b0.start /\ b.cur = b0.cur
        /\ b.age = b0.age
    BY SetSince
  <1>2. /\ b.cur \in Poses /\ b.start \in Poses /\ b.age \in Nat /\ b.phase \in Phases
        /\ {Headset} \in Poses
    BY <1>1 DEF BlendType, Poses
  <1>3. Shape(b) /\ b.phase # "Uninitialized" /\ (Timely(b0, 2) => Timely(b, 2))
    <2> HIDE DEF b
    <2> QED
      BY <1>1 DEF Shape, Timely
  <1> DEFINE Held == g.phase = "GraceHold" /\ g.age < tm.graceHold
             Over == g.phase = "GraceHold" /\ g.age >= tm.graceHold
             Turn == b.phase \in {"BlendingToSynth", "WaitingForStableSynth"}
             Back == b.phase = "BlendingToFallback"
             Rest == b.phase = "FallbackStable"
             X1 == [g EXCEPT !.cur = g.start]
             X2 == ToFallback(SetPhase(g, "BlendingToFallback"), tm)
             X3 == ToFallback([SetPhase(b, "BlendingToFallback") EXCEPT !.start = b.cur], tm)
             X4 == ToFallback(b, tm)
             X5 == [b EXCEPT !.cur = {Headset}]
  <1>4. r = CASE Held -> X1 [] Over -> X2 [] Turn -> X3 [] Back -> X4 [] Rest -> X5
    BY Zenon DEF WithoutSynth
  <1> HIDE DEF b
  <1>5. /\ b.phase \in {"SynthStable", "GraceHold"} =>
              g \in BlendType /\ g.phase = "GraceHold" /\ g.start = b.cur /\ g.cur = b.cur
              /\ g.age \in Nat
        /\ b.phase \notin {"SynthStable", "GraceHold"} => g.phase # "GraceHold"
    <2>1. CASE b.phase = "SynthStable"
      <3> DEFINE h == SetPhase(b, "GraceHold")
      <3>1. h \in BlendType /\ h.phase = "GraceHold" /\ h.cur = b.cur
        BY <1>1, SetPhaseFacts DEF Phases
      <3>2. g = [h EXCEPT !.start = b.cur]
        BY <2>1 DEF Hold
      <3> HIDE DEF h, g
      <3>3. g \in BlendType /\ g.phase = "GraceHold" /\ g.start = b.cur /\ g.cur = b.cur
        BY <1>2, <3>1, <3>2, SetStart
      <3> QED
        BY <2>1, <3>3 DEF BlendType
    <2>2. CASE b.phase # "SynthStable"
      <3>1. g = b
        BY <2>2 DEF Hold
      <3> HIDE DEF g
      <3> QED
        BY <1>1, <1>2, <1>3, <2>2, <3>1 DEF Shape
    <2> QED
      BY <2>1, <2>2
  <1> HIDE DEF g
  <1>6. /\ ~(Held /\ Over) /\ ~(Held /\ Turn) /\ ~(Held /\ Back) /\ ~(Held /\ Rest)
        /\ ~(Over /\ Turn) /\ ~(Over /\ Back) /\ ~(Over /\ Rest)
        /\ ~(Turn /\ Back) /\ ~(Turn /\ Rest) /\ ~(Back /\ Rest)
    BY <1>5
  <1>7. CASE Held
    <2>1. r = X1
      <3> HIDE DEF Held, Over, Turn, Back, Rest, X1, X2, X3, X4, X5, r
      <3> QED
        BY <1>4, <1>6, <1>7
    <2>2. b.phase \in {"SynthStable", "GraceHold"}
      BY <1>5, <1>7
    <2> HIDE DEF r
    <2>3. r \in BlendType /\ r.phase = "GraceHold" /\ r.start = b.cur /\ r.cur = b.cur
      BY <1>2, <1>5, <2>1, <2>2, SetCur
    <2>4. PICK x \in Trackers : b.cur = {x}
      BY <1>3, <2>2 DEF Shape
    <2>5. Shape(r) /\ Timely(r, 1)
      BY <2>3, <2>4 DEF Shape, Timely
    <2> QED
      BY <1>1, <2>3, <2>4, <2>5 DEF Outcome, Sources
  <1>8. CASE Over
    <2>1. r = X2
      <3> HIDE DEF Held, Over, Turn, Back, Rest, X1, X2, X3, X4, X5, r
      <3> QED
        BY <1>4, <1>6, <1>8
    <2>2. b.phase \in {"SynthStable", "GraceHold"}
      BY <1>5, <1>8
    <2>3. PICK x \in Trackers : b.cur = {x}
      BY <1>3, <2>2 DEF Shape
    <2> DEFINE h == SetPhase(g, "BlendingToFallback")
    <2>4. h \in BlendType /\ h.phase = "BlendingToFallback" /\ h.start = b.cur /\ h.age = 0
      BY <1>5, <2>2, SetPhaseFacts DEF Phases
    <2> HIDE DEF h, r
    <2>5. /\ r \in BlendType /\ Shape(r) /\ r.phase # "Uninitialized" /\ Timely(r, 1) /\ r.start \subseteq b.cur
          /\ r.cur = IF 0 >= tm.blendToFallback THEN {Headset} ELSE b.cur
      BY <2>1, <2>3, <2>4, ToFallbackFacts DEF h
    <2>6. Long(tm) => r.cur = b.cur
      BY <2>5 DEF Long
    <2> QED
      BY <1>1, <2>3, <2>5, <2>6 DEF Outcome, Sources
  <1>9. CASE Turn
    <2>1. r = X3
      <3> HIDE DEF Held, Over, Turn, Back, Rest, X1, X2, X3, X4, X5, r
      <3> QED
        BY <1>4, <1>6, <1>9
    <2>2. b.cur # {}
      BY <1>3, <1>9 DEF Shape
    <2> DEFINE k == SetPhase(b, "BlendingToFallback")
               h == [k EXCEPT !.start = b.cur]
    <2>3. k \in BlendType /\ k.phase = "BlendingToFallback" /\ k.age = 0
      BY <1>1, <1>9, SetPhaseFacts DEF Phases
    <2>4. r = ToFallback(h, tm)
      BY <2>1
    <2> HIDE DEF k
    <2>5. h \in BlendType /\ h.phase = "BlendingToFallback" /\ h.start = b.cur /\ h.age = 0
      BY <1>2, <2>3, SetStart
    <2> HIDE DEF h, r
    <2>6. /\ r \in BlendType /\ Shape(r) /\ r.phase # "Uninitialized" /\ Timely(r, 1) /\ r.start \subseteq b.cur
          /\ r.cur = IF 0 >= tm.blendToFallback THEN {Headset} ELSE b.cur
      BY <2>2, <2>4, <2>5, ToFallbackFacts
    <2>7. Long(tm) => r.cur = b.cur
      BY <2>6 DEF Long
    <2> QED
      BY <1>1, <2>2, <2>6, <2>7 DEF Outcome, Sources
  <1>10. CASE Back
    <2>1. r = X4
      <3> HIDE DEF Held, Over, Turn, Back, Rest, X1, X2, X3, X4, X5, r
      <3> QED
        BY <1>4, <1>6, <1>10
    <2>2. b.start # {} /\ b.start \subseteq b.cur
          /\ (Timely(b, 2) /\ b.age >= 2 => Headset \in b.cur)
      BY <1>3, <1>10 DEF Shape, Timely
    <2> HIDE DEF r
    <2>3. /\ r \in BlendType /\ Shape(r) /\ r.phase # "Uninitialized" /\ Timely(r, 1) /\ r.start \subseteq b.start
          /\ r.cur = IF b.age >= tm.blendToFallback THEN {Headset}
                     ELSE IF b.age = 0 THEN b.start ELSE b.start \cup {Headset}
      BY <1>1, <1>10, <2>1, <2>2, ToFallbackFacts
    <2>4. Long(tm) /\ Timely(b, 2) => r.cur \cap b.cur # {}
      BY <1>2, <2>2, <2>3 DEF Long
    <2> QED
      BY <1>1, <1>3, <2>3, <2>4 DEF Outcome, Sources
  <1>11. CASE Rest
    <2>1. r = X5
      <3> HIDE DEF Held, Over, Turn, Back, Rest, X1, X2, X3, X4, X5, r
      <3> QED
        BY <1>4, <1>6, <1>11
    <2>2. b.cur = {Headset}
      BY <1>3, <1>11 DEF Shape
    <2> HIDE DEF r
    <2>3. r \in BlendType /\ r.phase = "FallbackStable" /\ r.start = b.start /\ r.cur = {Headset}
      BY <1>1, <1>2, <1>11, <2>1, SetCur
    <2>4. Shape(r) /\ Timely(r, 1)
      BY <2>3 DEF Shape, Timely
    <2> QED
      BY <1>1, <2>2, <2>3, <2>4 DEF Outcome, Sources
  <1>12. Held \/ Over \/ Turn \/ Back \/ Rest
    BY <1>2, <1>3, <1>5 DEF Phases
  <1> HIDE DEF r, Held, Over, Turn, Back, Rest
  <1> QED
    BY <1>7, <1>8, <1>9, <1>10, <1>11, <1>12

\* A frame, from the shape the last one has left.
LEMMA StepFacts ==
    ASSUME NEW b \in BlendType, Shape(b), NEW t \in Trackers \cup {None}, NEW tm \in Timings
    PROVE  Outcome(b, t, tm, StepSourceBlend(b, t, tm))
  <1> DEFINE r == StepSourceBlend(b, t, tm)
  <1>1. r = CASE b.phase = "Uninitialized" -> FirstFrame(b, t)
              [] b.phase # "Uninitialized" /\ t # None -> WithSynth(b, t, tm)
              [] b.phase # "Uninitialized" /\ t = None -> WithoutSynth(b, tm)
    BY Zenon DEF StepSourceBlend
  <1> HIDE DEF r
  <1>2. Outcome(b, t, tm, r)
    <2>1. CASE b.phase = "Uninitialized"
      BY <1>1, <2>1, FirstFrameStep
    <2>2. CASE b.phase # "Uninitialized" /\ t # None
      BY <1>1, <2>2, WithSynthStep
    <2>3. CASE b.phase # "Uninitialized" /\ t = None
      BY <1>1, <2>3, WithoutSynthStep
    <2> QED
      BY <2>1, <2>2, <2>3
  <1> QED
    BY <1>2 DEF r

\* Time passes for the blender and leaves what it shows alone.
LEMMA ElapseFacts ==
    ASSUME NEW b \in BlendType
    PROVE  /\ Elapse(b) \in BlendType
           /\ Elapse(b).phase = b.phase /\ Elapse(b).cur = b.cur /\ Elapse(b).start = b.start
           /\ Elapse(b).age >= 2 => b.age >= 1
  <1>1. b.age \in Clock /\ b.stable \in Clock
    BY DEF BlendType
  <1>2. Later(b.age, MaxTransition) \in Clock /\ Later(b.stable, MaxTransition) \in Clock
    BY <1>1, Clocks
  <1>3. PICK x \in {b.age, Later(b.age, MaxTransition)}, y \in {b.stable, Later(b.stable, MaxTransition)} :
            Elapse(b) = [b EXCEPT !.age = x, !.stable = y]
    BY DEF Elapse, BlendType
  <1>4. b.age \in Nat /\ (x >= 2 => b.age >= 1)
    BY <1>1, <1>3, Clocks DEF Later
  <1> QED
    BY <1>1, <1>2, <1>3, <1>4 DEF BlendType

-----------------------------------------------------------------------------
(* The hooks and SetHeadMountConfig.                                       *)

\* The blender, and the pose that it hands out.
LEMMA BlendStep == ASSUME IInv, Blend PROVE IInv'
  <1> USE DEF IInv
  <1> DEFINE b == IF reset THEN Fresh ELSE blend
             t == frame.synth
             tm == frame.timing
  <1>1. b \in BlendType /\ Shape(b)
    BY DEF BlendInv, Fresh, BlendType, Phases, Poses, Shape
  <1>2. frame.pc = "composed" /\ frame.on /\ t \in Trackers \cup {None} /\ tm \in Timings
    BY DEF Blend, BlendInv, Frames
  <1>3. Outcome(b, t, tm, StepSourceBlend(b, t, tm))
    BY <1>1, <1>2, StepFacts
  <1>4. /\ blend' = StepSourceBlend(b, t, tm) /\ out' = blend'.cur /\ reset' = FALSE
        /\ passed' = FALSE
        /\ frame' = [pc |-> "idle"] /\ UNCHANGED <<config, configPc>>
        /\ late' = IF reset THEN t \notin {None, config.dev} ELSE late
    BY DEF Blend, ipc
  <1> HIDE DEF b, t, tm
  <1>5. Outcome(b, t, tm, blend')
    BY <1>3, <1>4
  <1>6. late' \in BOOLEAN
    BY <1>4 DEF BlendInv
  <1>7. out' # {}
    BY <1>4, <1>5 DEF Outcome, Shape, BlendType, Phases
  <1>8. BlendInv'
    <2>1. frame' \in Frames
      BY <1>4 DEF Frames
    <2> QED
      BY <1>4, <1>5, <1>6, <1>7, <2>1 DEF BlendInv, Outcome
  <1>11. TimeInv'
    BY <1>4, <1>5 DEF TimeInv, Outcome
  <1>9. FrameInv'
    BY <1>4 DEF FrameInv
  <1>10. SourceInv'
    <2> SUFFICES ASSUME configPc = "idle", config.on, ~late'
                 PROVE  Sources(blend') \cup out' \subseteq {config.dev, Headset}
      BY <1>4 DEF SourceInv, Settled
    <2>1. t \in {None, config.dev}
      <3>1. CASE reset
        BY <1>4, <3>1
      <3>2. CASE ~reset
        BY <1>2, <3>2 DEF FrameInv, Settled, t
      <3> QED
        BY <3>1, <3>2
    <2>2. Sources(b) \subseteq {config.dev, Headset}
      <3>1. CASE reset
        BY <3>1 DEF b, Fresh, Sources
      <3>2. CASE ~reset
        <4>1. ~late
          BY <1>4, <3>2
        <4> QED
          BY <3>2, <4>1 DEF SourceInv, Settled, b
      <3> QED
        BY <3>1, <3>2
    <2>3. out' \subseteq Sources(blend')
      BY <1>4 DEF Sources
    <2> QED
      BY <1>5, <2>1, <2>2, <2>3 DEF Outcome
  <1> QED
    BY <1>8, <1>9, <1>10, <1>11

\* The other steps leave the blender alone.
LEMMA OtherStep ==
    ASSUME IInv, [Next]_vars, ~Blend
    PROVE  IInv'
  <1> USE DEF IInv
  <1>1. CASE UNCHANGED <<ipc, reset, blend, frame, out, passed, late>>
    BY <1>1 DEF ipc, BlendInv, TimeInv, FrameInv, SourceInv, Settled
  <1>2. ASSUME NEW c \in Configs, SetHeadMountConfig(c) PROVE IInv'
    <2>1. /\ UNCHANGED <<late, reset, blend, frame, out, passed>> /\ configPc = "idle"
          /\ config' \in Configs /\ config \in Configs
          /\ configPc' = "changed" \/ (config'.dev = config.dev /\ config'.on = config.on)
      BY <1>2 DEF SetHeadMountConfig, BlendInv, Configs
    <2> QED
      BY <2>1 DEF BlendInv, TimeInv, FrameInv, SourceInv, Settled
  <1>3. CASE ClearSnapshot
    <2>1. /\ UNCHANGED <<late, config, frame, out, passed>> /\ reset' = TRUE /\ blend' = Fresh
      BY <1>3 DEF ClearSnapshot
    <2>2. Fresh \in BlendType /\ Shape(Fresh) /\ Timely(Fresh, 1) /\ Timely(Fresh, 2)
      BY DEF Fresh, BlendType, Phases, Poses, Shape, Timely
    <2> QED
      BY <2>1, <2>2 DEF BlendInv, TimeInv, FrameInv, SourceInv, Settled
  <1>4. CASE ReadState
    <2>1. /\ UNCHANGED <<config, configPc, reset, out, passed, late>> /\ frame.pc = "idle"
          /\ blend' = Elapse(blend)
      BY <1>4 DEF ReadState, ipc
    <2>2. /\ blend' \in BlendType /\ blend'.phase = blend.phase /\ blend'.cur = blend.cur
          /\ blend'.start = blend.start /\ (blend'.age >= 2 => blend.age >= 1)
      BY <2>1, ElapseFacts DEF BlendInv
    <2>3. Shape(blend') /\ Sources(blend') = Sources(blend)
      BY <2>2 DEF Shape, Sources, BlendInv
    <2>4. Timely(blend, 1) => Timely(blend', 2)
      BY <2>2 DEF Timely
    <2>5. CASE config.on
      <3>1. frame' = [pc |-> "read", config |-> config]
        BY <1>4, <2>5 DEF ReadState
      <3>2. frame' \in Frames /\ frame'.pc = "read" /\ frame'.config = config
        BY <3>1 DEF Frames, BlendInv
      <3> QED
        BY <2>1, <2>2, <2>3, <2>4, <2>5, <3>2 DEF BlendInv, TimeInv, FrameInv, SourceInv, Settled
    <2>6. CASE ~config.on
      <3>1. frame' = [pc |-> "composed", on |-> FALSE, synth |-> None, timing |-> config.timing]
        BY <1>4, <2>6 DEF ReadState
      <3>2. frame' \in Frames /\ frame'.pc = "composed" /\ ~frame'.on
        BY <3>1 DEF Frames, BlendInv, Configs
      <3> QED
        BY <2>1, <2>2, <2>3, <2>4, <3>2 DEF BlendInv, TimeInv, FrameInv, SourceInv, Settled
    <2> QED
      BY <2>5, <2>6
  <1>5. CASE ReadSnapshot
    <2> DEFINE x == IF Compose(frame.config) THEN snap.dev ELSE None
    <2>1. /\ UNCHANGED <<config, configPc, reset, blend, out, passed, late>> /\ frame.pc = "read"
          /\ frame' = [pc |-> "composed", on |-> TRUE, timing |-> frame.config.timing, synth |-> x]
      BY <1>5 DEF ReadSnapshot, ipc
    <2>2. frame.config \in Configs
      BY <2>1 DEF BlendInv, Frames
    <2>3. x \in {None, frame.config.dev} /\ x \in Trackers \cup {None} /\ frame.config.timing \in Timings
      BY <2>2 DEF Compose, Configs
    <2> HIDE DEF x
    <2>4. frame' \in Frames /\ frame'.pc = "composed" /\ frame'.synth = x
      BY <2>1, <2>3 DEF Frames
    <2> QED
      BY <2>1, <2>3, <2>4 DEF BlendInv, TimeInv, FrameInv, SourceInv, Settled
  <1>6. CASE PassThrough
    <2>1. /\ UNCHANGED <<config, configPc, reset, blend, late>>
          /\ frame' = [pc |-> "idle"] /\ out' = {Headset} /\ passed' = TRUE
      BY <1>6 DEF PassThrough, ipc
    <2>2. frame' \in Frames /\ frame'.pc = "idle"
      BY <2>1 DEF Frames
    <2> QED
      BY <2>1, <2>2 DEF BlendInv, TimeInv, FrameInv, SourceInv, Settled
  <1>7. ASSUME NEW t \in Trackers, TrackerTest(t) \/ TrackerSnapshot(t) PROVE IInv'
    BY <1>1, <1>7 DEF TrackerTest, TrackerSnapshot
  <1>8. CASE SystemLookup
    BY <1>1, <1>8 DEF SystemLookup
  <1>9. CASE UNCHANGED vars
    BY <1>1, <1>9 DEF vars
  <1> QED
    BY <1>2, <1>3, <1>4, <1>5, <1>6, <1>7, <1>8, <1>9 DEF Next, HeadsetHook

-----------------------------------------------------------------------------
\* The invariant holds throughout, wherever changes of config fall.
LEMMA Invariance == Spec => []IInv
  <1>1. Init => IInv
    <2> SUFFICES ASSUME Init PROVE IInv
      OBVIOUS
    <2>1. blend \in BlendType /\ Shape(blend)
      BY DEF Init, Fresh, BlendType, Phases, Poses, Shape
    <2>2. config \in Configs /\ frame \in Frames /\ frame.pc = "idle" /\ ~config.on /\ out # {}
      BY TimingAssumption DEF Init, Configs, Frames
    <2>3. reset \in BOOLEAN /\ late \in BOOLEAN /\ passed = TRUE
      BY DEF Init
    <2> QED
      BY <2>1, <2>2, <2>3 DEF IInv, BlendInv, TimeInv, FrameInv, SourceInv
  <1>2. IInv /\ [Next]_vars => IInv'
    BY BlendStep, OtherStep
  <1> QED
    BY <1>1, <1>2, PTL DEF Spec

\* The rest of the types: the snapshot, the trackers' hooks and the pose handed out.
RestInv ==
    /\ configPc \in {"idle", "changed"} /\ known \in BOOLEAN /\ inSlot \subseteq Trackers
    /\ snap \in [dev : Trackers \cup {None}, age : 0..MaxStale + 1] /\ out \in Poses

\* The blender hands out the pose of its state; a snapshot ages no further than matters.
LEMMA RestStep == ASSUME IInv', RestInv, [Next]_vars PROVE RestInv'
  <1> USE TimingAssumption DEF RestInv
  <1>1. CASE UNCHANGED vars
    BY <1>1 DEF vars, ipc
  <1>2. ASSUME NEW c \in Configs, SetHeadMountConfig(c) PROVE RestInv'
    BY <1>2 DEF SetHeadMountConfig
  <1>3. CASE ClearSnapshot
    BY <1>3 DEF ClearSnapshot, NoSnapshot
  <1>4. ASSUME NEW t \in Trackers, TrackerTest(t) PROVE RestInv'
    BY <1>4 DEF TrackerTest, ipc
  <1>5. ASSUME NEW t \in Trackers, TrackerSnapshot(t) PROVE RestInv'
    <2>1. UNCHANGED <<configPc, known, out>> /\ inSlot' \subseteq Trackers
      BY <1>5 DEF TrackerSnapshot, ipc
    <2>2. snap' \in [dev : Trackers \cup {None}, age : 0..MaxStale + 1]
      BY <1>5 DEF TrackerSnapshot, NoSnapshot
    <2> QED
      BY <2>1, <2>2
  <1>6. CASE ReadState
    BY <1>6 DEF ReadState, ipc, NoSnapshot
  <1>7. CASE ReadSnapshot
    BY <1>7 DEF ReadSnapshot, ipc
  <1>8. CASE PassThrough
    BY <1>8 DEF PassThrough, ipc, Poses
  <1>9. CASE Blend
    <2>1. out' = blend'.cur /\ UNCHANGED <<configPc, known, inSlot, snap>>
      BY <1>9 DEF Blend, ipc
    <2>2. blend' \in BlendType
      BY DEF IInv, BlendInv
    <2> QED
      BY <2>1, <2>2 DEF BlendType
  <1>10. CASE SystemLookup
    BY <1>10 DEF SystemLookup, ipc
  <1> QED
    BY <1>1, <1>2, <1>3, <1>4, <1>5, <1>6, <1>7, <1>8, <1>9, <1>10 DEF Next, HeadsetHook

\* Config, snapshot, blender and hooks keep their types: the capped clocks of the blender
\* and of the snapshot stay within their bounds, and the headset always has some source.
THEOREM TypeCorrect == Spec => []TypeOK
  <1>1. Init => RestInv
    BY TimingAssumption DEF Init, RestInv, NoSnapshot, Poses
  <1>2. IInv /\ RestInv => TypeOK
    <2> SUFFICES ASSUME IInv, RestInv PROVE TypeOK
      OBVIOUS
    <2>1. frame.pc \in {"idle", "read", "composed"}
      BY DEF IInv, BlendInv, Frames
    <2> QED
      BY <2>1 DEF IInv, BlendInv, TimeInv, RestInv, TypeOK, BlendType, Phases, Clock
  <1> QED
    BY <1>1, <1>2, Invariance, RestStep, PTL DEF Spec

\* Once a change of tracker is through and the blender has taken its reset,
\* nothing of the old tracker is in the headset's pose.
THEOREM OldTrackerIsGone == Spec => []OldTrackerGone
  <1>1. IInv => OldTrackerGone
    BY DEF IInv, SourceInv, Settled, OldTrackerGone
  <1> QED
    BY <1>1, Invariance, PTL

\* From a blended frame to the next the headset keeps a source of its pose, if the blends of that
\* frame last for two frames at least, whatever the durations were before and whenever they change.
THEOREM BlendsDoNotJump == Spec => NoJump
  <1> DEFINE Step == Blend /\ LongBlends /\ ~passed /\ ~reset /\ ~late /\ configPc = "idle"
                       => out \cap out' # {}
  <1>1. IInv /\ [Next]_vars => [Step]_vars
    <2> SUFFICES ASSUME IInv, Blend, LongBlends, ~passed, ~reset, ~late, configPc = "idle"
                 PROVE  out \cap out' # {}
      OBVIOUS
    <2> USE DEF IInv
    <2>1. /\ blend' = StepSourceBlend(blend, frame.synth, frame.timing) /\ out' = blend'.cur
          /\ frame.pc = "composed" /\ frame.on
      BY DEF Blend
    <2>2. frame.synth \in Trackers \cup {None} /\ frame.timing \in Timings
      BY <2>1 DEF BlendInv, Frames
    <2>3. Outcome(blend, frame.synth, frame.timing, blend')
      BY <2>1, <2>2, StepFacts DEF BlendInv
    <2>4. config.on /\ frame.synth \in {None, config.dev}
      BY <2>1 DEF FrameInv, Settled
    <2>5. blend.cur \subseteq {config.dev, Headset}
      BY <2>4 DEF SourceInv, Settled, Sources
    <2>6. Long(frame.timing) /\ Timely(blend, 2) /\ out = blend.cur
      BY <2>1 DEF LongBlends, Long, TimeInv
    <2>7. blend.phase # "Uninitialized"
      BY <2>6 DEF BlendInv, Shape
    <2>8. blend'.cur \cap blend.cur # {}
      BY <2>3, <2>4, <2>5, <2>6, <2>7 DEF Outcome
    <2> QED
      BY <2>1, <2>6, <2>8
  <1>2. Spec => [][Step]_vars
    BY <1>1, Invariance, PTL DEF Spec
  <1> QED
    BY <1>2 DEF NoJump
=============================================================================
