----------------------------- MODULE DriverSynth ----------------------------
(***************************************************************************)
(* Driving the headset from a head-mounted tracker.  The hook of the       *)
(* selected tracker files snapshots of its pose; the hook of the headset   *)
(* composes a pose from a fresh one and blends between that and the        *)
(* headset's own pose; SetHeadMountConfig, on the IPC thread, selects the  *)
(* tracker and sets the durations.                                         *)
(*                                                                         *)
(* The hooks hold stateMutex, except where they release it to ask SteamVR  *)
(* for their device's tracking system: between a tracker's test and its    *)
(* snapshot, between the headset's composition and its blend.  They may    *)
(* always do so here, which allows all that a hook without a lookup does.  *)
(* SetHeadMountConfig does not take stateMutex: the head-mount state, the  *)
(* snapshot and the reset flag are each protected on their own, so a       *)
(* change can fall between any two accesses.                               *)
(*                                                                         *)
(* A pose is the set of sources it is made of: a tracker, Headset, or both *)
(* while it blends.  Durations are counted in frames of the headset, the   *)
(* ones that pass its own pose through included.                           *)
(***************************************************************************)
EXTENDS Naturals

CONSTANTS
    Trackers, Headset, None,
    Timings, DefaultTiming,     \* DriverSynthTimingConfig: the ones requested, the default
    MaxStale, MaxTransition     \* kDriverSynthStaleLimitMsMax, kDriverSynthTransitionMsMax

ASSUME SourcesAssumption == Headset \notin Trackers /\ None \notin Trackers \cup {Headset}
ASSUME TimingAssumption ==
    /\ MaxStale \in Nat /\ MaxTransition \in Nat /\ DefaultTiming \in Timings
    /\ Timings \subseteq [staleLimit : 0..MaxStale, graceHold : 0..MaxTransition,
                          blendToFallback : 0..MaxTransition,
                          stableBeforeSynth : 0..MaxTransition, blendToSynth : 0..MaxTransition]

VARIABLES
    config, configPc,   \* m_headMountState; where SetHeadMountConfig is
    snap,               \* m_trackerSnap: the device, and its age; one that is invalid or
                        \* too old for any limit is none
    inSlot,             \* tracker hooks past their test, snapshot not yet written
    reset, blend,       \* m_driverSynthBlendReset, m_driverSynthBlendState (which is not
                        \* read while the flag is set: Fresh)
    known,              \* does the headset hook get past its system lookup?
    frame,              \* the headset hook: its copy of the state, its composition
    out,                \* the pose last passed on for the headset
    passed,             \* history: was that the headset's own, past the blender?
    late                \* history: was the last reset used up by a frame that had
                        \* composed its pose with another tracker?

ipc  == <<config, configPc>>
vars == <<ipc, snap, inSlot, reset, blend, known, frame, out, passed, late>>

\* What is looked at: in another mode nothing else is, and without a tracker
\* there is no offset.
Configs ==
    {c \in [on : BOOLEAN, dev : Trackers \cup {None}, calibrated : BOOLEAN, timing : Timings] :
        /\ ~c.on => c.dev = None /\ c.timing = DefaultTiming
        /\ c.dev = None => ~c.calibrated}
NoSnapshot == [dev |-> None, age |-> MaxStale + 1]
Fresh == [phase |-> "Uninitialized", cur |-> {}, start |-> {},
          age |-> 0, since |-> FALSE, stable |-> 0]

Init ==
    /\ config = [on |-> FALSE, dev |-> None, calibrated |-> FALSE, timing |-> DefaultTiming]
    /\ configPc = "idle"
    /\ snap = NoSnapshot /\ inSlot = {}
    /\ reset = FALSE /\ blend = Fresh /\ known = TRUE
    /\ frame = [pc |-> "idle"] /\ out = {Headset} /\ passed = TRUE /\ late = FALSE

-----------------------------------------------------------------------------
(* StepSourceBlend.  b.age and b.stable are the frames since               *)
(* phaseStartedAt and stableSynthSince, counted while they matter and up   *)
(* to the longest; timing holds the durations the frame has read;          *)
(* b.start is kept only while it is used.  lastGoodSynthPose is read in    *)
(* SynthStable only, where it is the current pose.                         *)

Timed == {"GraceHold", "BlendingToFallback", "BlendingToSynth"}
Driving == {"SynthStable", "BlendingToSynth"}
Later(n, bound) == IF n < bound THEN n + 1 ELSE n
Elapse(b) ==
    [b EXCEPT !.age = IF b.phase \in Timed THEN Later(@, MaxTransition) ELSE @,
              !.stable = IF b.since /\ b.phase \notin Driving THEN Later(@, MaxTransition) ELSE @]

SetPhase(b, phase) ==
    IF b.phase = phase THEN b
    ELSE [b EXCEPT !.phase = phase, !.age = 0,
                   !.start = IF phase \in Timed THEN @ ELSE {},
                   !.stable = IF phase \in Driving THEN 0 ELSE @]

\* BlendPose with DurationAlpha: nothing of the target at the start, nothing
\* of the start at the end.
Mix(start, target, age, duration) ==
    CASE age >= duration -> target
      [] age = 0 /\ duration > 0 -> start
      [] OTHER -> start \cup target

\* Mutant of ToFallback: the blend ends where it starts.
ToFallbackAtOnce(b, timing) ==
    [SetPhase(b, "FallbackStable") EXCEPT !.cur = {Headset}]

ToFallback(b, timing) ==
    IF b.age >= timing.blendToFallback
      THEN [SetPhase(b, "FallbackStable") EXCEPT !.cur = {Headset}]
      ELSE [b EXCEPT !.cur = Mix(b.start, {Headset}, b.age, timing.blendToFallback)]

FirstFrame(b, tracker) ==
    IF tracker # None
      THEN [SetPhase(b, "SynthStable") EXCEPT !.cur = {tracker}, !.since = TRUE, !.stable = 0]
      ELSE [SetPhase(b, "FallbackStable") EXCEPT !.cur = {Headset}, !.since = FALSE]

\* Mutant of Stable: the wait starts again with every frame.
StableNever(b) == [b EXCEPT !.since = TRUE, !.stable = 0]

Stable(b) == IF b.since THEN b ELSE [b EXCEPT !.since = TRUE, !.stable = 0]

WithSynth(b, tracker, timing) ==
    LET s  == Stable(b)
        w  == IF s.phase = "BlendingToSynth" THEN s
              ELSE [SetPhase(s, "BlendingToSynth") EXCEPT !.start = s.cur]
    IN  CASE b.phase \in {"SynthStable", "GraceHold"} ->
               [SetPhase(b, "SynthStable") EXCEPT !.cur = {tracker}, !.since = TRUE, !.stable = 0]
          [] s.phase = "BlendingToFallback" /\ s.stable < timing.stableBeforeSynth ->
               ToFallback(s, timing)
          [] s.phase \in {"FallbackStable", "WaitingForStableSynth"}
               /\ s.stable < timing.stableBeforeSynth ->
               [SetPhase(s, "WaitingForStableSynth") EXCEPT !.cur = {Headset}]
          [] OTHER ->
               IF w.age >= timing.blendToSynth
                 THEN [SetPhase(w, "SynthStable") EXCEPT !.cur = {tracker}]
                 ELSE [w EXCEPT !.cur = Mix(w.start, {tracker}, w.age, timing.blendToSynth)]

\* Mutant of Hold: the grace period starts again with every frame.
HoldAgain(b) ==
    IF b.phase \in {"SynthStable", "GraceHold"}
      THEN [b EXCEPT !.phase = "GraceHold", !.age = 0, !.start = b.cur] ELSE b

Hold(b) ==
    IF b.phase = "SynthStable"
      THEN [SetPhase(b, "GraceHold") EXCEPT !.start = b.cur] ELSE b

WithoutSynth(b0, timing) ==
    LET b == [b0 EXCEPT !.since = FALSE, !.stable = 0]
        g == Hold(b)
    IN  CASE g.phase = "GraceHold" /\ g.age < timing.graceHold -> [g EXCEPT !.cur = g.start]
          [] g.phase = "GraceHold" /\ g.age >= timing.graceHold ->
               ToFallback(SetPhase(g, "BlendingToFallback"), timing)
          [] b.phase \in {"BlendingToSynth", "WaitingForStableSynth"} ->
               ToFallback([SetPhase(b, "BlendingToFallback") EXCEPT !.start = b.cur], timing)
          [] b.phase = "BlendingToFallback" -> ToFallback(b, timing)
          [] b.phase = "FallbackStable" -> [b EXCEPT !.cur = {Headset}]

StepSourceBlend(b, tracker, timing) ==
    CASE b.phase = "Uninitialized" -> FirstFrame(b, tracker)
      [] b.phase # "Uninitialized" /\ tracker # None -> WithSynth(b, tracker, timing)
      [] b.phase # "Uninitialized" /\ tracker = None -> WithoutSynth(b, timing)

-----------------------------------------------------------------------------
(* SetHeadMountConfig.                                                     *)

\* A request with the same tracker may change its offset, serial number or
\* hiding, which changes the source; if it sets only the durations, the
\* snapshot and the blend go on.
SetHeadMountConfig(next) ==
    /\ configPc = "idle"
    /\ config' = next
    /\ \/ configPc' = "changed"
       \/ config = [next EXCEPT !.timing = config.timing] /\ configPc' = "idle"
    /\ UNCHANGED <<late, snap, inSlot, reset, blend, known, frame, out, passed>>

\* sourceChanged: the old snapshot goes, and the blender starts afresh.
ClearSnapshot ==
    /\ configPc = "changed"
    /\ configPc' = "idle" /\ snap' = NoSnapshot /\ reset' = TRUE /\ blend' = Fresh
    /\ UNCHANGED <<late, config, inSlot, known, frame, out, passed>>

-----------------------------------------------------------------------------
(* The hook of a tracker.                                                  *)

TrackerTest(t) ==
    /\ frame.pc # "read" /\ t \notin inSlot
    /\ config.on /\ config.dev = t
    /\ inSlot' = inSlot \cup {t}
    /\ UNCHANGED <<ipc, snap, reset, blend, known, frame, out, passed, late>>

\* The snapshot is filed, for this device; or skipped, when the transform is
\* disabled on a hidden device or the tracking system is unknown.
TrackerSnapshot(t) ==
    /\ frame.pc # "read" /\ t \in inSlot
    /\ inSlot' = inSlot \ {t}
    /\ \/ snap' \in {[dev |-> t, age |-> 0], NoSnapshot}
       \/ UNCHANGED snap
    /\ UNCHANGED <<ipc, reset, blend, known, frame, out, passed, late>>

-----------------------------------------------------------------------------
(* The hook of the headset.                                                *)

\* The state is copied, and the snapshot read only in this mode; time passes
\* from frame to frame.
ReadState ==
    /\ frame.pc = "idle"
    /\ frame' = IF config.on THEN [pc |-> "read", config |-> config]
                ELSE [pc |-> "composed", on |-> FALSE, synth |-> None, timing |-> config.timing]
    /\ snap' = IF snap.age < MaxStale THEN [snap EXCEPT !.age = @ + 1] ELSE NoSnapshot
    /\ blend' = Elapse(blend)
    /\ UNCHANGED <<ipc, inSlot, reset, known, out, passed, late>>

\* Mutant of Compose: any tracker's snapshot will do.
ComposeAny(c) ==
    /\ c.on /\ c.dev # None /\ c.calibrated
    /\ snap.age <= c.timing.staleLimit

\* Compose: a fresh, valid snapshot of the selected tracker.
Compose(c) ==
    /\ c.on /\ c.dev # None /\ c.calibrated
    /\ snap.age <= c.timing.staleLimit
    /\ snap.dev = c.dev

ReadSnapshot ==
    /\ frame.pc = "read"
    /\ frame' = [pc |-> "composed", on |-> TRUE, timing |-> frame.config.timing,
                 synth |-> IF Compose(frame.config) THEN snap.dev ELSE None]
    /\ UNCHANGED <<ipc, snap, inSlot, reset, blend, known, out, passed, late>>

\* The hook returns early when the headset's tracking system is unknown, and
\* leaves the blender alone when the mode is off.
PassThrough ==
    /\ frame.pc = "composed" /\ (~known \/ ~frame.on)
    /\ frame' = [pc |-> "idle"] /\ out' = {Headset} /\ passed' = TRUE
    /\ UNCHANGED <<ipc, snap, inSlot, reset, blend, known, late>>

Blend ==
    /\ frame.pc = "composed" /\ known /\ frame.on
    /\ reset' = FALSE
    /\ blend' = StepSourceBlend(IF reset THEN Fresh ELSE blend, frame.synth, frame.timing)
    /\ out' = blend'.cur /\ passed' = FALSE /\ frame' = [pc |-> "idle"]
    /\ late' = IF reset THEN frame.synth \notin {None, config.dev} ELSE late
    /\ UNCHANGED <<ipc, snap, inSlot, known>>

HeadsetHook == ReadState \/ ReadSnapshot \/ PassThrough \/ Blend

\* What the transform state of the headset (module DeviceTransforms) makes
\* of the lookup.
SystemLookup ==
    /\ frame.pc = "idle"
    /\ known' = ~known
    /\ UNCHANGED <<ipc, snap, inSlot, reset, blend, frame, out, passed, late>>

-----------------------------------------------------------------------------
Next ==
    \/ \E c \in Configs : SetHeadMountConfig(c)
    \/ ClearSnapshot
    \/ \E t \in Trackers : TrackerTest(t) \/ TrackerSnapshot(t)
    \/ HeadsetHook
    \/ SystemLookup

Spec == Init /\ [][Next]_vars

\* The headset's poses keep coming, and a config change is completed.
FairSpec == Spec /\ WF_vars(HeadsetHook) /\ WF_vars(ClearSnapshot)

-----------------------------------------------------------------------------
Poses == SUBSET (Trackers \cup {Headset})

\* The type invariant; a blend is of known sources.
TypeOK ==
    /\ config \in Configs /\ configPc \in {"idle", "changed"}
    /\ snap \in [dev : Trackers \cup {None}, age : 0..MaxStale + 1]
    /\ inSlot \subseteq Trackers /\ reset \in BOOLEAN /\ known \in BOOLEAN
    /\ blend \in [phase : {"Uninitialized", "SynthStable", "GraceHold", "BlendingToFallback",
                           "FallbackStable", "WaitingForStableSynth", "BlendingToSynth"},
                  cur : Poses, start : Poses,
                  age : 0..MaxTransition, since : BOOLEAN, stable : 0..MaxTransition]
    /\ frame.pc \in {"idle", "read", "composed"}
    /\ out \in Poses \ {{}} /\ passed \in BOOLEAN /\ late \in BOOLEAN

\* The blends of the frame under way last for two frames at least: at the end
\* of a shorter one a source is exchanged for another.
LongBlends == frame.timing.blendToFallback >= 2 /\ frame.timing.blendToSynth >= 2

\* The headset does not jump from one source to another: from a blended frame
\* to the next the pose keeps a source, whatever the durations were before,
\* unless a change of config is under way or has reset the blender.
NoJump ==
    [][Blend /\ LongBlends /\ ~passed /\ ~reset /\ ~late /\ configPc = "idle"
       => out \cap out' # {}]_vars

\* Once a change of tracker is through and the blender has taken its reset,
\* nothing of the old tracker is left in the pose: not from its snapshot, not
\* from a hook that files one late, not from a blend under way.  (A frame that
\* had composed its pose when the change came uses up the reset and keeps that
\* pose: late.)
OldTrackerGone ==
    configPc = "idle" /\ ~reset /\ config.on /\ ~late => out \subseteq {config.dev, Headset}

Steady(t) ==
    /\ configPc = "idle" /\ config.on /\ config.calibrated /\ config.dev = t /\ known
    /\ snap.dev = t /\ snap.age <= config.timing.staleLimit
    /\ frame.pc = "composed" => frame.synth = t

Lost == config.on /\ configPc = "idle" /\ known /\ snap.age > config.timing.staleLimit

\* A tracker that stays fresh drives the headset at last ...
SteadyDrives == \A t \in Trackers : <>[]Steady(t) => <>[](out = {t})

\* ... and one that stays lost leaves it to its own tracking, with no source
\* held for ever and no blend that never ends.
LostFallsBack == <>[]Lost => <>[](out = {Headset})
=============================================================================
