------------------------------ MODULE Phantom ------------------------------
(***************************************************************************)
(* The phantom tracker module: a dropout ladder per device (DropoutState), *)
(* the hot path that feeds it and publishes (PhantomModule), and the IPC   *)
(* handlers that configure both.                                           *)
(*                                                                         *)
(* Time stamps are kept as ages: since = now - last_real_qpc_ns_, drop =   *)
(* now - dropout_start_qpc_ns_, bin = now - blend_in_start_qpc_ns_, with   *)
(* Never for -1.  Ages stop growing at Horizon, which is not below any     *)
(* threshold.  A pose is "ok" (Running_OK, valid and connected) or "bad";  *)
(* pub is the result of the last pose SteamVR received.  Where a           *)
(* synthesised pose comes from (sidecar, IK, dead reckoner) does not       *)
(* change its result and is left out.                                      *)
(*                                                                         *)
(* Spec lets a caller interleave OnRealPoseObserved and MaybeOverridePose  *)
(* as DropoutState.h describes them ("inbound side", "once per outgoing    *)
(* pose").  HookSpec is the one caller the driver has: the pose hook,      *)
(* which makes both calls with the same time stamp.                        *)
(***************************************************************************)
EXTENDS Integers, FiniteSets

CONSTANTS
    Devices,
    Silence,       \* kDropoutSilenceMs, which no request changes
    Defaults,      \* DefaultTimings: the other thresholds
    Configs,       \* what the overlay may send for them; 0 means the default
    Horizon

Never == -1
Poses == {"ok", "bad"}
Ages  == 0 .. Horizon \cup {Never}
Roles == {"none", "body"}   \* BodyRole::None, and a role with or without an offset

\* LadderTimings: blend_out_ms, blend_in_ms, reckon_hold_ms, synth_hold_ms, lost_hold_ms.
Thresholds == {"blendOut", "blendIn", "reckon", "synth", "lost"}
Timings    == [Thresholds -> 1 .. Horizon]

ASSUME ThresholdsInRange ==
    /\ Horizon \in Nat
    /\ Silence \in 1 .. Horizon
    /\ Defaults \in Timings
    /\ Configs \subseteq [Thresholds -> 0 .. Horizon]

VARIABLES
    ladder,     \* DeviceSlot::ladder: st, since, drop, bin, ik and its own timings
    timings,    \* timings_
    master,     \* master_enabled_
    setting,    \* SetPhantomConfig while it stores: the config, or {}
    optIn, roleOf,      \* the caches keyed by serial; "unset": no entry
    opted, role,        \* the slot's copies
    serial,     \* ResolveSerialIfMissing: "missing", "found" (not yet copied), "known"
    offset,     \* is a tracker offset on file?
    pub         \* what SteamVR last received for the device

vars == <<ladder, timings, master, setting, optIn, roleOf, opted, role, serial, offset, pub>>
ipc  == <<timings, master, setting, optIn, roleOf, offset>>

Dropped == {"BLEND_OUT", "SYNTH_RECKON", "SYNTH_IK", "OUT_OF_RANGE", "LOST"}
States  == Dropped \cup {"REAL", "BLEND_IN"}

Init ==
    /\ ladder = [d \in Devices |-> [st |-> "REAL", since |-> Never, drop |-> Never,
                                    bin |-> Never, ik |-> FALSE, t |-> Defaults]]
    /\ timings = Defaults /\ master = FALSE /\ setting = {}
    /\ optIn = [d \in Devices |-> "unset"] /\ roleOf = [d \in Devices |-> "unset"]
    /\ opted = [d \in Devices |-> FALSE] /\ role = [d \in Devices |-> "none"]
    /\ serial = [d \in Devices |-> "missing"]
    /\ offset = FALSE
    /\ pub = [d \in Devices |-> "none"]

-----------------------------------------------------------------------------
(* DropoutState, on one ladder L.                                          *)

\* OnRealPoseObserved: any pose counts as heard; a healthy one ends a dropout.
Observed(L, pose) ==
    IF pose = "ok" /\ L.st \in Dropped
      THEN [L EXCEPT !.since = 0, !.st = "BLEND_IN", !.bin = 0]
      ELSE [L EXCEPT !.since = 0]

\* Mutant of NoticeSilence: the dropout starts when it is noticed.
NoticeSilenceLate(L) ==
    IF L.st = "REAL" /\ L.since # Never /\ L.since >= Silence
      THEN [L EXCEPT !.st = "BLEND_OUT", !.drop = 0]
      ELSE L

\* Tick, first part: silence starts a dropout, dated back to the last pose.
NoticeSilence(L) ==
    IF L.st = "REAL" /\ L.since # Never /\ L.since >= Silence
      THEN [L EXCEPT !.st = "BLEND_OUT", !.drop = L.since]
      ELSE L

\* Mutant of Escalate: LOST is not excluded from the OUT_OF_RANGE step.
EscalateFromLost(L) ==
    LET s1 == IF L.st = "BLEND_OUT" /\ L.drop >= L.t.blendOut THEN "SYNTH_RECKON" ELSE L.st
        s2 == IF s1 = "SYNTH_RECKON" /\ L.ik /\ L.drop >= L.t.reckon THEN "SYNTH_IK" ELSE s1
        s3 == IF L.drop >= L.t.synth THEN "OUT_OF_RANGE" ELSE s2
        s4 == IF L.drop >= L.t.lost THEN "LOST" ELSE s3
    IN  IF L.drop # Never /\ L.st \in Dropped THEN [L EXCEPT !.st = s4] ELSE L

\* Mutant of Escalate: at most one rung per tick.
EscalateOneRung(L) ==
    LET s == CASE L.st = "BLEND_OUT" /\ L.drop >= L.t.blendOut -> "SYNTH_RECKON"
               [] L.st = "SYNTH_RECKON" /\ L.ik /\ L.drop >= L.t.reckon -> "SYNTH_IK"
               [] L.st \in {"SYNTH_RECKON", "SYNTH_IK"} /\ L.drop >= L.t.synth -> "OUT_OF_RANGE"
               [] L.st = "OUT_OF_RANGE" /\ L.drop >= L.t.lost -> "LOST"
               [] OTHER -> L.st
    IN  IF L.drop # Never /\ L.st \in Dropped THEN [L EXCEPT !.st = s] ELSE L

\* Tick, second part: the escalation, each rung tested in turn.
Escalate(L) ==
    LET s1 == IF L.st = "BLEND_OUT" /\ L.drop >= L.t.blendOut THEN "SYNTH_RECKON" ELSE L.st
        s2 == IF s1 = "SYNTH_RECKON" /\ L.ik /\ L.drop >= L.t.reckon THEN "SYNTH_IK" ELSE s1
        s3 == IF L.drop >= L.t.synth /\ s2 # "LOST" THEN "OUT_OF_RANGE" ELSE s2
        s4 == IF L.drop >= L.t.lost THEN "LOST" ELSE s3
    IN  IF L.drop # Never /\ L.st \in Dropped THEN [L EXCEPT !.st = s4] ELSE L

\* Tick, third part: the end of the blend back to the real pose.
FinishBlendIn(L) ==
    IF L.st = "BLEND_IN" /\ L.bin # Never /\ L.bin >= L.t.blendIn
      THEN [L EXCEPT !.st = "REAL", !.drop = Never, !.bin = Never]
      ELSE L

Ticked(L) == FinishBlendIn(Escalate(NoticeSilence(L)))

-----------------------------------------------------------------------------
(* The hot path.  The hook is single-threaded per device.                  *)

\* ResolveSerialIfMissing writes serial_hash before it takes state_mutex_...
ResolveSerial(d) ==
    /\ serial[d] = "missing"
    /\ serial' = [serial EXCEPT ![d] = "found"]
    /\ UNCHANGED <<ladder, ipc, opted, role, pub>>

\* ...and copies what the caches hold for it under the mutex.
ApplyCaches(d) ==
    /\ serial[d] = "found"
    /\ serial' = [serial EXCEPT ![d] = "known"]
    /\ opted' = [opted EXCEPT ![d] = IF optIn[d] = "unset" THEN @ ELSE optIn[d] = "on"]
    /\ role' = [role EXCEPT ![d] = IF roleOf[d] = "unset" THEN @ ELSE roleOf[d]]
    /\ UNCHANGED <<ladder, ipc, pub>>

\* What PhantomModule::OnRealPoseObserved does to the ladder of d.
Fed(d, pose) ==
    Observed([ladder[d] EXCEPT !.t = timings, !.ik = role[d] # "none" /\ offset], pose)

\* What MaybeOverridePose publishes from ladder L: the given pose, a blend, a
\* synthesised pose, or nothing.  A blend keeps the result of its first
\* operand unless it is stamped; the dead reckoner may have no projection.
Published(L, d, pose) ==
    IF ~(master /\ opted[d]) THEN {pose}
    ELSE CASE L.st = "REAL"         -> {pose}
           [] L.st = "BLEND_OUT"    -> {"ok", pose}
           [] L.st = "BLEND_IN"     -> {IF pub[d] = "none" THEN pose ELSE pub[d]}
           [] L.st = "OUT_OF_RANGE" -> {"bad"}
           [] L.st = "LOST"         -> {pub[d]}
           [] OTHER                 -> {"ok"}

\* PhantomModule::OnRealPoseObserved; the property lookup may have failed.
Observe(d, pose) ==
    /\ serial[d] # "found"
    /\ ladder' = [ladder EXCEPT ![d] = Fed(d, pose)]
    /\ UNCHANGED <<ipc, opted, role, serial, pub>>

\* MaybeOverridePose for an outgoing pose.
MaybeOverridePose(d, pose) ==
    /\ serial[d] # "found"
    /\ ladder' = [ladder EXCEPT ![d] = Ticked(@)]
    /\ \E r \in Published(Ticked(ladder[d]), d, pose) : pub' = [pub EXCEPT ![d] = r]
    /\ UNCHANGED <<ipc, opted, role, serial>>

\* HandleDevicePoseUpdated: one time stamp for both calls.
Hook(d, pose) ==
    LET L == Ticked(Fed(d, pose))
    IN  /\ serial[d] # "found"
        /\ ladder' = [ladder EXCEPT ![d] = L]
        /\ \E r \in Published(L, d, pose) : pub' = [pub EXCEPT ![d] = r]
        /\ UNCHANGED <<ipc, opted, role, serial>>

-----------------------------------------------------------------------------
(* The IPC thread: HandleRequest.                                          *)

\* Mutant of OrDefault: a zero is taken as it is.
ZeroIsZero(c) == c

OrDefault(c) == [f \in Thresholds |-> IF c[f] = 0 THEN Defaults[f] ELSE c[f]]

\* RequestSetPhantomConfig stores timings_ without the mutex, field by field in
\* any order as far as the hot path can tell...
SetConfig(c) ==
    /\ setting = {}
    /\ setting' = {OrDefault(c)}
    /\ UNCHANGED <<ladder, timings, master, optIn, roleOf, opted, role, serial, offset, pub>>

StoreTiming(f) ==
    /\ \E t \in setting :
          timings[f] # t[f] /\ timings' = [timings EXCEPT ![f] = t[f]]
    /\ UNCHANGED <<ladder, master, setting, optIn, roleOf, opted, role, serial, offset, pub>>

\* ...then the master switch and every slot's timings.
FinishConfig ==
    /\ timings \in setting
    /\ ladder' = [d \in Devices |-> [ladder[d] EXCEPT !.t = timings]]
    /\ setting' = {}
    /\ master' \in BOOLEAN
    /\ UNCHANGED <<timings, optIn, roleOf, opted, role, serial, offset, pub>>

\* Mutant of SetOptIn: the cache is only written for a device not seen yet.
SetOptInSlotOnly(d, v) ==
    /\ setting = {}
    /\ optIn' = IF serial[d] = "missing" THEN [optIn EXCEPT ![d] = v] ELSE optIn
    /\ opted' = IF serial[d] = "missing" THEN opted ELSE [opted EXCEPT ![d] = v = "on"]
    /\ UNCHANGED <<ladder, timings, master, setting, roleOf, role, serial, offset, pub>>

\* RequestSetPhantomDeviceOptIn
SetOptIn(d, v) ==
    /\ setting = {}
    /\ optIn' = [optIn EXCEPT ![d] = v]
    /\ opted' = IF serial[d] = "missing" THEN opted ELSE [opted EXCEPT ![d] = v = "on"]
    /\ UNCHANGED <<ladder, timings, master, setting, roleOf, role, serial, offset, pub>>

\* RequestSetPhantomDeviceRole; None erases the cache entry.
SetRole(d, r) ==
    /\ setting = {}
    /\ roleOf' = [roleOf EXCEPT ![d] = IF r = "none" THEN "unset" ELSE r]
    /\ IF serial[d] = "missing" THEN UNCHANGED <<role, ladder>>
       ELSE /\ role' = [role EXCEPT ![d] = r]
            /\ ladder' = [ladder EXCEPT ![d].ik = r # "none" /\ offset]
    /\ UNCHANGED <<timings, master, setting, optIn, opted, serial, offset, pub>>

\* RequestSetPhantomTrackerOffset
SetOffset(calibrated) ==
    /\ setting = {}
    /\ offset' = calibrated
    /\ ladder' = [d \in Devices |-> [ladder[d] EXCEPT !.ik = role[d] # "none" /\ calibrated]]
    /\ UNCHANGED <<timings, master, setting, optIn, roleOf, opted, role, serial, pub>>

HandleRequest ==
    \/ \E c \in Configs : SetConfig(c)
    \/ \E f \in Thresholds : StoreTiming(f)
    \/ FinishConfig
    \/ \E d \in Devices, v \in {"on", "off"} : SetOptIn(d, v)
    \/ \E d \in Devices, r \in Roles : SetRole(d, r)
    \/ \E v \in BOOLEAN : SetOffset(v)

Older(a) == IF a \in {Never, Horizon} THEN a ELSE a + 1

Clock ==
    /\ ladder' = [d \in Devices |-> [ladder[d] EXCEPT !.since = Older(@), !.drop = Older(@),
                                                      !.bin = Older(@)]]
    /\ UNCHANGED <<ipc, opted, role, serial, pub>>

-----------------------------------------------------------------------------
Resolve == \E d \in Devices : ResolveSerial(d) \/ ApplyCaches(d)

Next ==
    \/ Clock \/ HandleRequest \/ Resolve
    \/ \E d \in Devices, pose \in Poses : Observe(d, pose) \/ MaybeOverridePose(d, pose)

HookNext ==
    \/ Clock \/ HandleRequest \/ Resolve
    \/ \E d \in Devices, pose \in Poses : Hook(d, pose)

Spec     == Init /\ [][Next]_vars
HookSpec == Init /\ [][HookNext]_vars

\* The hook runs when the upstream driver sends a pose; nothing forces it to.
FairHookSpec ==
    /\ HookSpec /\ WF_vars(Clock)
    /\ WF_vars(FinishConfig \/ \E f \in Thresholds : StoreTiming(f))
    /\ \A d \in Devices : WF_vars(ApplyCaches(d))

-----------------------------------------------------------------------------
\* The type invariant.
TypeOK ==
    /\ ladder \in [Devices -> [st : States, since : Ages, drop : Ages, bin : Ages,
                               ik : BOOLEAN, t : Timings]]
    /\ timings \in Timings /\ master \in BOOLEAN
    /\ setting \in SUBSET Timings
    /\ optIn \in [Devices -> {"unset", "on", "off"}]
    /\ roleOf \in [Devices -> Roles \cup {"unset"}]
    /\ opted \in [Devices -> BOOLEAN] /\ role \in [Devices -> Roles]
    /\ serial \in [Devices -> {"missing", "found", "known"}]
    /\ offset \in BOOLEAN
    /\ pub \in [Devices -> Poses \cup {"none"}]

\* A dropout is never dated after the last pose of the device, nor a blend
\* back after the pose that began it (DropoutState.cpp:84-90): however late
\* the tick that notices it, the ladder's clock has run since the signal
\* went away.
DropoutIsAnchored ==
    \A d \in Devices : LET L == ladder[d] IN
        /\ L.st \in Dropped => L.drop >= L.since /\ L.since # Never
        /\ L.st = "BLEND_IN" => L.bin >= L.since /\ L.since # Never

Deadline(t) == IF t.synth < t.lost THEN t.synth ELSE t.lost

\* test_frozen_tracker_invariant.cpp:9, as far as DropoutState keeps it: a
\* tick of a device that has been silent for min(synth_hold, lost_hold) does
\* not publish Running_OK, unless it finds the ladder blending back in.
SilentIsNotOk ==
    [][\A d \in Devices, pose \in Poses :
          LET L == ladder[d]
          IN  /\ MaybeOverridePose(d, pose) /\ master /\ opted[d]
              /\ L.since >= Silence /\ L.since >= Deadline(L.t)
              /\ L.st # "BLEND_IN"
              => \/ ladder'[d].st = "LOST" /\ pub'[d] = pub[d]
                 \/ ladder'[d].st = "OUT_OF_RANGE" /\ pub'[d] = "bad"]_vars

Rank == [s \in States |->
    CASE s = "REAL" -> 0 [] s = "BLEND_IN" -> 1 [] s = "BLEND_OUT" -> 2
      [] s = "SYNTH_RECKON" -> 3 [] s = "SYNTH_IK" -> 4 [] s = "OUT_OF_RANGE" -> 5
      [] s = "LOST" -> 6]

\* The ladder only climbs (PhantomTypes.h:10): whatever configuration arrives
\* in the middle of a dropout, nothing but a healthy pose leads down from a
\* rung, and then to BLEND_IN.
LadderOnlyClimbs ==
    [][\A d \in Devices :
          Rank[ladder'[d].st] < Rank[ladder[d].st] =>
             \/ ladder[d].st = "BLEND_IN" /\ ladder'[d].st = "REAL"
             \/ ladder'[d].st = "BLEND_IN" /\ Observe(d, "ok")]_vars

\* A slot whose serial is known has the opt-in the overlay last sent for that
\* serial, even if the request came while the slot was being resolved.
OptInReachesSlot ==
    \A d \in Devices : serial[d] = "known" /\ optIn[d] # "unset" => opted[d] = (optIn[d] = "on")

Frozen(d) ==
    LET L == ladder[d]
    IN  /\ master /\ opted[d] /\ pub[d] = "ok" /\ L.st # "LOST"
        /\ L.since >= Silence /\ L.since >= Deadline(L.t)

\* test_frozen_tracker_invariant.cpp:9-12, as a promise about what SteamVR is
\* left with: a tracker that has been silent for min(synth_hold, lost_hold)
\* does not stand there with a Running_OK pose for ever.
FrozenTrackerClears == \A d \in Devices : Frozen(d) ~> ~Frozen(d)

\* What the hook makes of the ladder: every tick follows an observation with
\* the same time stamp, so the silence it sees is zero and no device ever
\* leaves REAL.
LadderIsInert == \A d \in Devices : ladder[d].st = "REAL"
=============================================================================
