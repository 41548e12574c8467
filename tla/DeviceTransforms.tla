-------------------------- MODULE DeviceTransforms --------------------------
(***************************************************************************)
(* The calibration state of ServerTrackedDeviceProvider: one transform     *)
(* slot per device and a small table of per-tracking-system fallbacks.     *)
(* The IPC thread writes them (SetDeviceTransform,                         *)
(* SetTrackingSystemFallback); the pose hook of each device reads and      *)
(* updates them (HandleDevicePoseUpdated).  stateMutex makes each of these *)
(* one step, except where the hook releases it around a property query:    *)
(* the lookup of the tracking system's name and, when a device becomes     *)
(* hidden, of its serial number.                                           *)
(*                                                                         *)
(* A transform stands for translation and rotation, which a request        *)
(* updates together or not at all; Mid is one that BlendTransform has      *)
(* moved part of the way.  Smoothing, which the same hook performs,        *)
(* touches none of this state; the head-mount synthesis does so only where *)
(* it blends the transform of a hidden tracker (DriverSynth models it).    *)
(***************************************************************************)
EXTENDS Naturals, FiniteSets

CONSTANTS
    Devices, Systems, Transforms,
    Identity,          \* the value a slot starts with, a member of Transforms
    Mid, None, Off,
    MaxFallbackSlots

ASSUME TransformsAssumption ==
    Identity \in Transforms /\ {Mid, None, Off} \cap Transforms = {} /\ None \notin Systems
ASSUME SlotsAssumption == MaxFallbackSlots \in Nat

VARIABLES
    enabled, target, current,   \* DeviceTransform: enabled, targetTransform, transform
    fallbackActive, quash, prevQuash,
    deviceSystem, lookupState,
    systemFallbacks,            \* occupied entries: system -> transform, or Off
    pc,                         \* where the hook of a device has released stateMutex
    phantomSaw,                 \* the pose last recorded by the phantom pipeline
    pushed,                     \* history: the target the overlay last sent for an enabled slot
    overlapped                  \* history: was that sent inside a lookup of the system's name?

slot   == <<enabled, target, current, fallbackActive, quash, prevQuash>>
lookup == <<deviceSystem, lookupState>>
hist   == <<pushed, overlapped>>
vars   == <<slot, lookup, systemFallbacks, pc, phantomSaw, hist>>

Init ==
    /\ enabled = [d \in Devices |-> FALSE]
    /\ target = [d \in Devices |-> Identity] /\ current = [d \in Devices |-> Identity]
    /\ fallbackActive = [d \in Devices |-> FALSE]
    /\ quash = [d \in Devices |-> FALSE] /\ prevQuash = [d \in Devices |-> FALSE]
    /\ deviceSystem = [d \in Devices |-> None]
    /\ lookupState = [d \in Devices |-> "NotTried"]
    /\ systemFallbacks = << >>
    /\ pc = [d \in Devices |-> "idle"]
    /\ phantomSaw = [d \in Devices |-> "none"]
    /\ pushed = [d \in Devices |-> None] /\ overlapped = [d \in Devices |-> FALSE]

-----------------------------------------------------------------------------
(* The IPC thread.                                                         *)

\* The system name in the message may be empty.  Only what the message
\* updates is written; enabling snaps to the target, disabling drops it.
SetDeviceTransform(d, en, sys, update, lerp, hide) ==
    LET tgt == IF update = None THEN target[d] ELSE update
        cur == IF update # None /\ ~lerp THEN update ELSE current[d]
    IN  /\ enabled' = [enabled EXCEPT ![d] = en]
        /\ deviceSystem' = [deviceSystem EXCEPT ![d] = sys]
        /\ lookupState' = [lookupState EXCEPT ![d] = IF sys = None THEN "NotTried" ELSE "Cached"]
        /\ fallbackActive' = [fallbackActive EXCEPT ![d] = FALSE]
        /\ target' = [target EXCEPT ![d] = IF enabled[d] /\ ~en THEN cur ELSE tgt]
        /\ current' = [current EXCEPT ![d] = IF ~enabled[d] /\ en THEN tgt ELSE cur]
        /\ quash' = [quash EXCEPT ![d] = IF hide = None THEN @ ELSE hide]
        /\ pushed' = [pushed EXCEPT ![d] = IF ~en THEN None
                                           ELSE IF update # None THEN update ELSE @]
        /\ overlapped' = [overlapped EXCEPT ![d] = pc[d] = "lookup" \/ (@ /\ update = None /\ en)]
        /\ UNCHANGED <<prevQuash, systemFallbacks, pc, phantomSaw>>

\* Mutant of HasRoom: one entry too many.
HasRoomOffByOne(sys) ==
    sys \in DOMAIN systemFallbacks \/ Cardinality(DOMAIN systemFallbacks) <= MaxFallbackSlots

\* AcquireFallbackSlot: a known name, or a free entry.
HasRoom(sys) ==
    sys \in DOMAIN systemFallbacks \/ Cardinality(DOMAIN systemFallbacks) < MaxFallbackSlots

EnableFallback(sys, tf) ==
    /\ systemFallbacks' = IF HasRoom(sys)
                            THEN [s \in DOMAIN systemFallbacks \cup {sys} |->
                                     IF s = sys THEN tf ELSE systemFallbacks[s]]
                            ELSE systemFallbacks
    /\ UNCHANGED <<slot, lookup, pc, phantomSaw, hist>>

\* Mutant of Following: only slots without a transform of their own are dropped.
FollowingDisabled(sys) == {d \in Devices : fallbackActive[d] /\ ~enabled[d] /\ deviceSystem[d] = sys}

\* Mutant of Following: every device of the system is dropped.
FollowingBySystem(sys) == {d \in Devices : deviceSystem[d] = sys}

Following(sys) == {d \in Devices : fallbackActive[d] /\ deviceSystem[d] = sys}

\* Disabling drops every slot that follows the fallback.
DisableFallback(sys) ==
    /\ systemFallbacks' = [s \in DOMAIN systemFallbacks |->
                              IF s = sys THEN Off ELSE systemFallbacks[s]]
    /\ fallbackActive' = [d \in Devices |-> fallbackActive[d] /\ d \notin Following(sys)]
    /\ target' = [d \in Devices |-> IF d \in Following(sys) THEN current[d] ELSE target[d]]
    /\ UNCHANGED <<enabled, current, quash, prevQuash, lookup, pc, phantomSaw, hist>>

-----------------------------------------------------------------------------
(* The pose hook.                                                          *)

\* BlendTransform: part of the way to the target, or all of it.
Blended(cur, tgt) == IF cur = tgt THEN {tgt} ELSE {Mid, tgt}

\* The end of the hook: devices that are not hidden go through phantom.
ShowToPhantom(d, pose) ==
    phantomSaw' = IF quash[d] THEN phantomSaw ELSE [phantomSaw EXCEPT ![d] = pose]

\* A hidden device that is the head-mounted tracker still has its transform
\* blended, for the synthesis of the headset's pose.
HookHidden(d) ==
    /\ pc[d] = "idle" /\ quash[d]
    /\ prevQuash' = [prevQuash EXCEPT ![d] = TRUE]
    /\ \E t \in {current[d]} \cup (IF enabled[d] THEN Blended(current[d], target[d]) ELSE {}) :
          current' = [current EXCEPT ![d] = t]
    /\ IF prevQuash[d] THEN UNCHANGED pc ELSE pc' = [pc EXCEPT ![d] = "serial"]
    /\ UNCHANGED <<enabled, target, fallbackActive, quash, lookup, systemFallbacks, phantomSaw,
                   hist>>

\* The serial number has been logged; quash is read again, so the moved pose of a
\* device that was un-hidden in between is recorded.
HookHiddenEnd(d) ==
    /\ pc[d] = "serial"
    /\ pc' = [pc EXCEPT ![d] = "idle"]
    /\ ShowToPhantom(d, "hidden")
    /\ UNCHANGED <<slot, lookup, systemFallbacks, hist>>

HookEnabled(d) ==
    /\ pc[d] = "idle" /\ ~quash[d] /\ enabled[d]
    /\ prevQuash' = [prevQuash EXCEPT ![d] = FALSE]
    /\ \E t \in Blended(current[d], target[d]) : current' = [current EXCEPT ![d] = t]
    /\ ShowToPhantom(d, "visible")
    /\ UNCHANGED <<enabled, target, fallbackActive, quash, lookup, systemFallbacks, pc, hist>>

\* The rest of the disabled branch, once the system of d is sys: follow its
\* fallback, stop following one that is gone, or leave the pose alone.
Fallback(d, sys) ==
    LET active == sys \in DOMAIN systemFallbacks /\ systemFallbacks[sys] # Off
        fb     == systemFallbacks[sys]
    IN  /\ \/ /\ sys # None /\ active
              /\ target' = [target EXCEPT ![d] = fb]
              /\ fallbackActive' = [fallbackActive EXCEPT ![d] = TRUE]
              /\ \E t \in IF fallbackActive[d] THEN Blended(current[d], fb) ELSE {fb} :
                    current' = [current EXCEPT ![d] = t]
           \/ /\ sys # None /\ ~active /\ fallbackActive[d]
              /\ fallbackActive' = [fallbackActive EXCEPT ![d] = FALSE]
              /\ target' = [target EXCEPT ![d] = current[d]]
              /\ UNCHANGED current
           \/ /\ sys = None \/ (~active /\ ~fallbackActive[d])
              /\ UNCHANGED <<target, current, fallbackActive>>
        /\ IF sys = None THEN UNCHANGED phantomSaw   \* returns before the phantom pipeline
           ELSE ShowToPhantom(d, "visible")

\* No query is needed, or the last one failed less than a second ago.
HookDisabled(d) ==
    /\ pc[d] = "idle" /\ ~quash[d] /\ ~enabled[d]
    /\ deviceSystem[d] # None \/ lookupState[d] # "NotTried"
    /\ prevQuash' = [prevQuash EXCEPT ![d] = FALSE]
    /\ Fallback(d, deviceSystem[d])
    /\ UNCHANGED <<enabled, quash, lookup, systemFallbacks, pc, hist>>

\* Ask SteamVR for the system's name, with stateMutex released.
HookLookup(d) ==
    /\ pc[d] = "idle" /\ ~quash[d] /\ ~enabled[d]
    /\ deviceSystem[d] = None /\ lookupState[d] # "Cached"
    /\ prevQuash' = [prevQuash EXCEPT ![d] = FALSE]
    /\ pc' = [pc EXCEPT ![d] = "lookup"]
    /\ UNCHANGED <<enabled, target, current, fallbackActive, quash, lookup, systemFallbacks,
                   phantomSaw, hist>>

\* Mutant of Resolved: no race check.
ResolvedUnchecked(d, answer) ==
    IF answer # None THEN [sys |-> answer, st |-> "Cached"]
    ELSE [sys |-> deviceSystem[d], st |-> "Failed"]

\* After the mutex is taken again: a name the IPC thread has stored wins.
Resolved(d, answer) ==
    IF lookupState[d] = "Cached" THEN [sys |-> deviceSystem[d], st |-> "Cached"]
    ELSE IF answer # None THEN [sys |-> answer, st |-> "Cached"]
    ELSE [sys |-> deviceSystem[d], st |-> "Failed"]

\* The rest of the hook does not look at tf.enabled again.
HookLookupEnd(d, answer) ==
    LET r == Resolved(d, answer)
    IN  /\ pc[d] = "lookup"
        /\ pc' = [pc EXCEPT ![d] = "idle"]
        /\ deviceSystem' = [deviceSystem EXCEPT ![d] = r.sys]
        /\ lookupState' = [lookupState EXCEPT ![d] = r.st]
        /\ Fallback(d, r.sys)
        /\ UNCHANGED <<enabled, quash, prevQuash, systemFallbacks, hist>>

-----------------------------------------------------------------------------
IpcThread ==
    \/ \E d \in Devices, en, lerp \in BOOLEAN, sys \in Systems \cup {None},
          update \in Transforms \cup {None}, hide \in BOOLEAN \cup {None} :
             SetDeviceTransform(d, en, sys, update, lerp, hide)
    \/ \E sys \in Systems, tf \in Transforms : EnableFallback(sys, tf)
    \/ \E sys \in Systems : DisableFallback(sys)

HandleDevicePoseUpdated(d) ==
    \/ HookHidden(d) \/ HookHiddenEnd(d) \/ HookEnabled(d) \/ HookDisabled(d) \/ HookLookup(d)
    \/ \E answer \in Systems \cup {None} : HookLookupEnd(d, answer)

Next == IpcThread \/ \E d \in Devices : HandleDevicePoseUpdated(d)
Spec == Init /\ [][Next]_vars

-----------------------------------------------------------------------------
\* The type invariant; the fallback table never holds more than its entries.
TypeOK ==
    /\ enabled \in [Devices -> BOOLEAN] /\ fallbackActive \in [Devices -> BOOLEAN]
    /\ target \in [Devices -> Transforms \cup {Mid}]
    /\ current \in [Devices -> Transforms \cup {Mid}]
    /\ quash \in [Devices -> BOOLEAN] /\ prevQuash \in [Devices -> BOOLEAN]
    /\ deviceSystem \in [Devices -> Systems \cup {None}]
    /\ lookupState \in [Devices -> {"NotTried", "Cached", "Failed"}]
    /\ DOMAIN systemFallbacks \subseteq Systems
    /\ \A s \in DOMAIN systemFallbacks : systemFallbacks[s] \in Transforms \cup {Off}
    /\ Cardinality(DOMAIN systemFallbacks) <= MaxFallbackSlots
    /\ pc \in [Devices -> {"idle", "lookup", "serial"}]
    /\ phantomSaw \in [Devices -> {"none", "visible", "hidden"}]
    /\ pushed \in [Devices -> Transforms \cup {None}] /\ overlapped \in [Devices -> BOOLEAN]

\* A slot that follows a fallback knows its system, and that system has an
\* enabled fallback: disabling one leaves no slot applying it (the comment at
\* SetTrackingSystemFallback), in whatever order lookups and requests come.
NoOrphanFollower ==
    \A d \in Devices : fallbackActive[d] =>
        /\ deviceSystem[d] \in DOMAIN systemFallbacks
        /\ systemFallbacks[deviceSystem[d]] # Off

\* An enabled device is blended towards the transform the overlay last sent
\* for it, unless that request came while its hook was in a lookup of the
\* system's name: the hook then goes on as for a disabled device and takes the
\* fallback's transform, although its comment calls transforms[] untouched.
EnabledFollowsOverlay ==
    \A d \in Devices :
        enabled[d] /\ pushed[d] # None /\ ~overlapped[d] => target[d] = pushed[d]

\* The system name the overlay sent is replaced by no answer of the property
\* query, however late it comes.
OverlayNameWins ==
    [][\A d \in Devices : lookupState[d] = "Cached" /\ deviceSystem'[d] # deviceSystem[d]
                          => pc'[d] = pc[d]]_vars
=============================================================================
