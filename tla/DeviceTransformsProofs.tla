----------------------- MODULE DeviceTransformsProofs -----------------------
(***************************************************************************)
(* Theorems about the calibration state of ServerTrackedDeviceProvider,    *)
(* for any devices, tracking systems, transforms and number of fallback    *)
(* entries.  History says what the two history variables remember; it is   *)
(* the strengthening EnabledFollowsOverlay needs.                          *)
(***************************************************************************)
EXTENDS DeviceTransforms, FiniteSetTheorems, TLAPS

\* The occupied entries of the fallback table are finitely many.
TableFinite == IsFiniteSet(DOMAIN systemFallbacks)

\* A disabled slot has no transform pending; what overtook a hook in a lookup is
\* remembered.
History ==
    \A d \in Devices :
        /\ ~enabled[d] => pushed[d] = None
        /\ enabled[d] /\ pc[d] = "lookup" => overlapped[d]
        /\ enabled[d] /\ fallbackActive[d] => overlapped[d]

-----------------------------------------------------------------------------
(* Types.                                                                  *)

\* A blend moves between transforms.
LEMMA BlendedType ==
    ASSUME NEW cur, NEW tgt \in Transforms \cup {Mid}
    PROVE  Blended(cur, tgt) \subseteq Transforms \cup {Mid}
  BY DEF Blended

\* The end of a lookup leaves a system name, or none, and a state.
LEMMA ResolvedType ==
    ASSUME TypeOK, NEW d \in Devices, NEW answer \in Systems \cup {None}
    PROVE  /\ Resolved(d, answer).sys \in Systems \cup {None}
           /\ Resolved(d, answer).st \in {"NotTried", "Cached", "Failed"}
           /\ Resolved(d, answer).sys = None => deviceSystem[d] = None
           /\ lookupState[d] = "Cached" => Resolved(d, answer).sys = deviceSystem[d]
  <1>0. deviceSystem[d] \in Systems \cup {None} /\ lookupState[d] \in {"NotTried", "Cached", "Failed"}
    BY DEF TypeOK
  <1>1. CASE lookupState[d] = "Cached"
    <2>1. Resolved(d, answer) = [sys |-> deviceSystem[d], st |-> "Cached"]
      BY <1>1 DEF Resolved
    <2> QED
      BY <1>0, <2>1
  <1>2. CASE lookupState[d] # "Cached" /\ answer # None
    <2>1. Resolved(d, answer) = [sys |-> answer, st |-> "Cached"]
      BY <1>2 DEF Resolved
    <2> QED
      BY <1>2, <2>1
  <1>3. CASE lookupState[d] # "Cached" /\ answer = None
    <2>1. Resolved(d, answer) = [sys |-> deviceSystem[d], st |-> "Failed"]
      BY <1>3 DEF Resolved
    <2> QED
      BY <1>0, <1>3, <2>1
  <1> QED
    BY <1>1, <1>2, <1>3

\* What the rest of the disabled branch may write.
LEMMA FallbackType ==
    ASSUME TypeOK, NEW d \in Devices, NEW sys \in Systems \cup {None}, Fallback(d, sys)
    PROVE  /\ target' \in [Devices -> Transforms \cup {Mid}]
           /\ current' \in [Devices -> Transforms \cup {Mid}]
           /\ fallbackActive' \in [Devices -> BOOLEAN]
           /\ phantomSaw' \in [Devices -> {"none", "visible", "hidden"}]
           /\ \A e \in Devices \ {d} : /\ target'[e] = target[e]
                                       /\ fallbackActive'[e] = fallbackActive[e]
           /\ \A e \in Devices : phantomSaw'[e] \in {phantomSaw[e], "visible"}
           /\ fallbackActive'[d] =>
                 \/ sys \in DOMAIN systemFallbacks /\ systemFallbacks[sys] # Off
                 \/ sys = None /\ fallbackActive[d]
  <1> DEFINE active == sys \in DOMAIN systemFallbacks /\ systemFallbacks[sys] # Off
             fb     == systemFallbacks[sys]
  <1>0. active => fb \in Transforms
    BY DEF TypeOK
  <1>1. phantomSaw' = phantomSaw \/ phantomSaw' = [phantomSaw EXCEPT ![d] = "visible"]
    BY DEF Fallback, ShowToPhantom
  <1>2. /\ phantomSaw' \in [Devices -> {"none", "visible", "hidden"}]
        /\ \A e \in Devices : phantomSaw'[e] \in {phantomSaw[e], "visible"}
    BY <1>1 DEF TypeOK
  <1>3. CASE /\ active
             /\ target' = [target EXCEPT ![d] = fb]
             /\ fallbackActive' = [fallbackActive EXCEPT ![d] = TRUE]
             /\ \E t \in IF fallbackActive[d] THEN Blended(current[d], fb) ELSE {fb} :
                   current' = [current EXCEPT ![d] = t]
    <2>1. \E t \in Transforms \cup {Mid} : current' = [current EXCEPT ![d] = t]
      BY <1>0, <1>3, BlendedType
    <2> QED
      BY <1>0, <1>2, <1>3, <2>1 DEF TypeOK
  <1>4. CASE /\ fallbackActive' = [fallbackActive EXCEPT ![d] = FALSE]
             /\ target' = [target EXCEPT ![d] = current[d]]
             /\ UNCHANGED current
    BY <1>2, <1>4 DEF TypeOK
  <1>5. CASE /\ sys = None \/ (~active /\ ~fallbackActive[d])
             /\ UNCHANGED <<target, current, fallbackActive>>
    BY <1>2, <1>5 DEF TypeOK
  <1> QED
    BY <1>3, <1>4, <1>5 DEF Fallback

\* EnableFallback takes a known name or a free entry: the table never grows
\* past its size.
LEMMA EnableFallbackTable ==
    ASSUME TypeOK, TableFinite, NEW sys \in Systems, NEW tf \in Transforms, EnableFallback(sys, tf)
    PROVE  /\ DOMAIN systemFallbacks' \subseteq Systems
           /\ \A s \in DOMAIN systemFallbacks' : systemFallbacks'[s] \in Transforms \cup {Off}
           /\ Cardinality(DOMAIN systemFallbacks') <= MaxFallbackSlots
           /\ IsFiniteSet(DOMAIN systemFallbacks')
           /\ \A s \in DOMAIN systemFallbacks :
                 s \in DOMAIN systemFallbacks' /\ (systemFallbacks[s] # Off => systemFallbacks'[s] # Off)
  <1> DEFINE D == DOMAIN systemFallbacks
  <1>1. CASE ~HasRoom(sys)
    BY <1>1 DEF EnableFallback, TypeOK, TableFinite
  <1>2. CASE HasRoom(sys)
    <2>1. systemFallbacks' = [s \in D \cup {sys} |-> IF s = sys THEN tf ELSE systemFallbacks[s]]
      BY <1>2 DEF EnableFallback
    <2>2. DOMAIN systemFallbacks' = D \cup {sys}
      BY <2>1
    <2>3. IsFiniteSet(D \cup {sys}) /\ Cardinality(D) \in Nat
          /\ Cardinality(D \cup {sys}) = IF sys \in D THEN Cardinality(D) ELSE Cardinality(D) + 1
      BY FS_AddElement, FS_CardinalityType DEF TableFinite
    <2>4. Cardinality(D \cup {sys}) <= MaxFallbackSlots
      BY <1>2, <2>3, SlotsAssumption DEF HasRoom, TypeOK
    <2>5. \A s \in D \cup {sys} : systemFallbacks'[s] \in Transforms \cup {Off}
                                  /\ (s \in D /\ systemFallbacks[s] # Off => systemFallbacks'[s] # Off)
      BY <2>1, TransformsAssumption DEF TypeOK
    <2> HIDE DEF D
    <2> QED
      BY <2>2, <2>3, <2>4, <2>5 DEF TypeOK, D
  <1> QED
    BY <1>1, <1>2

\* Every step keeps the types and the table finite, whatever the message, the
\* answer of the property query, and the order they come in.
LEMMA TypeStep == ASSUME TypeOK, TableFinite, [Next]_vars PROVE TypeOK' /\ TableFinite'
  <1> USE DEF slot, lookup, hist
  <1>1. ASSUME NEW d \in Devices, NEW en \in BOOLEAN, NEW lerp \in BOOLEAN,
               NEW sys \in Systems \cup {None}, NEW update \in Transforms \cup {None},
               NEW hide \in BOOLEAN \cup {None},
               SetDeviceTransform(d, en, sys, update, lerp, hide)
        PROVE  TypeOK' /\ TableFinite'
    <2> DEFINE tgt == IF update = None THEN target[d] ELSE update
               cur == IF update # None /\ ~lerp THEN update ELSE current[d]
    <2>1. tgt \in Transforms \cup {Mid} /\ cur \in Transforms \cup {Mid}
      BY DEF TypeOK
    <2>2. /\ target' \in [Devices -> Transforms \cup {Mid}]
          /\ current' \in [Devices -> Transforms \cup {Mid}]
      BY <1>1, <2>1 DEF SetDeviceTransform, TypeOK
    <2>3. /\ enabled' \in [Devices -> BOOLEAN] /\ fallbackActive' \in [Devices -> BOOLEAN]
          /\ deviceSystem' \in [Devices -> Systems \cup {None}]
          /\ lookupState' \in [Devices -> {"NotTried", "Cached", "Failed"}]
      BY <1>1 DEF SetDeviceTransform, TypeOK
    <2>4. quash' \in [Devices -> BOOLEAN]
      BY <1>1 DEF SetDeviceTransform, TypeOK
    <2>5. pushed' \in [Devices -> Transforms \cup {None}]
      BY <1>1 DEF SetDeviceTransform, TypeOK
    <2>6. overlapped' \in [Devices -> BOOLEAN]
      <3>1. (pc[d] = "lookup" \/ (overlapped[d] /\ update = None /\ en)) \in BOOLEAN
        OBVIOUS
      <3> QED
        BY <1>1, <3>1 DEF SetDeviceTransform, TypeOK
    <2> QED
      BY <1>1, <2>2, <2>3, <2>4, <2>5, <2>6 DEF SetDeviceTransform, TypeOK, TableFinite
  <1>2. ASSUME NEW sys \in Systems, NEW tf \in Transforms, EnableFallback(sys, tf)
        PROVE  TypeOK' /\ TableFinite'
    BY <1>2, EnableFallbackTable DEF EnableFallback, TypeOK, TableFinite
  <1>3. ASSUME NEW sys \in Systems, DisableFallback(sys) PROVE TypeOK' /\ TableFinite'
    <2>1. DOMAIN systemFallbacks' = DOMAIN systemFallbacks
      BY <1>3 DEF DisableFallback
    <2>2. \A s \in DOMAIN systemFallbacks' : systemFallbacks'[s] \in Transforms \cup {Off}
      BY <1>3 DEF DisableFallback, TypeOK
    <2>3. target' \in [Devices -> Transforms \cup {Mid}]
      BY <1>3 DEF DisableFallback, TypeOK
    <2>4. fallbackActive' \in [Devices -> BOOLEAN]
      BY <1>3 DEF DisableFallback
    <2> QED
      BY <1>3, <2>1, <2>2, <2>3, <2>4 DEF DisableFallback, TypeOK, TableFinite
  <1>4. ASSUME NEW d \in Devices, HookHidden(d) PROVE TypeOK' /\ TableFinite'
    <2>1. \E t \in Transforms \cup {Mid} : current' = [current EXCEPT ![d] = t]
      BY <1>4, BlendedType DEF HookHidden, TypeOK
    <2>2. pc' \in [Devices -> {"idle", "lookup", "serial"}]
      BY <1>4 DEF HookHidden, TypeOK
    <2>3. current' \in [Devices -> Transforms \cup {Mid}]
      BY <2>1 DEF TypeOK
    <2>4. prevQuash' \in [Devices -> BOOLEAN]
      BY <1>4 DEF HookHidden, TypeOK
    <2>5. UNCHANGED <<enabled, target, fallbackActive, quash, lookup, systemFallbacks, phantomSaw, hist>>
      BY <1>4 DEF HookHidden
    <2> QED
      BY <2>2, <2>3, <2>4, <2>5 DEF TypeOK, TableFinite
  <1>5. ASSUME NEW d \in Devices, HookHiddenEnd(d) PROVE TypeOK' /\ TableFinite'
    BY <1>5 DEF HookHiddenEnd, ShowToPhantom, TypeOK, TableFinite
  <1>6. ASSUME NEW d \in Devices, HookEnabled(d) PROVE TypeOK' /\ TableFinite'
    <2>1. \E t \in Transforms \cup {Mid} : current' = [current EXCEPT ![d] = t]
      BY <1>6, BlendedType DEF HookEnabled, TypeOK
    <2> QED
      BY <1>6, <2>1 DEF HookEnabled, ShowToPhantom, TypeOK, TableFinite
  <1>7. ASSUME NEW d \in Devices, HookDisabled(d) PROVE TypeOK' /\ TableFinite'
    <2>1. deviceSystem[d] \in Systems \cup {None} /\ Fallback(d, deviceSystem[d])
      BY <1>7 DEF HookDisabled, TypeOK
    <2>2. /\ target' \in [Devices -> Transforms \cup {Mid}]
          /\ current' \in [Devices -> Transforms \cup {Mid}]
          /\ fallbackActive' \in [Devices -> BOOLEAN]
          /\ phantomSaw' \in [Devices -> {"none", "visible", "hidden"}]
      BY <2>1, FallbackType
    <2> QED
      BY <1>7, <2>2 DEF HookDisabled, TypeOK, TableFinite
  <1>8. ASSUME NEW d \in Devices, HookLookup(d) PROVE TypeOK' /\ TableFinite'
    BY <1>8 DEF HookLookup, TypeOK, TableFinite
  <1>9. ASSUME NEW d \in Devices, NEW answer \in Systems \cup {None}, HookLookupEnd(d, answer)
        PROVE  TypeOK' /\ TableFinite'
    <2>1. /\ Resolved(d, answer).sys \in Systems \cup {None}
          /\ Resolved(d, answer).st \in {"NotTried", "Cached", "Failed"}
          /\ Fallback(d, Resolved(d, answer).sys)
      BY <1>9, ResolvedType DEF HookLookupEnd
    <2>2. /\ target' \in [Devices -> Transforms \cup {Mid}]
          /\ current' \in [Devices -> Transforms \cup {Mid}]
          /\ fallbackActive' \in [Devices -> BOOLEAN]
          /\ phantomSaw' \in [Devices -> {"none", "visible", "hidden"}]
      BY <2>1, FallbackType
    <2> QED
      BY <1>9, <2>1, <2>2 DEF HookLookupEnd, TypeOK, TableFinite
  <1>10. CASE UNCHANGED vars
    BY <1>10 DEF vars, TypeOK, TableFinite
  <1>11. CASE IpcThread
    BY <1>11, <1>1, <1>2, <1>3 DEF IpcThread
  <1>12. ASSUME NEW d \in Devices, HandleDevicePoseUpdated(d) PROVE TypeOK' /\ TableFinite'
    BY <1>12, <1>4, <1>5, <1>6, <1>7, <1>8, <1>9 DEF HandleDevicePoseUpdated
  <1> QED
    BY <1>10, <1>11, <1>12 DEF Next

\* The tables are empty at the start.
LEMMA TypeInit == Init => TypeOK /\ TableFinite
  <1> SUFFICES ASSUME Init PROVE TypeOK /\ TableFinite
    OBVIOUS
  <1>1. DOMAIN systemFallbacks = {}
    BY DEF Init
  <1>2. IsFiniteSet({}) /\ Cardinality({}) = 0
    BY FS_EmptySet
  <1> QED
    BY <1>1, <1>2, TransformsAssumption, SlotsAssumption DEF Init, TypeOK, TableFinite

\* Every slot, cache and entry has a value of its type in every reachable
\* state, and AcquireFallbackSlot never occupies more entries than there are.
THEOREM TypeCorrect == Spec => []TypeOK
  <1>1. TypeOK /\ TableFinite /\ [Next]_vars => TypeOK' /\ TableFinite'
    BY TypeStep
  <1> QED
    BY <1>1, TypeInit, PTL DEF Spec

-----------------------------------------------------------------------------
(* Followers of a fallback.                                                *)

\* A follower of an enabled fallback stays one, or stops following.
LEMMA FollowerStep ==
    ASSUME TypeOK, TableFinite, NoOrphanFollower, [Next]_vars
    PROVE  NoOrphanFollower'
  <1> USE DEF slot, lookup, hist
  <1>1. ASSUME NEW d \in Devices, NEW en \in BOOLEAN, NEW lerp \in BOOLEAN,
               NEW sys \in Systems \cup {None}, NEW update \in Transforms \cup {None},
               NEW hide \in BOOLEAN \cup {None},
               SetDeviceTransform(d, en, sys, update, lerp, hide)
        PROVE  NoOrphanFollower'
    <2>1. /\ fallbackActive' = [fallbackActive EXCEPT ![d] = FALSE]
          /\ deviceSystem' = [deviceSystem EXCEPT ![d] = sys]
          /\ UNCHANGED systemFallbacks
      BY <1>1 DEF SetDeviceTransform
    <2> QED
      BY <2>1 DEF NoOrphanFollower, TypeOK
  <1>2. ASSUME NEW sys \in Systems, NEW tf \in Transforms, EnableFallback(sys, tf)
        PROVE  NoOrphanFollower'
    <2>1. UNCHANGED <<fallbackActive, deviceSystem>>
      BY <1>2 DEF EnableFallback
    <2> QED
      BY <1>2, <2>1, EnableFallbackTable DEF NoOrphanFollower
  <1>3. ASSUME NEW sys \in Systems, DisableFallback(sys) PROVE NoOrphanFollower'
    <2>1. /\ fallbackActive' = [d \in Devices |-> fallbackActive[d] /\ d \notin Following(sys)]
          /\ systemFallbacks' = [s \in DOMAIN systemFallbacks |->
                                    IF s = sys THEN Off ELSE systemFallbacks[s]]
          /\ UNCHANGED deviceSystem
      BY <1>3 DEF DisableFallback
    <2>2. \A d \in Devices : fallbackActive'[d] => fallbackActive[d] /\ deviceSystem[d] # sys
      BY <2>1 DEF Following
    <2> QED
      BY <2>1, <2>2 DEF NoOrphanFollower
  <1>4. CASE UNCHANGED <<fallbackActive, deviceSystem, systemFallbacks>>
    BY <1>4 DEF NoOrphanFollower
  <1>5. ASSUME NEW d \in Devices, HookDisabled(d) PROVE NoOrphanFollower'
    <2>1. /\ deviceSystem[d] \in Systems \cup {None} /\ Fallback(d, deviceSystem[d])
          /\ UNCHANGED <<deviceSystem, systemFallbacks>>
      BY <1>5 DEF HookDisabled, TypeOK
    <2> QED
      BY <2>1, FallbackType DEF NoOrphanFollower
  <1>6. ASSUME NEW d \in Devices, NEW answer \in Systems \cup {None}, HookLookupEnd(d, answer)
        PROVE  NoOrphanFollower'
    <2> DEFINE sys == Resolved(d, answer).sys
    <2>1. /\ sys \in Systems \cup {None} /\ Fallback(d, sys)
          /\ sys = None => deviceSystem[d] = None
          /\ deviceSystem' = [deviceSystem EXCEPT ![d] = sys]
          /\ UNCHANGED systemFallbacks
      BY <1>6, ResolvedType DEF HookLookupEnd
    <2> HIDE DEF sys
    <2>2. /\ deviceSystem'[d] = sys
          /\ \A e \in Devices \ {d} : deviceSystem'[e] = deviceSystem[e]
      BY <2>1 DEF TypeOK
    <2>3. fallbackActive[d] => deviceSystem[d] # None
      BY TransformsAssumption DEF NoOrphanFollower, TypeOK
    <2> QED
      BY <2>1, <2>2, <2>3, FallbackType DEF NoOrphanFollower
  <1>7. CASE IpcThread
    BY <1>7, <1>1, <1>2, <1>3 DEF IpcThread
  <1>8. ASSUME NEW d \in Devices, HandleDevicePoseUpdated(d) PROVE NoOrphanFollower'
    <2>1. CASE HookHidden(d) \/ HookHiddenEnd(d) \/ HookEnabled(d) \/ HookLookup(d)
      BY <1>4, <2>1 DEF HookHidden, HookHiddenEnd, HookEnabled, HookLookup
    <2> QED
      BY <1>5, <1>6, <1>8, <2>1 DEF HandleDevicePoseUpdated
  <1>9. CASE UNCHANGED vars
    BY <1>4, <1>9 DEF vars
  <1> QED
    BY <1>7, <1>8, <1>9 DEF Next

\* A slot that follows a fallback always has an enabled one to follow: no
\* order of lookups, late answers and requests leaves a slot applying a
\* fallback SetTrackingSystemFallback has disabled.
THEOREM FollowersAreBacked == Spec => []NoOrphanFollower
  <1>1. TypeOK /\ TableFinite /\ NoOrphanFollower /\ [Next]_vars
        => TypeOK' /\ TableFinite' /\ NoOrphanFollower'
    BY TypeStep, FollowerStep
  <1>2. Init => NoOrphanFollower
    BY DEF Init, NoOrphanFollower
  <1> QED
    BY <1>1, <1>2, TypeInit, PTL DEF Spec

-----------------------------------------------------------------------------
(* The overlay against the hook.                                           *)

\* EnabledFollowsOverlay and History for one device.
Follows(d) ==
    /\ enabled[d] /\ pushed[d] # None /\ ~overlapped[d] => target[d] = pushed[d]
    /\ ~enabled[d] => pushed[d] = None
    /\ enabled[d] /\ pc[d] = "lookup" => overlapped[d]
    /\ enabled[d] /\ fallbackActive[d] => overlapped[d]

\* A request moves the target to what it sends, and is remembered as
\* overlapping when the hook of the device is in a lookup.
LEMMA FollowsRequest ==
    ASSUME TypeOK, NEW d \in Devices, NEW en \in BOOLEAN, NEW lerp \in BOOLEAN,
           NEW sys \in Systems \cup {None}, NEW update \in Transforms \cup {None},
           NEW hide \in BOOLEAN \cup {None},
           SetDeviceTransform(d, en, sys, update, lerp, hide), NEW e \in Devices, Follows(e)
    PROVE  Follows(e)'
  <1>1. CASE e # d
    <2>1. /\ enabled'[e] = enabled[e] /\ pushed'[e] = pushed[e] /\ overlapped'[e] = overlapped[e]
          /\ target'[e] = target[e] /\ pc'[e] = pc[e] /\ quash'[e] = quash[e]
          /\ fallbackActive'[e] = fallbackActive[e]
      BY <1>1 DEF SetDeviceTransform, TypeOK
    <2> QED
      BY <2>1 DEF Follows
  <1>2. CASE e = d
    <2>1. /\ enabled'[d] = en /\ pc'[d] = pc[d] /\ fallbackActive'[d] = FALSE
          /\ pushed'[d] = IF ~en THEN None ELSE IF update # None THEN update ELSE pushed[d]
      BY DEF SetDeviceTransform, TypeOK
    <2>2. overlapped'[d] = (pc[d] = "lookup" \/ (overlapped[d] /\ update = None /\ en))
      BY DEF SetDeviceTransform, TypeOK
    <2>3. en => target'[d] = IF update = None THEN target[d] ELSE update
      BY DEF SetDeviceTransform, TypeOK
    <2>4. pc[d] \in {"idle", "lookup", "serial"} /\ overlapped[d] \in BOOLEAN /\ enabled[d] \in BOOLEAN
      BY DEF TypeOK
    <2>5. ASSUME en, pushed'[d] # None, ~overlapped'[d] PROVE target'[d] = pushed'[d]
      BY <1>2, <2>1, <2>2, <2>3, <2>4, <2>5 DEF Follows
    <2> QED
      BY <1>2, <2>1, <2>2, <2>4, <2>5 DEF Follows
  <1> QED
    BY <1>1, <1>2

\* A hook that goes on after a lookup takes the fallback's transform only for
\* a device that is disabled, or whose overlay request it has overlapped.
LEMMA FollowsHook ==
    ASSUME TypeOK, NEW d \in Devices, HandleDevicePoseUpdated(d), NEW e \in Devices, Follows(e)
    PROVE  Follows(e)'
  <1> USE DEF slot, lookup, hist
  <1>1. UNCHANGED <<enabled, pushed, overlapped, quash>>
    BY DEF HandleDevicePoseUpdated, HookHidden, HookHiddenEnd, HookEnabled, HookDisabled,
           HookLookup, HookLookupEnd
  <1>2. CASE HookHidden(d)
    <2>1. UNCHANGED <<target, fallbackActive>> /\ quash[d]
          /\ (pc' = pc \/ pc' = [pc EXCEPT ![d] = "serial"])
      BY <1>2 DEF HookHidden
    <2>2. pc'[e] = pc[e] \/ (pc'[e] = "serial" /\ quash[e])
      BY <2>1 DEF TypeOK
    <2> QED
      BY <1>1, <2>1, <2>2 DEF Follows
  <1>3. CASE HookHiddenEnd(d)
    <2>1. UNCHANGED <<target, fallbackActive>> /\ pc' = [pc EXCEPT ![d] = "idle"]
      BY <1>3 DEF HookHiddenEnd
    <2>2. pc'[e] \in {pc[e], "idle"}
      BY <2>1 DEF TypeOK
    <2> QED
      BY <1>1, <2>1, <2>2 DEF Follows
  <1>4. CASE HookEnabled(d)
    BY <1>1, <1>4 DEF HookEnabled, Follows
  <1>5. CASE HookDisabled(d)
    <2>1. /\ deviceSystem[d] \in Systems \cup {None} /\ Fallback(d, deviceSystem[d])
          /\ ~enabled[d] /\ UNCHANGED pc
      BY <1>5 DEF HookDisabled, TypeOK
    <2>2. e = d \/ (target'[e] = target[e] /\ fallbackActive'[e] = fallbackActive[e])
      BY <2>1, FallbackType
    <2> QED
      BY <1>1, <2>1, <2>2 DEF Follows
  <1>6. CASE HookLookup(d)
    <2>1. /\ UNCHANGED <<target, fallbackActive>>
          /\ ~enabled[d] /\ pc' = [pc EXCEPT ![d] = "lookup"]
      BY <1>6 DEF HookLookup
    <2>2. pc'[e] = pc[e] \/ (pc'[e] = "lookup" /\ ~enabled[e])
      BY <2>1 DEF TypeOK
    <2> QED
      BY <1>1, <2>1, <2>2 DEF Follows
  <1>7. ASSUME NEW answer \in Systems \cup {None}, HookLookupEnd(d, answer) PROVE Follows(e)'
    <2>1. /\ Resolved(d, answer).sys \in Systems \cup {None}
          /\ Fallback(d, Resolved(d, answer).sys)
          /\ pc[d] = "lookup" /\ pc' = [pc EXCEPT ![d] = "idle"]
      BY <1>7, ResolvedType DEF HookLookupEnd
    <2>2. e = d \/ (target'[e] = target[e] /\ fallbackActive'[e] = fallbackActive[e])
      BY <2>1, FallbackType
    <2>3. pc'[e] \in {pc[e], "idle"}
      BY <2>1 DEF TypeOK
    <2> QED
      BY <1>1, <2>1, <2>2, <2>3 DEF Follows
  <1> QED
    BY <1>2, <1>3, <1>4, <1>5, <1>6, <1>7 DEF HandleDevicePoseUpdated

\* EnabledFollowsOverlay and History are inductive together.
LEMMA FollowsStep ==
    ASSUME TypeOK, \A e \in Devices : Follows(e), [Next]_vars
    PROVE  (\A e \in Devices : Follows(e))'
  <1> SUFFICES ASSUME NEW e \in Devices PROVE Follows(e)'
    OBVIOUS
  <1>1. ASSUME NEW sys \in Systems, NEW tf \in Transforms, EnableFallback(sys, tf)
        PROVE  Follows(e)'
    BY <1>1 DEF EnableFallback, Follows, slot, lookup, hist
  <1>2. ASSUME NEW sys \in Systems, DisableFallback(sys) PROVE Follows(e)'
    <2>1. /\ UNCHANGED <<enabled, quash, pc, pushed, overlapped>>
          /\ fallbackActive'[e] = (fallbackActive[e] /\ e \notin Following(sys))
          /\ target'[e] = target[e] \/ fallbackActive[e]
      BY <1>2 DEF DisableFallback, Following, hist
    <2> QED
      BY <2>1 DEF Follows
  <1>3. CASE IpcThread
    BY <1>1, <1>2, <1>3, FollowsRequest DEF IpcThread
  <1>4. ASSUME NEW d \in Devices, HandleDevicePoseUpdated(d) PROVE Follows(e)'
    BY <1>4, FollowsHook
  <1>5. CASE UNCHANGED vars
    BY <1>5 DEF vars, Follows, slot, lookup, hist
  <1> QED
    BY <1>3, <1>4, <1>5 DEF Next

\* A request touches neither the position of a hook nor phantom's history.
LEMMA RequestsLeaveHook == ASSUME IpcThread PROVE UNCHANGED <<pc, phantomSaw>>
  <1>1. ASSUME NEW d \in Devices, NEW en \in BOOLEAN, NEW lerp \in BOOLEAN,
               NEW sys \in Systems \cup {None}, NEW update \in Transforms \cup {None},
               NEW hide \in BOOLEAN \cup {None},
               SetDeviceTransform(d, en, sys, update, lerp, hide)
        PROVE  UNCHANGED <<pc, phantomSaw>>
    BY <1>1 DEF SetDeviceTransform
  <1>2. ASSUME NEW sys \in Systems, NEW tf \in Transforms, EnableFallback(sys, tf)
        PROVE  UNCHANGED <<pc, phantomSaw>>
    BY <1>2 DEF EnableFallback
  <1>3. ASSUME NEW sys \in Systems, DisableFallback(sys) PROVE UNCHANGED <<pc, phantomSaw>>
    BY <1>3 DEF DisableFallback
  <1> QED
    BY <1>1, <1>2, <1>3 DEF IpcThread

\* The invariant of the theorem below.
LEMMA HistoryHolds == Spec => [](EnabledFollowsOverlay /\ History)
  <1>1. EnabledFollowsOverlay /\ History <=> \A e \in Devices : Follows(e)
    BY DEF EnabledFollowsOverlay, History, Follows
  <1>2. Init => \A e \in Devices : Follows(e)
    BY DEF Init, Follows
  <1>3. TypeOK /\ (\A e \in Devices : Follows(e)) /\ [Next]_vars => (\A e \in Devices : Follows(e))'
    BY FollowsStep
  <1> QED
    BY <1>1, <1>2, <1>3, TypeCorrect, PTL DEF Spec

\* An enabled device is blended towards what the overlay last sent for it,
\* unless the request overlapped a lookup of its hook.
THEOREM OverlayIsFollowed == Spec => []EnabledFollowsOverlay
  BY HistoryHolds, PTL

\* No answer of the property query replaces a system name the overlay has
\* stored, however late it comes.
THEOREM NameWins == Spec => OverlayNameWins
  <1>1. TypeOK /\ [Next]_vars
        => [\A d \in Devices : lookupState[d] = "Cached" /\ deviceSystem'[d] # deviceSystem[d]
                               => pc'[d] = pc[d]]_vars
    <2> SUFFICES ASSUME TypeOK, Next, NEW d \in Devices, lookupState[d] = "Cached",
                        deviceSystem'[d] # deviceSystem[d]
                 PROVE  pc'[d] = pc[d]
      OBVIOUS
    <2> USE DEF slot, lookup, hist
    <2>1. CASE IpcThread
      BY <2>1, RequestsLeaveHook
    <2>2. ASSUME NEW e \in Devices, HandleDevicePoseUpdated(e) PROVE pc'[d] = pc[d]
      <3>1. PICK answer \in Systems \cup {None} : HookLookupEnd(e, answer)
        BY <2>2 DEF HandleDevicePoseUpdated, HookHidden, HookHiddenEnd, HookEnabled,
                    HookDisabled, HookLookup
      <3>2. /\ deviceSystem' = [deviceSystem EXCEPT ![e] = Resolved(e, answer).sys]
            /\ pc' = [pc EXCEPT ![e] = "idle"]
        BY <3>1 DEF HookLookupEnd
      <3>3. e # d
        BY <3>2, ResolvedType DEF TypeOK
      <3> QED
        BY <3>2, <3>3 DEF TypeOK
    <2> QED
      BY <2>1, <2>2 DEF Next
  <1> QED
    BY <1>1, TypeCorrect, PTL DEF Spec, OverlayNameWins
=============================================================================
