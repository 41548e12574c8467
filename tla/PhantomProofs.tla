--------------------------- MODULE PhantomProofs ---------------------------
(***************************************************************************)
(* Theorems about the phantom module, for any set of devices and any       *)
(* thresholds.  The lemmas follow the three parts of DropoutState::Tick,   *)
(* as functions on one ladder; the theorems lift them to the actions.      *)
(***************************************************************************)
EXTENDS Phantom, TLAPS

Ladder == [st : States, since : Ages, drop : Ages, bin : Ages, ik : BOOLEAN, t : Timings]

\* DropoutIsAnchored for one ladder.
Anchored(L) ==
    /\ L.st \in Dropped => L.drop >= L.since /\ L.since # Never
    /\ L.st = "BLEND_IN" => L.bin >= L.since /\ L.since # Never

\* A ladder takes no step down, except the end of the blend.
Climbs(L, M) ==
    Rank[M.st] < Rank[L.st] => L.st = "BLEND_IN" /\ M.st = "REAL"

-----------------------------------------------------------------------------
(* The operations of DropoutState.                                         *)

\* What the steps on ages use.
LEMMA AgesFacts ==
    /\ 0 \in Ages /\ Never \in Ages
    /\ \A a \in Ages : a \in Int /\ a <= Horizon /\ a >= Never
  BY ThresholdsInRange DEF Ages, Never

\* OnRealPoseObserved keeps the type and the anchoring.
LEMMA ObservedKeeps ==
    ASSUME NEW L \in Ladder, NEW pose \in Poses
    PROVE  /\ Observed(L, pose) \in Ladder
           /\ Anchored(L) => Anchored(Observed(L, pose))
  <1> DEFINE M == Observed(L, pose)
  <1>1. CASE pose = "ok" /\ L.st \in Dropped
    <2>1. M = [L EXCEPT !.since = 0, !.st = "BLEND_IN", !.bin = 0]
      BY <1>1 DEF Observed
    <2>2. M \in Ladder
      BY <2>1, AgesFacts DEF Ladder, States
    <2>3. M.since = 0 /\ M.st = "BLEND_IN" /\ M.bin = 0
      BY <2>1 DEF Ladder
    <2> QED
      BY <2>2, <2>3 DEF Anchored, Dropped, Never
  <1>2. CASE ~(pose = "ok" /\ L.st \in Dropped)
    <2>1. M = [L EXCEPT !.since = 0]
      BY <1>2 DEF Observed
    <2>2. M \in Ladder
      BY <2>1, AgesFacts DEF Ladder
    <2>3. M.since = 0 /\ M.st = L.st /\ M.bin = L.bin /\ M.drop = L.drop
      BY <2>1 DEF Ladder
    <2>4. \A a \in Ages, b \in Ages : a >= b /\ b # Never => a >= 0
      BY ThresholdsInRange DEF Ages, Never
    <2>5. L.since \in Ages /\ L.drop \in Ages /\ L.bin \in Ages
      BY DEF Ladder
    <2> QED
      BY <2>2, <2>3, <2>4, <2>5 DEF Anchored, Never
  <1> QED
    BY <1>1, <1>2

\* The first part of Tick.
LEMMA NoticeSilenceKeeps ==
    ASSUME NEW L \in Ladder
    PROVE  /\ NoticeSilence(L) \in Ladder
           /\ Anchored(L) => Anchored(NoticeSilence(L))
  <1> DEFINE M == NoticeSilence(L)
  <1>1. CASE L.st = "REAL" /\ L.since # Never /\ L.since >= Silence
    <2>1. M = [L EXCEPT !.st = "BLEND_OUT", !.drop = L.since]
      BY <1>1 DEF NoticeSilence
    <2>2. M \in Ladder
      BY <2>1 DEF Ladder, States, Dropped
    <2>3. M.st = "BLEND_OUT" /\ M.drop = L.since /\ M.since = L.since
      BY <2>1 DEF Ladder
    <2>4. L.since \in Int
      BY AgesFacts DEF Ladder
    <2> QED
      BY <1>1, <2>2, <2>3, <2>4 DEF Anchored
  <1>2. CASE ~(L.st = "REAL" /\ L.since # Never /\ L.since >= Silence)
    BY <1>2 DEF NoticeSilence
  <1> QED
    BY <1>1, <1>2

\* The second part of Tick: it stays among the dropped states.
LEMMA EscalateKeeps ==
    ASSUME NEW L \in Ladder
    PROVE  /\ Escalate(L) \in Ladder
           /\ Anchored(L) => Anchored(Escalate(L))
  BY ThresholdsInRange DEF Escalate, Ladder, Anchored, States, Dropped

\* The third part of Tick.
LEMMA FinishBlendInKeeps ==
    ASSUME NEW L \in Ladder
    PROVE  /\ FinishBlendIn(L) \in Ladder
           /\ Anchored(L) => Anchored(FinishBlendIn(L))
  BY ThresholdsInRange DEF FinishBlendIn, Ladder, Anchored, States, Dropped, Ages, Never

\* Tick as a whole.
LEMMA TickedKeeps ==
    ASSUME NEW L \in Ladder
    PROVE  /\ Ticked(L) \in Ladder
           /\ Anchored(L) => Anchored(Ticked(L))
  BY NoticeSilenceKeeps, EscalateKeeps, FinishBlendInKeeps DEF Ticked

\* A device heard at the time stamp of the tick stays where it is: this is
\* what the order of the two calls in HandleDevicePoseUpdated amounts to.
LEMMA FreshTickIsInert ==
    ASSUME NEW L \in Ladder, NEW pose \in Poses, L.st = "REAL"
    PROVE  Ticked(Observed(L, pose)).st = "REAL"
  <1>1. Observed(L, pose) = [L EXCEPT !.since = 0]
    BY DEF Observed, Dropped
  <1>2. NoticeSilence(Observed(L, pose)) = Observed(L, pose)
    BY <1>1, ThresholdsInRange DEF NoticeSilence, Ladder
  <1>3. Observed(L, pose).st = "REAL"
    BY <1>1 DEF Ladder
  <1>4. Escalate(Observed(L, pose)) = Observed(L, pose)
    BY <1>3 DEF Escalate, Dropped
  <1> QED
    BY <1>2, <1>3, <1>4 DEF Ticked, FinishBlendIn

\* The configuration that SetPhantomConfig stores has a positive value for
\* each threshold, whatever the request leaves at zero.
LEMMA OrDefaultType == ASSUME NEW c \in Configs PROVE OrDefault(c) \in Timings
  <1>1. c \in [Thresholds -> 0 .. Horizon]
    BY ThresholdsInRange
  <1>2. \A f \in Thresholds :
           (IF c[f] = 0 THEN Defaults[f] ELSE c[f]) \in 1 .. Horizon
    BY <1>1, ThresholdsInRange DEF Timings
  <1> QED
    BY <1>2 DEF OrDefault, Timings

\* The ages of a ladder one unit later.
LEMMA OlderKeeps ==
    ASSUME NEW L \in Ladder
    PROVE  LET M == [L EXCEPT !.since = Older(@), !.drop = Older(@), !.bin = Older(@)]
           IN  M \in Ladder /\ M.st = L.st /\ (Anchored(L) => Anchored(M))
  <1> DEFINE M == [L EXCEPT !.since = Older(@), !.drop = Older(@), !.bin = Older(@)]
  <1>1. \A a \in Ages : Older(a) \in Ages /\ (a # Never => Older(a) # Never)
    BY ThresholdsInRange DEF Older, Ages, Never
  <1>2. \A a, b \in Ages : a >= b /\ b # Never => Older(a) >= Older(b)
    BY ThresholdsInRange DEF Older, Ages, Never
  <1>3. L.since \in Ages /\ L.drop \in Ages /\ L.bin \in Ages
    BY DEF Ladder
  <1>4. M \in Ladder
    BY <1>1, <1>3 DEF Ladder
  <1>5. /\ M.since = Older(L.since) /\ M.drop = Older(L.drop) /\ M.bin = Older(L.bin)
        /\ M.st = L.st
    BY DEF Ladder
  <1> QED
    BY <1>1, <1>2, <1>3, <1>4, <1>5 DEF Anchored

\* Other timings, or another IK flag, change neither rung nor ages.
LEMMA ConfiguredKeeps ==
    ASSUME NEW L \in Ladder, NEW t \in Timings, NEW b \in BOOLEAN
    PROVE  /\ [L EXCEPT !.t = t] \in Ladder /\ [L EXCEPT !.t = t].st = L.st
           /\ [L EXCEPT !.ik = b] \in Ladder /\ [L EXCEPT !.ik = b].st = L.st
           /\ [L EXCEPT !.t = t, !.ik = b] \in Ladder /\ [L EXCEPT !.t = t, !.ik = b].st = L.st
           /\ Anchored(L) => /\ Anchored([L EXCEPT !.t = t]) /\ Anchored([L EXCEPT !.ik = b])
                             /\ Anchored([L EXCEPT !.t = t, !.ik = b])
  BY DEF Ladder, Anchored

-----------------------------------------------------------------------------
(* The type invariant.                                                     *)

\* What the hot path does to the ladder it feeds.
LEMMA FedKeeps ==
    ASSUME TypeOK, NEW d \in Devices, NEW pose \in Poses
    PROVE  /\ Fed(d, pose) \in Ladder
           /\ Anchored(ladder[d]) => Anchored(Fed(d, pose))
           /\ ladder[d].st = "REAL" => Fed(d, pose).st = "REAL" /\ Ticked(Fed(d, pose)).st = "REAL"
  <1> DEFINE b == role[d] # "none" /\ offset
             L == [ladder[d] EXCEPT !.t = timings, !.ik = b]
  <1>1. ladder[d] \in Ladder /\ timings \in Timings /\ b \in BOOLEAN
    BY DEF TypeOK, Ladder
  <1>2. L \in Ladder /\ L.st = ladder[d].st /\ (Anchored(ladder[d]) => Anchored(L))
    BY <1>1, ConfiguredKeeps
  <1>3. Fed(d, pose) = Observed(L, pose)
    BY DEF Fed
  <1> HIDE DEF L
  <1>4. L.st = "REAL" => Observed(L, pose).st = "REAL"
    BY <1>2 DEF Observed, Dropped, Ladder
  <1> QED
    BY <1>2, <1>3, <1>4, ObservedKeeps, FreshTickIsInert

\* What reaches SteamVR is a pose, or nothing was sent before.
LEMMA PublishedType ==
    ASSUME TypeOK, NEW L \in Ladder, NEW d \in Devices, NEW pose \in Poses
    PROVE  Published(L, d, pose) \subseteq Poses \cup {"none"}
  BY DEF Published, TypeOK, Poses, Ladder, States, Dropped

\* The steps Spec and HookSpec share: time, the requests, the serial lookup.
\* They move no device to another rung.
LEMMA SharedStep ==
    ASSUME TypeOK, Clock \/ HandleRequest \/ Resolve
    PROVE  /\ TypeOK'
           /\ \A d \in Devices : /\ ladder'[d].st = ladder[d].st
                                 /\ Anchored(ladder[d]) => Anchored(ladder'[d])
  <1> USE DEF ipc
  <1>0. ladder \in [Devices -> Ladder] /\ \A d \in Devices : ladder[d] \in Ladder
    BY DEF TypeOK, Ladder
  <1>1. SUFFICES
           /\ TypeOK'
           /\ ladder' = ladder \/ \A d \in Devices : /\ ladder'[d].st = ladder[d].st
                                                     /\ Anchored(ladder[d]) => Anchored(ladder'[d])
    OBVIOUS
  <1>2. CASE Clock
    <2> DEFINE M(d) == [ladder[d] EXCEPT !.since = Older(@), !.drop = Older(@), !.bin = Older(@)]
    <2>1. ladder' = [d \in Devices |-> M(d)]
      BY <1>2 DEF Clock
    <2>2. \A d \in Devices : M(d) \in Ladder /\ M(d).st = ladder[d].st
                            /\ (Anchored(ladder[d]) => Anchored(M(d)))
      BY <1>0, OlderKeeps
    <2> HIDE DEF M
    <2>3. ladder' \in [Devices -> Ladder]
      BY <2>1, <2>2
    <2>4. TypeOK'
      BY <1>2, <2>3 DEF Clock, TypeOK, Ladder
    <2> QED
      BY <2>1, <2>2, <2>4
  <1>3. ASSUME NEW c \in Configs, SetConfig(c) PROVE TypeOK' /\ ladder' = ladder
    BY <1>3, OrDefaultType DEF SetConfig, TypeOK
  <1>12. ASSUME NEW f \in Thresholds, StoreTiming(f) PROVE TypeOK' /\ ladder' = ladder
    <2>1. PICK t \in setting : timings' = [timings EXCEPT ![f] = t[f]]
      BY <1>12 DEF StoreTiming
    <2>2. t \in Timings /\ timings \in Timings
      BY DEF TypeOK
    <2>3. timings' \in Timings
      BY <2>1, <2>2 DEF Timings
    <2> QED
      BY <1>12, <2>3 DEF StoreTiming, TypeOK
  <1>4. CASE FinishConfig
    <2>1. ladder' = [d \in Devices |-> [ladder[d] EXCEPT !.t = timings]]
      BY <1>4 DEF FinishConfig
    <2>2. timings \in Timings
      BY DEF TypeOK
    <2> DEFINE M(d) == [ladder[d] EXCEPT !.t = timings]
    <2>3. \A d \in Devices : /\ M(d) \in Ladder /\ M(d).st = ladder[d].st
                             /\ Anchored(ladder[d]) => Anchored(M(d))
      BY <1>0, <2>2, ConfiguredKeeps
    <2>5. ladder' = [d \in Devices |-> M(d)]
      BY <2>1
    <2> HIDE DEF M
    <2>4. ladder' \in [Devices -> Ladder]
      BY <2>5, <2>3
    <2> QED
      BY <1>4, <2>5, <2>1, <2>2, <2>3, <2>4 DEF FinishConfig, TypeOK, Ladder
  <1>5. ASSUME NEW d \in Devices, NEW v \in {"on", "off"}, SetOptIn(d, v)
        PROVE  TypeOK' /\ ladder' = ladder
    BY <1>5 DEF SetOptIn, TypeOK
  <1>6. ASSUME NEW e \in Devices, NEW r \in Roles, SetRole(e, r)
        PROVE  TypeOK' /\ \A d \in Devices : /\ ladder'[d].st = ladder[d].st
                                             /\ Anchored(ladder[d]) => Anchored(ladder'[d])
    <2> DEFINE b == r # "none" /\ offset
               M == [ladder[e] EXCEPT !.ik = b]
    <2>1. ladder' = ladder \/ ladder' = [ladder EXCEPT ![e] = M]
      BY <1>6 DEF SetRole
    <2>2. M \in Ladder /\ M.st = ladder[e].st /\ (Anchored(ladder[e]) => Anchored(M))
      <3>1. b \in BOOLEAN /\ timings \in Timings
        BY DEF TypeOK
      <3> QED
        BY <3>1, <1>0, ConfiguredKeeps
    <2> HIDE DEF M
    <2>3. ladder' \in [Devices -> Ladder]
      BY <1>0, <2>1, <2>2
    <2>4. TypeOK'
      BY <1>6, <2>3 DEF SetRole, TypeOK, Ladder, Roles
    <2> QED
      BY <1>0, <2>1, <2>2, <2>4
  <1>7. ASSUME NEW v \in BOOLEAN, SetOffset(v)
        PROVE  TypeOK' /\ \A d \in Devices : /\ ladder'[d].st = ladder[d].st
                                             /\ Anchored(ladder[d]) => Anchored(ladder'[d])
    <2> DEFINE b(d) == role[d] # "none" /\ v
               M(d) == [ladder[d] EXCEPT !.ik = b(d)]
    <2>1. ladder' = [d \in Devices |-> M(d)]
      BY <1>7 DEF SetOffset
    <2>2. timings \in Timings /\ \A d \in Devices : b(d) \in BOOLEAN
      BY DEF TypeOK
    <2> HIDE DEF b
    <2>3. \A d \in Devices : /\ M(d) \in Ladder /\ M(d).st = ladder[d].st
                             /\ Anchored(ladder[d]) => Anchored(M(d))
      BY <1>0, <2>2, ConfiguredKeeps
    <2> HIDE DEF M
    <2>4. ladder' \in [Devices -> Ladder]
      BY <2>1, <2>3
    <2> QED
      BY <1>7, <2>1, <2>3, <2>4 DEF SetOffset, TypeOK, Ladder
  <1>8. ASSUME NEW d \in Devices, ResolveSerial(d) PROVE TypeOK' /\ ladder' = ladder
    BY <1>8 DEF ResolveSerial, TypeOK
  <1>9. ASSUME NEW d \in Devices, ApplyCaches(d) PROVE TypeOK' /\ ladder' = ladder
    <2>1. (IF optIn[d] = "unset" THEN opted[d] ELSE optIn[d] = "on") \in BOOLEAN
      BY DEF TypeOK
    <2>2. opted' \in [Devices -> BOOLEAN]
      BY <1>9, <2>1 DEF ApplyCaches, TypeOK
    <2>3. role' \in [Devices -> Roles]
      BY <1>9 DEF ApplyCaches, TypeOK
    <2> QED
      BY <1>9, <2>2, <2>3 DEF ApplyCaches, TypeOK
  <1>10. CASE HandleRequest
    BY <1>10, <1>3, <1>4, <1>5, <1>6, <1>7, <1>12 DEF HandleRequest
  <1>11. CASE Resolve
    BY <1>11, <1>8, <1>9 DEF Resolve
  <1> QED
    BY <1>2, <1>10, <1>11

\* A step of the hot path that leaves ladder L behind for device d.
LEMMA HotPathType ==
    ASSUME TypeOK, NEW d \in Devices, NEW L \in Ladder, ladder' = [ladder EXCEPT ![d] = L],
           pub' = pub \/ (\E r \in Poses \cup {"none"} : pub' = [pub EXCEPT ![d] = r]),
           UNCHANGED <<ipc, opted, role, serial>>
    PROVE  TypeOK'
  <1>1. ladder' \in [Devices -> Ladder]
    BY DEF TypeOK, Ladder
  <1>2. pub' \in [Devices -> Poses \cup {"none"}]
    BY DEF TypeOK
  <1> QED
    BY <1>1, <1>2 DEF TypeOK, Ladder, ipc

\* The initial state is well typed, and every ladder is in REAL.
LEMMA InitInv == Init => TypeOK /\ DropoutIsAnchored /\ OptInReachesSlot /\ LadderIsInert
  <1> SUFFICES ASSUME Init PROVE TypeOK /\ DropoutIsAnchored /\ OptInReachesSlot /\ LadderIsInert
    OBVIOUS
  <1>1. Defaults \in Timings
    BY ThresholdsInRange DEF Timings
  <1>2. TypeOK
    BY <1>1, AgesFacts DEF Init, TypeOK, States, Roles
  <1>3. \A d \in Devices : ladder[d].st = "REAL" /\ serial[d] = "missing"
    BY DEF Init
  <1> QED
    BY <1>2, <1>3 DEF DropoutIsAnchored, OptInReachesSlot, LadderIsInert, Dropped

-----------------------------------------------------------------------------
(* The steps of Spec.                                                      *)

\* The two calls of the hot path, each with the ladder it leaves behind.
LEMMA HotPathStep ==
    ASSUME TypeOK, NEW d \in Devices, NEW pose \in Poses,
           Observe(d, pose) \/ MaybeOverridePose(d, pose)
    PROVE  /\ TypeOK'
           /\ Anchored(ladder[d]) => Anchored(ladder'[d])
           /\ \A e \in Devices \ {d} : ladder'[e] = ladder[e]
  <1>1. ladder \in [Devices -> Ladder] /\ ladder[d] \in Ladder
    BY DEF TypeOK, Ladder
  <1>2. CASE Observe(d, pose)
    <2>1. ladder' = [ladder EXCEPT ![d] = Fed(d, pose)]
      BY <1>2 DEF Observe
    <2>2. Fed(d, pose) \in Ladder /\ (Anchored(ladder[d]) => Anchored(Fed(d, pose)))
      BY FedKeeps
    <2>3. TypeOK'
      BY <1>2, <2>1, <2>2, HotPathType DEF Observe
    <2> QED
      BY <1>1, <2>1, <2>2, <2>3
  <1>3. CASE MaybeOverridePose(d, pose)
    <2>1. ladder' = [ladder EXCEPT ![d] = Ticked(ladder[d])]
      BY <1>3 DEF MaybeOverridePose
    <2>2. Ticked(ladder[d]) \in Ladder /\ (Anchored(ladder[d]) => Anchored(Ticked(ladder[d])))
      BY <1>1, TickedKeeps
    <2>3. \E r \in Poses \cup {"none"} : pub' = [pub EXCEPT ![d] = r]
      BY <1>3, <2>2, PublishedType DEF MaybeOverridePose
    <2>4. TypeOK'
      BY <1>3, <2>1, <2>2, <2>3, HotPathType DEF MaybeOverridePose
    <2> QED
      BY <1>1, <2>1, <2>2, <2>4
  <1> QED
    BY <1>2, <1>3

\* Spec keeps the types of all variables.
LEMMA TypeStep == ASSUME TypeOK, [Next]_vars PROVE TypeOK'
  <1>1. CASE Clock \/ HandleRequest \/ Resolve
    BY <1>1, SharedStep
  <1>2. ASSUME NEW d \in Devices, NEW pose \in Poses, Observe(d, pose) \/ MaybeOverridePose(d, pose)
        PROVE  TypeOK'
    BY <1>2, HotPathStep
  <1>3. CASE UNCHANGED vars
    BY <1>3 DEF vars, TypeOK
  <1> QED
    BY <1>1, <1>2, <1>3 DEF Next

\* In every reachable state each ladder, cache and slot has a value of its
\* type; the thresholds in force are positive, whatever the overlay sends.
THEOREM TypeCorrect == Spec => []TypeOK
  <1>1. Init => TypeOK
    BY InitInv
  <1>2. TypeOK /\ [Next]_vars => TypeOK'
    BY TypeStep
  <1> QED
    BY <1>1, <1>2, PTL DEF Spec

\* However late the tick that notices a silence, and whatever configuration
\* arrives during the dropout, the dropout is dated back to the last pose.
THEOREM DropoutsAreAnchored == Spec => []DropoutIsAnchored
  <1>1. DropoutIsAnchored <=> \A d \in Devices : Anchored(ladder[d])
    BY DEF DropoutIsAnchored, Anchored
  <1>2. DropoutIsAnchored' <=> \A d \in Devices : Anchored(ladder'[d])
    BY DEF DropoutIsAnchored, Anchored
  <1>3. TypeOK /\ DropoutIsAnchored /\ [Next]_vars => DropoutIsAnchored'
    <2> SUFFICES ASSUME TypeOK, DropoutIsAnchored, [Next]_vars PROVE DropoutIsAnchored'
      OBVIOUS
    <2>1. CASE Clock \/ HandleRequest \/ Resolve
      BY <1>1, <1>2, <2>1, SharedStep
    <2>2. ASSUME NEW d \in Devices, NEW pose \in Poses,
                 Observe(d, pose) \/ MaybeOverridePose(d, pose)
          PROVE  DropoutIsAnchored'
      BY <1>1, <1>2, <2>2, HotPathStep
    <2>3. CASE UNCHANGED vars
      BY <1>1, <1>2, <2>3 DEF vars
    <2> QED
      BY <2>1, <2>2, <2>3 DEF Next
  <1> QED
    BY <1>3, InitInv, TypeCorrect, PTL DEF Spec

\* A slot that knows its serial has the opt-in the overlay last sent for it,
\* in whatever order the request and the two halves of the lookup come.
THEOREM OptInArrives == Spec => []OptInReachesSlot
  <1>1. TypeOK /\ OptInReachesSlot /\ [Next]_vars => OptInReachesSlot'
    <2> SUFFICES ASSUME TypeOK, OptInReachesSlot, [Next]_vars PROVE OptInReachesSlot'
      OBVIOUS
    <2>1. CASE UNCHANGED <<optIn, opted, serial>>
      BY <2>1 DEF OptInReachesSlot
    <2>2. ASSUME NEW d \in Devices, NEW v \in {"on", "off"}, SetOptIn(d, v)
          PROVE  OptInReachesSlot'
      BY <2>2 DEF SetOptIn, OptInReachesSlot, TypeOK
    <2>3. ASSUME NEW d \in Devices, ResolveSerial(d) PROVE OptInReachesSlot'
      BY <2>3 DEF ResolveSerial, OptInReachesSlot, TypeOK, ipc
    <2>4. ASSUME NEW d \in Devices, ApplyCaches(d) PROVE OptInReachesSlot'
      BY <2>4 DEF ApplyCaches, OptInReachesSlot, TypeOK, ipc
    <2>5. CASE HandleRequest
      <3>1. CASE \E d \in Devices, v \in {"on", "off"} : SetOptIn(d, v)
        BY <2>2, <3>1
      <3>2. CASE ~\E d \in Devices, v \in {"on", "off"} : SetOptIn(d, v)
        BY <2>1, <2>5, <3>2 DEF HandleRequest, SetConfig, StoreTiming, FinishConfig, SetRole, SetOffset
      <3> QED
        BY <3>1, <3>2
    <2>6. CASE Clock
      BY <2>1, <2>6 DEF Clock, ipc
    <2>7. ASSUME NEW d \in Devices, NEW pose \in Poses,
                 Observe(d, pose) \/ MaybeOverridePose(d, pose)
          PROVE  OptInReachesSlot'
      BY <2>1, <2>7 DEF Observe, MaybeOverridePose, ipc
    <2>8. CASE UNCHANGED vars
      BY <2>1, <2>8 DEF vars
    <2> QED
      BY <2>3, <2>4, <2>5, <2>6, <2>7, <2>8 DEF Next, Resolve
  <1> QED
    BY <1>1, InitInv, TypeCorrect, PTL DEF Spec

-----------------------------------------------------------------------------
(* Action properties of Spec.                                              *)

\* The rung that Tick leaves, from the rung and the dates it finds.
LEMMA TickedRung ==
    ASSUME NEW L \in Ladder
    PROVE  /\ Climbs(L, Ticked(L))
           /\ L.st # "BLEND_IN" /\ (L.st \in Dropped => L.drop >= L.since)
                /\ L.since >= Silence /\ L.since >= Deadline(L.t)
              => Ticked(L).st \in {"OUT_OF_RANGE", "LOST"}
  <1> DEFINE N == NoticeSilence(L)
             E == Escalate(N)
  <1>1. N \in Ladder /\ E \in Ladder
    BY NoticeSilenceKeeps, EscalateKeeps
  <1>2. Silence \in Nat \ {0}
    BY ThresholdsInRange
  <1>3. /\ N.since = L.since /\ N.t = L.t
        /\ \/ N = L /\ ~(L.st = "REAL" /\ L.since # Never /\ L.since >= Silence)
           \/ L.st = "REAL" /\ N.st = "BLEND_OUT" /\ N.drop = L.since
    BY DEF NoticeSilence, Ladder
  <1>4. /\ N.st \in Dropped => E.st \in Dropped /\ Rank[E.st] >= Rank[N.st]
        /\ N.st \notin Dropped => E = N
    BY <1>1 DEF Escalate, Ladder, States, Dropped, Rank
  <1>5. N.st \in Dropped /\ N.drop # Never /\ N.drop >= Deadline(N.t)
        => E.st \in {"OUT_OF_RANGE", "LOST"}
    BY <1>1 DEF Escalate, Deadline, Ladder, Dropped
  <1>6. Ticked(L).st = E.st \/ (E.st = "BLEND_IN" /\ Ticked(L).st = "REAL")
    BY <1>1 DEF Ticked, FinishBlendIn, Ladder
  <1>7. E.st # "BLEND_IN" => Ticked(L) = E
    BY DEF Ticked, FinishBlendIn
  <1>8. L.st \in States /\ N.st \in States /\ E.st \in States
    BY <1>1 DEF Ladder
  <1>9. L.since \in Int /\ L.drop \in Int /\ Deadline(L.t) \in Nat
    <2>1. L.t \in Timings /\ L.since \in Ages /\ L.drop \in Ages
      BY DEF Ladder
    <2>2. L.t["synth"] \in 1 .. Horizon /\ L.t["lost"] \in 1 .. Horizon
      BY <2>1 DEF Timings, Thresholds
    <2>3. L.t["synth"] \in Nat /\ L.t["lost"] \in Nat
      BY <2>2, ThresholdsInRange
    <2> QED
      BY <2>1, <2>3, AgesFacts DEF Deadline
  <1> HIDE DEF N, E
  <1>10. Rank[E.st] >= Rank[L.st]
    BY <1>3, <1>4, <1>8 DEF Rank, States, Dropped
  <1>11. E.st = "BLEND_IN" => L.st = "BLEND_IN"
    BY <1>3, <1>4 DEF Dropped
  <1>12. Climbs(L, Ticked(L))
    BY <1>6, <1>8, <1>10, <1>11 DEF Climbs, Rank, States, Dropped
  <1>13. ASSUME L.st # "BLEND_IN", L.st \in Dropped => L.drop >= L.since,
                L.since >= Silence, L.since >= Deadline(L.t)
         PROVE  Ticked(L).st \in {"OUT_OF_RANGE", "LOST"}
    <2>1. L.since # Never
      BY <1>2, <1>9, <1>13 DEF Never
    <2>2. N.st \in Dropped /\ N.drop >= L.since /\ N.drop \in Int
      BY <1>3, <1>8, <1>9, <1>13, <2>1 DEF States, Dropped
    <2>3. N.drop # Never /\ N.drop >= Deadline(N.t)
      BY <1>2, <1>3, <1>9, <1>13, <2>2 DEF Never
    <2> QED
      BY <1>5, <1>7, <2>2, <2>3
  <1> QED
    BY <1>12, <1>13

\* Nothing but a healthy pose leads down from a rung of the dropout ladder,
\* whatever requests arrive in the middle of a dropout.
THEOREM LadderClimbs == Spec => LadderOnlyClimbs
  <1> DEFINE Down(d) ==
         Rank[ladder'[d].st] < Rank[ladder[d].st] =>
            \/ ladder[d].st = "BLEND_IN" /\ ladder'[d].st = "REAL"
            \/ ladder'[d].st = "BLEND_IN" /\ Observe(d, "ok")
  <1>1. TypeOK /\ [Next]_vars => [\A d \in Devices : Down(d)]_vars
    <2> SUFFICES ASSUME TypeOK, Next, NEW d \in Devices PROVE Down(d)
      OBVIOUS
    <2>1. ladder[d] \in Ladder
      BY DEF TypeOK, Ladder
    <2>2. Rank[ladder[d].st] \in Int
      BY <2>1 DEF Ladder, States, Dropped, Rank
    <2>3. CASE ladder'[d].st = ladder[d].st
      BY <2>2, <2>3
    <2>4. CASE Clock \/ HandleRequest \/ Resolve
      BY <2>3, <2>4, SharedStep
    <2>5. ASSUME NEW e \in Devices, NEW pose \in Poses,
                 Observe(e, pose) \/ MaybeOverridePose(e, pose)
          PROVE  Down(d)
      <3>1. CASE e # d
        BY <2>3, <2>5, <3>1, HotPathStep
      <3>2. CASE e = d /\ MaybeOverridePose(e, pose)
        <4>1. ladder'[d] = Ticked(ladder[d])
          BY <3>2, <2>1 DEF MaybeOverridePose, TypeOK
        <4> QED
          BY <4>1, <2>1, TickedRung DEF Climbs
      <3>3. CASE e = d /\ Observe(e, pose)
        <4> DEFINE L == [ladder[d] EXCEPT !.t = timings, !.ik = role[d] # "none" /\ offset]
        <4>1. ladder'[d] = Observed(L, pose)
          BY <3>3 DEF Observe, Fed, TypeOK
        <4>2. L \in Ladder /\ L.st = ladder[d].st
          <5>1. timings \in Timings /\ (role[d] # "none" /\ offset) \in BOOLEAN
            BY DEF TypeOK
          <5> QED
            BY <5>1, <2>1, ConfiguredKeeps
        <4> HIDE DEF L
        <4>3. \/ ladder'[d].st = ladder[d].st
              \/ ladder'[d].st = "BLEND_IN" /\ pose = "ok"
          BY <4>1, <4>2 DEF Observed, Ladder
        <4> QED
          BY <2>3, <3>3, <4>3
      <3> QED
        BY <2>5, <3>1, <3>2, <3>3
    <2> QED
      BY <2>4, <2>5 DEF Next
  <1> QED
    BY <1>1, TypeCorrect, PTL DEF Spec, LadderOnlyClimbs

\* A tick of a device that has been silent for the shorter of the two holds
\* publishes no Running_OK pose, unless it finds the ladder blending back in.
THEOREM SilenceShows == Spec => SilentIsNotOk
  <1> DEFINE Shown(d, pose) ==
         /\ MaybeOverridePose(d, pose) /\ master /\ opted[d]
         /\ ladder[d].since >= Silence /\ ladder[d].since >= Deadline(ladder[d].t)
         /\ ladder[d].st # "BLEND_IN"
         => \/ ladder'[d].st = "LOST" /\ pub'[d] = pub[d]
            \/ ladder'[d].st = "OUT_OF_RANGE" /\ pub'[d] = "bad"
  <1>1. TypeOK /\ DropoutIsAnchored /\ [Next]_vars
        => [\A d \in Devices, pose \in Poses : Shown(d, pose)]_vars
    <2> SUFFICES ASSUME TypeOK, DropoutIsAnchored, NEW d \in Devices, NEW pose \in Poses,
                        MaybeOverridePose(d, pose), master, opted[d],
                        ladder[d].since >= Silence, ladder[d].since >= Deadline(ladder[d].t),
                        ladder[d].st # "BLEND_IN"
                 PROVE  \/ ladder'[d].st = "LOST" /\ pub'[d] = pub[d]
                        \/ ladder'[d].st = "OUT_OF_RANGE" /\ pub'[d] = "bad"
      OBVIOUS
    <2>1. ladder[d] \in Ladder
      BY DEF TypeOK, Ladder
    <2>2. ladder'[d] = Ticked(ladder[d])
      BY DEF MaybeOverridePose, TypeOK
    <2>3. ladder'[d].st \in {"OUT_OF_RANGE", "LOST"}
      BY <2>1, <2>2, TickedRung DEF DropoutIsAnchored
    <2>4. pub'[d] \in Published(ladder'[d], d, pose)
      BY <2>2 DEF MaybeOverridePose, TypeOK
    <2> QED
      BY <2>3, <2>4 DEF Published
  <1> QED
    BY <1>1, TypeCorrect, DropoutsAreAnchored, PTL DEF Spec, SilentIsNotOk

-----------------------------------------------------------------------------
(* The ladder behind the pose hook.                                        *)

\* A call of the pose hook finds a device in REAL and leaves it there.
LEMMA HookStep ==
    ASSUME TypeOK, LadderIsInert, NEW d \in Devices, NEW pose \in Poses, Hook(d, pose)
    PROVE  TypeOK' /\ LadderIsInert'
  <1> DEFINE L == Ticked(Fed(d, pose))
  <1>1. L \in Ladder /\ L.st = "REAL"
    BY FedKeeps, TickedKeeps DEF LadderIsInert
  <1>2. ladder' = [ladder EXCEPT ![d] = L] /\ UNCHANGED <<ipc, opted, role, serial>>
    BY DEF Hook
  <1>3. \E r \in Poses \cup {"none"} : pub' = [pub EXCEPT ![d] = r]
    BY <1>1, PublishedType DEF Hook
  <1> HIDE DEF L
  <1>4. TypeOK'
    BY <1>1, <1>2, <1>3, HotPathType
  <1>5. LadderIsInert'
    BY <1>1, <1>2 DEF LadderIsInert, TypeOK
  <1> QED
    BY <1>4, <1>5

\* With HandleDevicePoseUpdated as the only caller, no device ever leaves
\* REAL: each tick follows an observation with the same time stamp, so the
\* silence it measures is zero and no dropout is ever noticed.
THEOREM LadderStaysReal == HookSpec => []LadderIsInert
  <1>1. TypeOK /\ LadderIsInert /\ [HookNext]_vars => TypeOK' /\ LadderIsInert'
    <2> SUFFICES ASSUME TypeOK, LadderIsInert, [HookNext]_vars PROVE TypeOK' /\ LadderIsInert'
      OBVIOUS
    <2>1. CASE Clock \/ HandleRequest \/ Resolve
      BY <2>1, SharedStep DEF LadderIsInert
    <2>2. ASSUME NEW d \in Devices, NEW pose \in Poses, Hook(d, pose)
          PROVE  TypeOK' /\ LadderIsInert'
      BY <2>2, HookStep
    <2>3. CASE UNCHANGED vars
      BY <2>3 DEF vars, TypeOK, LadderIsInert
    <2> QED
      BY <2>1, <2>2, <2>3 DEF HookNext
  <1> QED
    BY <1>1, InitInv, PTL DEF HookSpec
=============================================================================
