------------------------ MODULE HostSupervisorProofs ------------------------
(***************************************************************************)
(* Theorems about the supervisor of a sidecar host, for any set of process *)
(* ids, breaker threshold, back-off cap and leftover host; and about the   *)
(* control message that its subclasses queue.                              *)
(***************************************************************************)
EXTENDS HostSupervisor, ControlMessage, TLAPS

\* The type invariant without the bound on the breaker's count.
LooseTypeOK ==
    /\ proc \in [Procs -> {"dead", "exit3", "booting", "starting", "ready", "hung"}]
    /\ handle \in Pids \cup {None} /\ cur \in Pids \cup {None} /\ writing \in Procs \cup {None}
    /\ attached \in BOOLEAN /\ stop \in BOOLEAN /\ halted \in BOOLEAN
    /\ fast \in Nat /\ backoff \in 0 .. MaxBackoff /\ failed \in BOOLEAN /\ raced \in BOOLEAN
    /\ mon \in {"off", "top", "blocked", "probe", "lost", "wait", "reap", "count", "delay",
                "check", "spawn", "done"}
    /\ main \in {"init", "start", "run", "kill", "join", "stopped", "gone"}
    /\ pc \in [Callers -> {"idle", "kill", "check", "spawn"}]

\* The count reaches the threshold only with the breaker open, and while it is
\* open the monitor is at the top of its loop, where an open breaker keeps it.
BreakerInv ==
    /\ fast <= Threshold
    /\ fast = Threshold => halted
    /\ halted => mon \in {"top", "done"}

\* Before Start() the monitor has counted nothing.  Once Stop() has joined the
\* monitor, nothing is left of it.  From Stop() on a Restart() that has not passed its
\* test of stop_requested_ sees it set, so that after the destructor only one that
\* was past the test (raced) spawns.
JoinInv ==
    /\ main \in {"init", "start"} => mon = "off" /\ fast = 0 /\ ~halted
    /\ main \in {"stopped", "gone"} => mon \in {"off", "done"}
    /\ main \in {"kill", "join", "stopped", "gone"} => stop
    /\ main = "gone" /\ ~raced => /\ \A c \in Callers : pc[c] # "spawn"
                                  /\ \A p \in Pids : proc[p] \in {"dead", "exit3"}

IInv == LooseTypeOK /\ BreakerInv /\ JoinInv

-----------------------------------------------------------------------------
(* The critical sections.                                                  *)

SupTypeOK ==
    /\ proc \in [Procs -> {"dead", "exit3", "booting", "starting", "ready", "hung"}]
    /\ handle \in Pids \cup {None} /\ attached \in BOOLEAN /\ failed \in BOOLEAN

\* Forgetting exit codes leaves processes what they are.
LEMMA ForgetType ==
    ASSUME SupTypeOK
    PROVE  Forget \in [Procs -> {"dead", "exit3", "booting", "starting", "ready", "hung"}]
  BY DEF Forget, Alive, SupTypeOK

\* Spawn() tracks a process of its own, or none.
LEMMA SpawnType == ASSUME SupTypeOK, NEW ok \in BOOLEAN, Spawn(ok) PROVE SupTypeOK'
  <1>1. failed' \in BOOLEAN
    BY DEF Spawn
  <1>2. CASE UNCHANGED proc
    <2>1. handle' \in Pids \cup {None} /\ attached' \in BOOLEAN
      BY <1>2 DEF Spawn, SupTypeOK, Fresh
    <2> QED
      BY <1>1, <1>2, <2>1 DEF SupTypeOK
  <1>3. ASSUME NEW p \in Fresh, proc' = [Forget EXCEPT ![p] = "booting"], handle' = p,
               attached' = FALSE
        PROVE  SupTypeOK'
    BY <1>1, <1>3, ForgetType DEF SupTypeOK, Fresh
  <1> QED
    BY <1>2, <1>3 DEF Spawn

\* Kill() leaves no handle.
LEMMA KillType == ASSUME SupTypeOK, Kill PROVE SupTypeOK'
  BY DEF Kill, SupTypeOK, Procs

-----------------------------------------------------------------------------
(* One lemma per thread.                                                   *)

\* The supervisor's own fields, from the whole type.
LEMMA SupPart == LooseTypeOK => SupTypeOK
  BY DEF LooseTypeOK, SupTypeOK

\* The module thread joins the monitor before it closes the job object.
LEMMA ModuleStep == ASSUME IInv, Module PROVE IInv'
  <1> USE SupPart, ThresholdAssumption DEF IInv
  <1>1. CASE CleanupStaleHostIfWedged
    BY <1>1 DEF CleanupStaleHostIfWedged, LooseTypeOK, BreakerInv, JoinInv, sup, loop
  <1>2. CASE Start
    <2>1. PICK ok \in BOOLEAN : Spawn(ok) /\ mon' = IF ok THEN "top" ELSE "off"
      BY <1>2 DEF Start
    <2>2. SupTypeOK'
      BY <2>1, SpawnType
    <2>3. UNCHANGED <<stop, halted, fast, backoff, cur, writing, pc, raced>> /\ main = "start" /\ main' = "run"
      BY <1>2, <2>1 DEF Start, Spawn
    <2>4. mon' \in {"top", "off"} /\ fast = 0 /\ ~halted
      BY <2>1, <2>3 DEF JoinInv
    <2>5. LooseTypeOK'
      BY <2>2, <2>3, <2>4 DEF LooseTypeOK, SupTypeOK
    <2> QED
      BY <2>3, <2>4, <2>5 DEF BreakerInv, JoinInv
  <1>3. CASE StopRequest
    BY <1>3 DEF StopRequest, loop, LooseTypeOK, BreakerInv, JoinInv
  <1>4. CASE StopKill
    <2>1. SupTypeOK'
      BY <1>4, KillType DEF StopKill
    <2> QED
      BY <1>4, <2>1 DEF StopKill, Kill, loop, LooseTypeOK, SupTypeOK, BreakerInv, JoinInv
  <1>5. CASE StopJoin
    <2>1. LooseTypeOK'
      BY <1>5 DEF StopJoin, loop, LooseTypeOK
    <2>2. BreakerInv' /\ JoinInv'
      BY <1>5 DEF StopJoin, loop, BreakerInv, JoinInv
    <2> QED
      BY <2>1, <2>2
  <1>6. CASE Destroy
    <2>1. proc' \in [Procs -> {"dead", "exit3", "booting", "starting", "ready", "hung"}]
          /\ \A p \in Pids : proc'[p] = "dead"
      BY <1>6, NamesDiffer DEF Destroy, LooseTypeOK, Procs
    <2>2. UNCHANGED <<stop, halted, fast, backoff, mon, cur, writing, pc, failed>>
          /\ main = "stopped" /\ main' = "gone" /\ handle' = None
      BY <1>6 DEF Destroy, loop
    <2>3. attached' \in BOOLEAN /\ raced' \in BOOLEAN
      BY <1>6, Zenon DEF Destroy, RestartMaySpawn
    <2>4. ~raced' => \A c \in Callers : pc'[c] # "spawn"
      BY <1>6, <2>2 DEF Destroy, RestartMaySpawn
    <2>5. LooseTypeOK'
      BY <2>1, <2>2, <2>3 DEF LooseTypeOK
    <2>6. BreakerInv'
      BY <2>2 DEF BreakerInv
    <2>7. JoinInv'
      BY <2>1, <2>2, <2>4 DEF JoinInv
    <2> QED
      BY <2>5, <2>6, <2>7
  <1> QED
    BY <1>1, <1>2, <1>3, <1>4, <1>5, <1>6 DEF Module

\* What the monitor's steps other than the counting one do to the breaker.
LEMMA MonitorStep == ASSUME IInv, Monitor PROVE IInv'
  <1> USE SupPart, ThresholdAssumption DEF IInv
  <1>1. CASE MonTop
    <2>1. UNCHANGED <<proc, handle, attached, stop, halted, fast, backoff, main, pc, failed, raced>>
          /\ mon = "top" /\ cur' \in Pids \cup {None}
      BY <1>1 DEF MonTop, Rest, LooseTypeOK
    <2>2. mon' \in {"top", "blocked", "probe", "wait", "done"}
          /\ (halted => mon' \in {"top", "done"})
      BY <1>1 DEF MonTop, WriteOnReady
    <2>3. writing' \in Procs \cup {None}
      BY <1>1 DEF MonTop, WriteOnReady, Hung, LooseTypeOK
    <2>4. LooseTypeOK'
      BY <2>1, <2>2, <2>3 DEF LooseTypeOK
    <2> QED
      BY <2>1, <2>2, <2>4 DEF BreakerInv, JoinInv
  <1>9. CASE MonUnblock
    BY <1>9 DEF MonUnblock, Rest, LooseTypeOK, BreakerInv, JoinInv
  <1>2. CASE MonProbe
    <2>1. UNCHANGED <<proc, handle, attached, stop, halted, fast, backoff, cur, main, pc, failed,
                      raced>> /\ mon = "probe"
      BY <1>2 DEF MonProbe, Rest
    <2>2. mon' \in {"top", "blocked", "lost"} /\ writing' \in Procs \cup {None}
      BY <1>2 DEF MonProbe, WriteOnReady, Hung, LooseTypeOK
    <2>3. LooseTypeOK'
      BY <2>1, <2>2 DEF LooseTypeOK
    <2> QED
      BY <2>1, <2>2, <2>3 DEF BreakerInv, JoinInv
  <1>3. CASE MonLost
    BY <1>3 DEF MonLost, Rest, LooseTypeOK, BreakerInv, JoinInv
  <1>4. CASE MonWait
    <2>1. UNCHANGED <<proc, handle, attached, stop, halted, fast, backoff, writing, main, pc, failed,
                      raced>>
          /\ mon = "wait" /\ cur' = None /\ mon' \in {"done", "reap", "top"}
      BY <1>4 DEF MonWait, Rest
    <2> QED
      BY <2>1 DEF LooseTypeOK, BreakerInv, JoinInv
  <1>5. CASE MonReap
    <2>1. UNCHANGED <<attached, stop, halted, fast, backoff, cur, writing, main, pc, failed, raced>>
          /\ mon = "reap" /\ handle' = None /\ proc' = Forget
      BY <1>5 DEF MonReap, Rest
    <2>2. mon' \in {"top", "check", "count"}
      BY <1>5 DEF MonReap
    <2>3. proc' \in [Procs -> {"dead", "exit3", "booting", "starting", "ready", "hung"}]
      BY <2>1, ForgetType
    <2>4. LooseTypeOK'
      BY <2>1, <2>2, <2>3 DEF LooseTypeOK
    <2>5. main # "gone"
      BY <2>1 DEF JoinInv
    <2> QED
      BY <2>1, <2>2, <2>4, <2>5 DEF BreakerInv, JoinInv
  <1>6. CASE MonCount
    <2>1. UNCHANGED <<proc, handle, attached, stop, backoff, cur, writing, main, pc, failed, raced>>
          /\ mon = "count" /\ fast' \in {fast + 1, 0}
          /\ halted' = (halted \/ fast' >= Threshold)
          /\ mon' = IF fast' >= Threshold THEN "top" ELSE "delay"
      BY <1>6 DEF MonCount, Rest
    <2>2. fast \in Nat /\ fast < Threshold /\ ~halted
      BY <2>1 DEF LooseTypeOK, BreakerInv
    <2>3. fast' \in Nat /\ fast' <= Threshold /\ mon' \in {"top", "delay"}
      BY <2>1, <2>2
    <2>4. (fast' = Threshold => halted') /\ (halted' => mon' = "top")
      <3>1. fast' = Threshold => fast' >= Threshold
        OBVIOUS
      <3>2. (fast' >= Threshold => halted') /\ (halted' => mon' = "top")
        BY <2>1, <2>2, Zenon
      <3> QED
        BY <3>1, <3>2
    <2>5. halted' \in BOOLEAN
      BY <2>1, Zenon
    <2>6. LooseTypeOK'
      BY <2>1, <2>3, <2>5 DEF LooseTypeOK
    <2> QED
      BY <2>1, <2>3, <2>4, <2>6 DEF BreakerInv, JoinInv
  <1>7. CASE MonCheck
    BY <1>7 DEF MonCheck, Rest, LooseTypeOK, BreakerInv, JoinInv
  <1>8. CASE MonSpawn
    <2>1. PICK ok \in BOOLEAN :
            /\ Spawn(ok)
            /\ backoff' = IF ok THEN 0 ELSE IF backoff = MaxBackoff THEN backoff ELSE backoff + 1
      BY <1>8 DEF MonSpawn
    <2>2. SupTypeOK'
      BY <2>1, SpawnType
    <2>3. UNCHANGED <<stop, halted, fast, cur, writing, main, pc, raced>>
          /\ mon = "spawn" /\ mon' = "top"
      BY <1>8, <2>1 DEF MonSpawn, Spawn
    <2>4. backoff' \in 0 .. MaxBackoff
      BY <2>1, BackoffAssumption DEF LooseTypeOK
    <2>5. LooseTypeOK'
      BY <2>2, <2>3, <2>4 DEF LooseTypeOK, SupTypeOK
    <2> QED
      BY <2>3, <2>5 DEF BreakerInv, JoinInv
  <1> QED
    BY <1>1, <1>2, <1>3, <1>4, <1>5, <1>6, <1>7, <1>8, <1>9 DEF Monitor

\* Restart() closes the breaker and spawns at most one host; after the
\* destructor it does so only when it was past its test of stop_requested_.
LEMMA RestartStep == ASSUME IInv, NEW c \in Callers, Restart(c) \/ Resume(c) PROVE IInv'
  <1> USE SupPart, ThresholdAssumption DEF IInv
  <1>1. CASE Restart(c)
    <2>1. UNCHANGED <<proc, handle, attached, stop, backoff, mon, cur, writing, main, failed, raced>>
          /\ main \notin {"init", "start"} /\ halted' = FALSE /\ fast' = 0
          /\ pc' = [pc EXCEPT ![c] = "kill"]
      BY <1>1 DEF Restart, loop
    <2>2. LooseTypeOK'
      <3>1. halted' \in BOOLEAN /\ fast' \in Nat
        BY <2>1
      <3>2. pc' \in [Callers -> {"idle", "kill", "check", "spawn"}]
        BY <2>1 DEF LooseTypeOK
      <3> QED
        BY <2>1, <3>1, <3>2 DEF LooseTypeOK
    <2>3. \A d \in Callers : pc'[d] = "spawn" => pc[d] = "spawn"
      BY <2>1 DEF LooseTypeOK
    <2>4. BreakerInv'
      BY <2>1 DEF BreakerInv
    <2>5. JoinInv'
      BY <2>1, <2>3 DEF JoinInv
    <2> QED
      BY <2>2, <2>4, <2>5
  <1>2. CASE RestartKill(c)
    <2>1. SupTypeOK'
      BY <1>2, KillType DEF RestartKill
    <2>2. UNCHANGED <<stop, halted, fast, backoff, mon, cur, writing, main, raced>>
          /\ pc' = [pc EXCEPT ![c] = "check"]
      BY <1>2 DEF RestartKill, Kill, loop
    <2>3. LooseTypeOK'
      BY <2>1, <2>2 DEF LooseTypeOK, SupTypeOK
    <2>4. \A p \in Pids : proc[p] \in {"dead", "exit3"} => proc'[p] \in {"dead", "exit3"}
      BY <1>2 DEF RestartKill, Kill, LooseTypeOK, Procs
    <2>5. \A d \in Callers : pc'[d] = "spawn" => pc[d] = "spawn"
      BY <2>2 DEF LooseTypeOK
    <2> QED
      BY <2>2, <2>3, <2>4, <2>5 DEF BreakerInv, JoinInv
  <1>3. CASE RestartCheck(c)
    <2>1. UNCHANGED <<proc, handle, attached, stop, halted, fast, backoff, mon, cur, writing, main,
                      failed, raced>>
          /\ pc' = [pc EXCEPT ![c] = IF stop THEN "idle" ELSE "spawn"]
      BY <1>3 DEF RestartCheck, sup, loop
    <2>2. LooseTypeOK'
      BY <2>1 DEF LooseTypeOK
    <2>3. main = "gone" => \A d \in Callers : pc'[d] = "spawn" => pc[d] = "spawn"
      BY <2>1 DEF LooseTypeOK, JoinInv
    <2> QED
      BY <2>1, <2>2, <2>3 DEF BreakerInv, JoinInv
  <1>4. CASE RestartSpawn(c)
    <2>1. PICK ok \in BOOLEAN : Spawn(ok)
      BY <1>4 DEF RestartSpawn
    <2>2. SupTypeOK'
      BY <2>1, SpawnType
    <2>3. UNCHANGED <<stop, halted, fast, backoff, mon, cur, writing, main, raced>>
          /\ pc[c] = "spawn" /\ pc' = [pc EXCEPT ![c] = "idle"]
      BY <1>4, <2>1 DEF RestartSpawn, Spawn, loop
    <2>4. LooseTypeOK'
      BY <2>2, <2>3 DEF LooseTypeOK, SupTypeOK
    <2>5. main # "gone" \/ raced
      BY <2>3 DEF JoinInv, LooseTypeOK
    <2> QED
      BY <2>3, <2>4, <2>5 DEF BreakerInv, JoinInv
  <1> QED
    BY <1>1, <1>2, <1>3, <1>4 DEF Resume

\* A host process changes nothing but its own state, and one that is dead
\* stays dead.
LEMMA KernelStep == ASSUME IInv, Kernel PROVE IInv'
  <1> USE DEF IInv
  <1>1. PICK p \in Procs : TakeMutex(p) \/ BindPipe(p) \/ Hang(p) \/ Crash(p)
    BY DEF Kernel
  <1>2. UNCHANGED <<handle, attached, stop, halted, fast, backoff, mon, cur, writing, main, pc,
                    failed, raced>>
        /\ proc[p] \notin {"dead", "exit3"}
    BY <1>1 DEF TakeMutex, BindPipe, Hang, Crash, Alive, sup, loop
  <1>3. PICK s \in {"dead", "exit3", "starting", "ready", "hung"} : proc' = [proc EXCEPT ![p] = s]
    BY <1>1 DEF TakeMutex, BindPipe, Hang, Crash
  <1>4. LooseTypeOK'
    BY <1>2, <1>3 DEF LooseTypeOK
  <1>5. main = "gone" /\ ~raced => p \notin Pids
    BY <1>2 DEF JoinInv
  <1>6. main = "gone" /\ ~raced => \A q \in Pids : proc'[q] = proc[q]
    BY <1>3, <1>5 DEF LooseTypeOK, Procs
  <1> QED
    BY <1>2, <1>4, <1>6 DEF BreakerInv, JoinInv

-----------------------------------------------------------------------------
\* The invariant holds throughout, whatever the four threads and the hosts do.
LEMMA Invariance == Spec => []IInv
  <1>1. Init => IInv
    <2> SUFFICES ASSUME Init PROVE IInv
      OBVIOUS
    <2>1. PICK s \in ExtStates : proc = [p \in Procs |-> IF p = Ext THEN s ELSE "dead"]
      BY DEF Init
    <2>2. s \in {"dead", "ready", "hung"}
      BY ExtAssumption
    <2>3. proc \in [Procs -> {"dead", "exit3", "booting", "starting", "ready", "hung"}]
      BY <2>1, <2>2
    <2>4. pc \in [Callers -> {"idle", "kill", "check", "spawn"}]
      BY DEF Init
    <2>5. fast \in Nat /\ backoff \in 0 .. MaxBackoff
      BY BackoffAssumption DEF Init
    <2>6. attached \in BOOLEAN /\ stop \in BOOLEAN /\ halted \in BOOLEAN /\ failed \in BOOLEAN
          /\ raced \in BOOLEAN
      BY DEF Init
    <2>7. LooseTypeOK
      BY <2>3, <2>4, <2>5, <2>6 DEF Init, LooseTypeOK
    <2> QED
      BY <2>7, ThresholdAssumption DEF IInv, Init, BreakerInv, JoinInv
  <1>2. IInv /\ [Next]_vars => IInv'
    <2> SUFFICES ASSUME IInv, [Next]_vars PROVE IInv'
      OBVIOUS
    <2>1. CASE UNCHANGED vars
      BY <2>1 DEF vars, sup, loop, IInv, LooseTypeOK, BreakerInv, JoinInv
    <2> QED
      BY <2>1, MonitorStep, ModuleStep, KernelStep, RestartStep DEF Next
  <1> QED
    BY <1>1, <1>2, PTL DEF Spec

\* Every field keeps its type; in particular consecutive_fast_exits_ never
\* passes the breaker's threshold, however Restart() and the monitor interleave.
THEOREM TypeCorrect == Spec => []TypeOK
  <1>1. IInv => TypeOK
    BY ThresholdAssumption DEF IInv, LooseTypeOK, BreakerInv, TypeOK
  <1> QED
    BY <1>1, Invariance, PTL

\* When the destructor has returned, no host that this supervisor spawned is
\* alive, whatever Restart(), the monitor and the hosts did meanwhile, unless a
\* Restart() stood between its test of stop_requested_ and its Spawn() just then.
THEOREM HostsAreGone == Spec => []NoHostOutlivesDriver
  <1>1. IInv => NoHostOutlivesDriver
    BY DEF IInv, JoinInv, NoHostOutlivesDriver, Alive
  <1> QED
    BY <1>1, Invariance, PTL

\* Nothing but a spawn brings a process to life, and the monitor spawns only
\* with the breaker closed.
LEMMA SpawnNeedsBreaker ==
    ASSUME IInv, Next, halted, NEW p \in Pids, ~Alive(p), Alive(p)'
    PROVE  \E c \in Callers : pc[c] = "spawn"
  <1> SUFFICES ASSUME \A c \in Callers : pc[c] # "spawn" PROVE FALSE
    OBVIOUS
  <1>1. p \in Procs /\ proc[p] \in {"dead", "exit3"} /\ proc'[p] \notin {"dead", "exit3"}
    BY DEF Alive, Procs
  <1>2. /\ mon \in {"top", "done"} /\ main \notin {"init", "start"}
        /\ proc \in [Procs -> {"dead", "exit3", "booting", "starting", "ready", "hung"}]
    BY DEF IInv, BreakerInv, JoinInv, LooseTypeOK
  <1>3. ASSUME Kill PROVE FALSE
    BY <1>1, <1>2, <1>3 DEF Kill
  <1>4. CASE Monitor
    BY <1>1, <1>2, <1>4
    DEF Monitor, MonTop, MonUnblock, MonProbe, MonLost, MonWait, MonReap, MonCount, MonCheck, MonSpawn
  <1>5. CASE Module
    <2>1. CASE Destroy
      BY <1>1, <1>2, <2>1 DEF Destroy
    <2> QED
      BY <1>1, <1>2, <1>3, <1>5, <2>1
      DEF Module, CleanupStaleHostIfWedged, Start, StopRequest, StopKill, StopJoin
  <1>6. CASE Kernel
    <2>1. PICK q \in Procs : TakeMutex(q) \/ BindPipe(q) \/ Hang(q) \/ Crash(q)
      BY <1>6 DEF Kernel
    <2>2. /\ proc[q] \notin {"dead", "exit3"}
          /\ \E s \in {"dead", "exit3", "starting", "ready", "hung"} :
               proc' = [proc EXCEPT ![q] = s]
      BY <2>1 DEF TakeMutex, BindPipe, Hang, Crash, Alive
    <2> QED
      BY <1>1, <1>2, <2>2
  <1>7. ASSUME NEW c \in Callers, Restart(c) \/ Resume(c) PROVE FALSE
    BY <1>1, <1>3, <1>7 DEF Restart, Resume, RestartKill, RestartCheck, RestartSpawn
  <1> QED
    BY <1>4, <1>5, <1>6, <1>7 DEF Next

\* The circuit breaker of MonitorLoop holds: while it is open no host is started but
\* by a Restart() under way, whatever the threshold and the interleaving.
THEOREM OpenBreakerHolds == Spec => BreakerHolds
  <1>1. ASSUME IInv, [Next]_vars
        PROVE  [halted /\ (\E p \in Pids : ~Alive(p) /\ Alive(p)')
                  => \E c \in Callers : pc[c] = "spawn"]_vars
    BY <1>1, SpawnNeedsBreaker
  <1> QED
    BY <1>1, Invariance, PTL DEF Spec, BreakerHolds

-----------------------------------------------------------------------------
(* The queued control message of the supervisor's subclasses, with the two *)
(* threads that send it (module ControlMessage, a specification of its     *)
(* own: it knows the host process only as the other end of the pipe).      *)

\* A thread that is about to mark has sent what it holds.
MarkInv ==
    /\ sent \in BOOLEAN
    /\ ipc = "mark" => ipcMsg \in written
    /\ monPc = "mark" => monMsg \in written
    /\ SentMeansWritten

\* The mark is for the pending message only, so that it may be stale but not
\* wrong: the test under the lock is what the argument rests on.
LEMMA MarkKeeps ==
    ASSUME Captions, MarkInv, NEW m \in written, Mark(m), UNCHANGED <<pending, written>>
    PROVE  sent' \in BOOLEAN /\ SentMeansWritten'
  <1>1. sent' = (sent \/ m = pending)
    BY DEF Mark
  <1>2. sent' \in BOOLEAN
    BY <1>1 DEF MarkInv
  <1>3. sent' => pending \in written
    BY <1>1 DEF MarkInv, SentMeansWritten
  <1> QED
    BY <1>2, <1>3 DEF SentMeansWritten

\* A captions message is marked sent only when a host has received it (the
\* captions HostSupervisor, TrySendCommand), for any number of messages,
\* restarts and exits: a failed send leaves it queued.
THEOREM MarkedMeansWritten == ASSUME Captions PROVE MessageSpec => []SentMeansWritten
  <1>1. ASSUME MessageInit PROVE MarkInv
    BY <1>1 DEF MessageInit, MarkInv, SentMeansWritten
  <1>2. ASSUME MarkInv, [MessageNext]_messageVars PROVE MarkInv'
    <2>1. CASE UNCHANGED messageVars
      BY <1>2, <2>1 DEF messageVars, ipcVars, monVars, MarkInv, SentMeansWritten
    <2>2. CASE Host
      BY <1>2, <2>2 DEF Host, Bind, Exit, ipcVars, monVars, MarkInv, SentMeansWritten
    <2>3. CASE SetCommand \/ SendAgain
      BY <1>2, <2>3 DEF SetCommand, SendAgain, monVars, MarkInv, SentMeansWritten
    <2>4. CASE RestartHost
      BY <1>2, <2>4 DEF RestartHost, monVars, MarkInv, SentMeansWritten
    <2>5. CASE IpcSend
      BY <1>2, <2>5 DEF IpcSend, SendIsOver, Deliver, monVars, MarkInv, SentMeansWritten
    <2>6. CASE IpcMark
      <3>1. /\ ipcMsg \in written /\ Mark(ipcMsg) /\ ipc' \in {"idle", "again"}
            /\ UNCHANGED <<pending, written, monPc, monMsg>>
        BY <1>2, <2>6 DEF IpcMark, SendIsOver, monVars, MarkInv
      <3>2. sent' \in BOOLEAN /\ SentMeansWritten'
        BY <1>2, <3>1, MarkKeeps
      <3> QED
        BY <1>2, <3>1, <3>2 DEF MarkInv
    <2>7. CASE Respawn \/ IpcReady
      BY <1>2, <2>7 DEF Respawn, IpcReady, SendIsOver, monVars, MarkInv, SentMeansWritten
    <2>8. CASE OnHostReady \/ MonRespawn
      BY <1>2, <2>8 DEF OnHostReady, MonRespawn, ipcVars, MarkInv, SentMeansWritten
    <2>9. CASE MonSend
      BY <1>2, <2>9 DEF MonSend, Deliver, ipcVars, MarkInv, SentMeansWritten
    <2>10. CASE MonMark
      <3>1. /\ monMsg \in written /\ Mark(monMsg) /\ monPc' = "watch"
            /\ UNCHANGED <<pending, written, ipc, ipcMsg>>
        BY <1>2, <2>10 DEF MonMark, ipcVars, MarkInv
      <3>2. sent' \in BOOLEAN /\ SentMeansWritten'
        BY <1>2, <3>1, MarkKeeps
      <3> QED
        BY <1>2, <3>1, <3>2 DEF MarkInv
    <2>11. CASE Watch
      BY <1>2, <2>11 DEF Watch, ipcVars, MarkInv, SentMeansWritten
    <2> QED
      BY <1>2, <2>1, <2>2, <2>3, <2>4, <2>5, <2>6, <2>7, <2>8, <2>9, <2>10, <2>11
      DEF MessageNext, IpcStep, MonitorSends
  <1>3. MarkInv => SentMeansWritten
    BY DEF MarkInv
  <1> QED
    BY <1>1, <1>2, <1>3, PTL DEF MessageSpec

-----------------------------------------------------------------------------
\* Every message in a thread, a host or the history was queued, and a thread that
\* sends or marks holds a message, not the empty one.
QueuedInv ==
    /\ pending \in Nat /\ restarts \in Nat /\ exits \in Nat
    /\ config \in Nat /\ config <= pending
    /\ ipcMsg \in Nat /\ ipcMsg <= pending /\ (ipc \in {"send", "mark"} => ipcMsg # 0)
    /\ monMsg \in Nat /\ monMsg <= pending /\ (monPc \in {"send", "mark"} => monMsg # 0)
    /\ \A m \in written : m \in Nat /\ 0 < m /\ m <= pending

\* Where the threads and the host are.
PlacesInv ==
    /\ sent \in BOOLEAN /\ again \in BOOLEAN
    /\ host \in {"booting", "up", "down"}
    /\ ipc \in {"idle", "send", "mark", "respawn", "ready", "again"}
    /\ monPc \in {"ready", "send", "mark", "watch", "spawn"}

\* A step of the two threads or of the host keeps them in their places.
LEMMA PlacesStep == ASSUME PlacesInv, [MessageNext]_messageVars PROVE PlacesInv'
  <1> USE DEF PlacesInv, messageVars, ipcVars, monVars, MessageNext, Host, Bind, Exit, SetCommand,
             RestartHost, IpcStep, IpcSend, IpcMark, SendIsOver, Respawn, IpcReady, SendAgain,
             MonitorSends, OnHostReady, MonSend, MonMark, Watch, MonRespawn
  <1>1. sent' \in BOOLEAN
    BY DEF Mark
  <1>2. host' \in {"booting", "up", "down"}
    OBVIOUS
  <1>3. ipc' \in {"idle", "send", "mark", "respawn", "ready", "again"} /\ again' \in BOOLEAN
    BY KindAssumption
  <1>4. monPc' \in {"ready", "send", "mark", "watch", "spawn"}
    OBVIOUS
  <1> QED
    BY <1>1, <1>2, <1>3, <1>4

\* A message is copied from the pending one, and only a copy is sent.
LEMMA QueuedStep == ASSUME QueuedInv, [MessageNext]_messageVars PROVE QueuedInv'
  <1> USE DEF ipcVars, monVars
  <1>1. CASE UNCHANGED messageVars
    BY <1>1 DEF messageVars, QueuedInv
  <1>2. CASE Host
    BY <1>2 DEF Host, Bind, Exit, QueuedInv
  <1>3. CASE SetCommand
    BY <1>3 DEF SetCommand, QueuedInv
  <1>4. CASE RestartHost
    BY <1>4 DEF RestartHost, QueuedInv
  <1>5. CASE IpcSend
    BY <1>5 DEF IpcSend, SendIsOver, Deliver, QueuedInv
  <1>6. CASE IpcMark \/ Respawn
    BY <1>6 DEF IpcMark, SendIsOver, Respawn, QueuedInv
  <1>7. CASE IpcReady \/ OnHostReady
    BY <1>7 DEF IpcReady, SendIsOver, OnHostReady, WantsSend, QueuedInv
  <1>8. CASE MonSend
    BY <1>8 DEF MonSend, Deliver, QueuedInv
  <1>9. CASE MonMark \/ Watch \/ MonRespawn
    BY <1>9 DEF MonMark, Watch, MonRespawn, QueuedInv
  <1>10. CASE SendAgain
    BY <1>10 DEF SendAgain, QueuedInv
  <1> QED
    BY <1>1, <1>2, <1>3, <1>4, <1>5, <1>6, <1>7, <1>8, <1>9, <1>10
    DEF MessageNext, IpcStep, MonitorSends

\* No thread holds, and no host has received, a message that was not queued: with
\* either supervisor's mark (TrySendCommand, TrySendUuid), for any number of
\* messages, restarts and exits.
THEOREM MessagesAreQueued == MessageSpec => []MessageTypeOK
  <1>1. MessageInit => QueuedInv /\ PlacesInv
    <2>1. MessageInit => QueuedInv
      BY DEF MessageInit, QueuedInv
    <2>2. MessageInit => PlacesInv
      BY DEF MessageInit, PlacesInv
    <2> QED
      BY <2>1, <2>2
  <1>2. QueuedInv /\ PlacesInv /\ [MessageNext]_messageVars => (QueuedInv /\ PlacesInv)'
    BY PlacesStep, QueuedStep
  <1>3. QueuedInv /\ PlacesInv => MessageTypeOK
    <2> SUFFICES ASSUME QueuedInv, PlacesInv PROVE MessageTypeOK
      OBVIOUS
    <2>1. /\ config \in 0 .. pending /\ ipcMsg \in 0 .. pending /\ monMsg \in 0 .. pending
          /\ written \subseteq 1 .. pending
      BY DEF QueuedInv
    <2>2. pending \in Nat /\ restarts \in Nat /\ exits \in Nat
      BY DEF QueuedInv
    <2> QED
      BY <2>1, <2>2, Zenon DEF PlacesInv, MessageTypeOK
  <1> QED
    BY <1>1, <1>2, <1>3, PTL DEF MessageSpec
=============================================================================
