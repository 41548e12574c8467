--------------------------- MODULE HostSupervisor ---------------------------
(***************************************************************************)
(* HostSupervisorBase: the driver-side supervisor of a sidecar host        *)
(* process (face tracking, captions).  Four threads meet in it: the module *)
(* thread (Init, Shutdown and the destructor), the supervisor's own        *)
(* monitor thread, the IPC thread and, for face tracking, the frame worker *)
(* thread; the last two call Restart().  Each critical section of          *)
(* process_mutex_ is one step, each load of stop_requested_ is one step.   *)
(*                                                                         *)
(* A host process boots, takes the per-user singleton mutex ("starting")   *)
(* and then binds the control pipe ("ready"); one that finds the mutex     *)
(* taken exits with code 3.  Ext is a host left over from an earlier       *)
(* SteamVR session.  A pipe probe of a ready host can fail: the host       *)
(* serves one connection at a time.  A host may hang: it holds the mutex,  *)
(* and a write to its pipe blocks the writer.  The monitor's writes in     *)
(* OnHostReady() do so here; the one at the end of Restart()'s Spawn(),    *)
(* which blocks only its caller, is left out.  running_ is written and     *)
(* never read, so it is left out.                                          *)
(***************************************************************************)
EXTENDS Naturals, FiniteSets

CONSTANTS
    Pids,          \* processes this supervisor can spawn (ids are reused)
    Ext,           \* the host of an earlier session
    None,          \* INVALID_HANDLE_VALUE
    Ipc, Worker,   \* the threads that call Restart()
    Threshold,     \* kCircuitBreakerThreshold
    MaxBackoff,    \* doublings from kBackoffStartMs up to kBackoffMaxMs
    ExtStates      \* how the earlier session may have left Ext

Callers == {Ipc, Worker}
Procs   == Pids \cup {Ext}

ASSUME NamesDiffer == Ext \notin Pids /\ None \notin Procs /\ Ipc # Worker
ASSUME ThresholdAssumption == Threshold \in Nat \ {0}
ASSUME BackoffAssumption == MaxBackoff \in Nat
ASSUME ExtAssumption == ExtStates \subseteq {"dead", "ready", "hung"}

VARIABLES
    proc,       \* the kernel's view of each process ("exit3": dead with code 3)
    handle,     \* process_handle_
    attached,   \* attached_to_existing_
    stop,       \* stop_requested_
    halted, fast, backoff,   \* halted_, consecutive_fast_exits_, backoff_ms (doublings)
    mon, cur,   \* MonitorLoop: where it is, cur_handle
    writing,    \* the hung host whose pipe the monitor is blocked on, or None
    main,       \* the module thread
    pc,         \* Restart(), per calling thread
    failed,     \* history: did the last Spawn() fail?
    raced       \* history: was a Restart() about to spawn as the object was destroyed?

sup  == <<handle, attached, stop, halted, fast>>
loop == <<mon, cur, writing>>
vars == <<proc, sup, backoff, loop, main, pc, failed, raced>>

Alive(p)   == proc[p] \notin {"dead", "exit3"}
Tracked    == handle # None /\ Alive(handle)
Responsive == \E p \in Procs : proc[p] = "ready"
MutexHeld  == \E p \in Procs : proc[p] \in {"starting", "ready", "hung"}
Hung       == {p \in Procs : proc[p] = "hung"}
Fresh      == {p \in Pids : ~Alive(p) /\ p \notin {cur, writing}}

\* A process that is dead and has no handle keeps no exit code.
Forget == [p \in Procs |-> IF Alive(p) THEN proc[p] ELSE "dead"]

Init ==
    /\ proc \in {[p \in Procs |-> IF p = Ext THEN s ELSE "dead"] : s \in ExtStates}
    /\ handle = None /\ attached = FALSE /\ stop = FALSE
    /\ halted = FALSE /\ fast = 0 /\ backoff = 0
    /\ mon = "off" /\ cur = None /\ writing = None /\ main = "init"
    /\ failed = FALSE /\ raced = FALSE
    /\ pc = [c \in Callers |-> "idle"]

-----------------------------------------------------------------------------
(* Critical sections shared by the threads.                                *)

\* Spawn(), up to OnHostReady(); ok is what it returns.
Spawn(ok) ==
    /\ UNCHANGED <<stop, halted, fast>>
    /\ failed' = ~ok
    /\ \/ /\ Tracked /\ ok
          /\ UNCHANGED <<proc, handle, attached>>
       \/ /\ ~Tracked /\ Responsive /\ ok
          /\ attached' = TRUE
          /\ UNCHANGED <<proc, handle>>
       \/ /\ ~Tracked /\ ok
          /\ \E p \in Fresh : /\ proc' = [Forget EXCEPT ![p] = "booting"]
                              /\ handle' = p
          /\ attached' = FALSE
       \/ /\ ~Tracked /\ ~ok   \* CreateProcessW fails
          /\ UNCHANGED <<proc, handle, attached>>

\* Kill(): nothing at all without a handle; an attached host is not touched.
Kill ==
    /\ UNCHANGED <<stop, halted, fast, failed>>
    /\ IF handle = None
         THEN UNCHANGED <<proc, handle, attached>>
         ELSE /\ proc' = IF attached THEN proc ELSE [proc EXCEPT ![handle] = "dead"]
              /\ handle' = None /\ attached' = FALSE

-----------------------------------------------------------------------------
(* The host processes.                                                     *)

\* A booting host takes the mutex, or exits with code 3.
TakeMutex(p) ==
    /\ proc[p] = "booting"
    /\ proc' = [proc EXCEPT ![p] = CASE ~MutexHeld -> "starting"
                                        [] MutexHeld /\ p = handle -> "exit3"
                                        [] OTHER -> "dead"]
    /\ UNCHANGED <<sup, backoff, loop, main, pc, failed, raced>>

\* The host that has the mutex binds the control pipe.
BindPipe(p) ==
    /\ proc[p] = "starting"
    /\ proc' = [proc EXCEPT ![p] = "ready"]
    /\ UNCHANGED <<sup, backoff, loop, main, pc, failed, raced>>

Hang(p) ==
    /\ proc[p] = "ready"
    /\ proc' = [proc EXCEPT ![p] = "hung"]
    /\ UNCHANGED <<sup, backoff, loop, main, pc, failed, raced>>

Crash(p) ==
    /\ Alive(p)
    /\ proc' = [proc EXCEPT ![p] = "dead"]
    /\ UNCHANGED <<sup, backoff, loop, main, pc, failed, raced>>

-----------------------------------------------------------------------------
(* The module thread: Init, Shutdown, the destructor.                      *)

\* CleanupStaleHostIfWedged(): when the mutex is held and the pipe does not
\* answer, every process of the host's image that lets itself be opened and
\* terminated is killed; a refusal is only logged.
CleanupStaleHostIfWedged ==
    /\ main = "init"
    /\ main' = "start"
    /\ \/ /\ MutexHeld   \* and the probe fails
          /\ \E killed \in SUBSET {p \in Procs : Alive(p)} :
                proc' = [p \in Procs |-> IF p \in killed THEN "dead" ELSE proc[p]]
       \/ (~MutexHeld \/ Responsive) /\ UNCHANGED proc
    /\ UNCHANGED <<sup, backoff, loop, pc, failed, raced>>

\* Start(); the caller ignores its result, so without a monitor the module
\* still serves requests.
Start ==
    /\ main = "start"
    /\ main' = "run"
    /\ \E ok \in BOOLEAN : Spawn(ok) /\ mon' = IF ok THEN "top" ELSE "off"
    /\ UNCHANGED <<backoff, cur, writing, pc, raced>>

\* Shutdown() has joined the frame worker before it calls Stop().
StopRequest ==
    /\ main = "run" /\ pc[Worker] = "idle"
    /\ stop' = TRUE
    /\ main' = "kill"
    /\ UNCHANGED <<proc, handle, attached, halted, fast, backoff, loop, pc, failed, raced>>

StopKill ==
    /\ main = "kill"
    /\ Kill
    /\ main' = "join"
    /\ UNCHANGED <<backoff, loop, pc, raced>>

StopJoin ==
    /\ main = "join" /\ mon \in {"off", "done"}
    /\ halted' = FALSE /\ fast' = 0
    /\ main' = "stopped"
    /\ UNCHANGED <<proc, handle, attached, stop, backoff, loop, pc, failed, raced>>

RestartMaySpawn == \E c \in Callers : pc[c] = "spawn"

\* Mutant of Destroy: the job object is never closed.
DestroyWithoutJob ==
    /\ main = "stopped"
    /\ main' = "gone"
    /\ Kill
    /\ raced' = RestartMaySpawn
    /\ UNCHANGED <<backoff, loop, pc>>

\* The destructor: Stop() once more, then the kill-on-close job is closed.  It
\* does not wait for a Restart() under way: the IPC servers are stopped after
\* the modules are destroyed (ServerTrackedDeviceProvider.cpp:310-320).  Such a
\* Restart() is modelled as if the freed object kept its contents.
Destroy ==
    /\ main = "stopped"
    /\ main' = "gone"
    /\ proc' = [p \in Procs |-> IF p = Ext THEN proc[p] ELSE "dead"]
    /\ handle' = None /\ attached' = (attached /\ handle = None)
    /\ raced' = RestartMaySpawn
    /\ UNCHANGED <<stop, halted, fast, backoff, loop, pc, failed>>

-----------------------------------------------------------------------------
(* Restart(), on the IPC thread or the frame worker.                       *)

Restart(c) ==
    /\ pc[c] = "idle" /\ main \notin {"init", "start"}
    /\ c = Worker => main = "run"
    /\ halted' = FALSE /\ fast' = 0
    /\ pc' = [pc EXCEPT ![c] = "kill"]
    /\ UNCHANGED <<proc, handle, attached, stop, backoff, loop, main, failed, raced>>

RestartKill(c) ==
    /\ pc[c] = "kill"
    /\ Kill
    /\ pc' = [pc EXCEPT ![c] = "check"]
    /\ UNCHANGED <<backoff, loop, main, raced>>

RestartCheck(c) ==
    /\ pc[c] = "check"
    /\ pc' = [pc EXCEPT ![c] = IF stop THEN "idle" ELSE "spawn"]
    /\ UNCHANGED <<proc, sup, backoff, loop, main, failed, raced>>

RestartSpawn(c) ==
    /\ pc[c] = "spawn"
    /\ \E ok \in BOOLEAN : Spawn(ok)
    /\ pc' = [pc EXCEPT ![c] = "idle"]
    /\ UNCHANGED <<backoff, loop, main, raced>>

-----------------------------------------------------------------------------
(* MonitorLoop.                                                            *)

Rest == <<stop, main, pc, failed, raced>>   \* what the monitor itself never writes

\* OnHostReady() writes to the control pipe, then the loop goes on to next; the
\* write to a hung host may block.
WriteOnReady(next) ==
    \/ mon' = next /\ UNCHANGED writing
    \/ \E p \in Hung : mon' = "blocked" /\ writing' = p

\* Mutant of MonTop: an open breaker is looked at before the stop request.
MonTopHaltedFirst ==
    /\ mon = "top"
    /\ \/ stop /\ ~halted /\ mon' = "done" /\ UNCHANGED <<cur, writing>>
       \/ halted /\ mon' = "top" /\ UNCHANGED <<cur, writing>>
       \/ /\ ~stop /\ ~halted /\ cur' = handle
          /\ IF handle = None THEN mon' = "probe" /\ UNCHANGED writing ELSE WriteOnReady("wait")
    /\ UNCHANGED <<Rest, proc, handle, attached, halted, fast, backoff>>

MonTop ==
    /\ mon = "top"
    /\ \/ stop /\ mon' = "done" /\ UNCHANGED <<cur, writing>>
       \/ ~stop /\ halted /\ mon' = "top" /\ UNCHANGED <<cur, writing>>
       \/ /\ ~stop /\ ~halted /\ cur' = handle
          /\ IF handle = None THEN mon' = "probe" /\ UNCHANGED writing ELSE WriteOnReady("wait")
    /\ UNCHANGED <<Rest, proc, handle, attached, halted, fast, backoff>>

\* A blocked write fails once its host is dead.
MonUnblock ==
    /\ mon = "blocked" /\ writing \notin Hung
    /\ writing' = None
    /\ mon' = IF cur = None THEN "top" ELSE "wait"
    /\ UNCHANGED <<Rest, proc, handle, attached, halted, fast, backoff, cur>>

\* No handle: watch the pipe of an attached host, else sleep 500 ms.
MonProbe ==
    /\ mon = "probe"
    /\ \/ attached /\ mon' = "lost" /\ UNCHANGED writing   \* the probe may fail either way
       \/ attached /\ (Responsive \/ Hung # {}) /\ WriteOnReady("top")
       \/ ~attached /\ mon' = "top" /\ UNCHANGED writing
    /\ UNCHANGED <<Rest, proc, handle, attached, halted, fast, backoff, cur>>

MonLost ==
    /\ mon = "lost"
    /\ attached' = FALSE
    /\ mon' = "delay"
    /\ UNCHANGED <<Rest, proc, handle, halted, fast, backoff, cur, writing>>

\* WaitForSingleObject(cur_handle, max(backoff_ms, 1000)): signalled once the
\* process is dead, a timeout while it lives, a failure if Kill() has closed
\* the handle.  A stop request seen after the wait ends the thread.
MonWait ==
    /\ mon = "wait"
    /\ cur' = None
    /\ \/ ~Alive(cur) /\ mon' = (IF stop THEN "done" ELSE "reap")
       \/ (Alive(cur) \/ handle # cur) /\ mon' = (IF stop THEN "done" ELSE "top")
    /\ UNCHANGED <<Rest, proc, handle, attached, halted, fast, backoff, writing>>

\* Mutant of MonReap: a singleton exit is not followed by a spawn.
MonReapNoRespawn ==
    /\ mon = "reap"
    /\ handle' = None /\ proc' = Forget
    /\ mon' = CASE handle = None          -> "top"
                [] handle # None /\ proc[handle] = "exit3" -> "top"
                [] OTHER                  -> "count"
    /\ UNCHANGED <<Rest, attached, halted, fast, backoff, cur, writing>>

\* Reads the exit code of, and closes, whatever process_handle_ is now: not
\* necessarily the handle the wait was for.
MonReap ==
    /\ mon = "reap"
    /\ handle' = None /\ proc' = Forget
    /\ mon' = CASE handle = None          -> "top"     \* Kill() beat us to it
                [] handle # None /\ proc[handle] = "exit3" -> "check"
                [] OTHER                  -> "count"
    /\ UNCHANGED <<Rest, attached, halted, fast, backoff, cur, writing>>

\* uptime_ms is measured from the last loop iteration, so it is below
\* kFastExitThresholdMs unless a failed spawn has raised backoff_ms.
CountsAsFast == IF backoff = 0 THEN {TRUE} ELSE BOOLEAN

\* Mutant of MonCount: the breaker never opens.
MonCountNoBreaker ==
    /\ mon = "count"
    /\ \E f \in CountsAsFast : fast' = IF f THEN fast + 1 ELSE 0
    /\ mon' = "delay"
    /\ UNCHANGED <<Rest, proc, handle, attached, halted, backoff, cur, writing>>

\* Mutant of MonCount: the breaker opens, and the loop goes on to the spawn.
MonCountGoesOn ==
    /\ mon = "count"
    /\ \E f \in CountsAsFast : fast' = IF f /\ fast < Threshold THEN fast + 1 ELSE 0
    /\ halted' = (halted \/ fast' >= Threshold)
    /\ mon' = "delay"
    /\ UNCHANGED <<Rest, proc, handle, attached, backoff, cur, writing>>

MonCount ==
    /\ mon = "count"
    /\ \E f \in CountsAsFast : fast' = IF f THEN fast + 1 ELSE 0
    /\ halted' = (halted \/ fast' >= Threshold)
    /\ mon' = IF fast' >= Threshold THEN "top" ELSE "delay"
    /\ UNCHANGED <<Rest, proc, handle, attached, backoff, cur, writing>>

\* The back-off sleep, then the stop check.
MonCheck ==
    /\ mon \in {"delay", "check"}
    /\ mon' = IF stop THEN "done" ELSE "spawn"
    /\ UNCHANGED <<Rest, proc, handle, attached, halted, fast, backoff, cur, writing>>

MonSpawn ==
    /\ mon = "spawn"
    /\ mon' = "top"
    /\ \E ok \in BOOLEAN :
          /\ Spawn(ok)
          /\ backoff' = IF ok THEN 0 ELSE IF backoff = MaxBackoff THEN backoff ELSE backoff + 1
    /\ UNCHANGED <<cur, writing, main, pc, raced>>

-----------------------------------------------------------------------------
Monitor == \/ MonTop \/ MonUnblock \/ MonProbe \/ MonLost \/ MonWait
           \/ MonReap \/ MonCount \/ MonCheck \/ MonSpawn
Module  == CleanupStaleHostIfWedged \/ Start \/ StopRequest \/ StopKill \/ StopJoin \/ Destroy
Resume(c) == RestartKill(c) \/ RestartCheck(c) \/ RestartSpawn(c)
Kernel  == \E p \in Procs : TakeMutex(p) \/ BindPipe(p) \/ Hang(p) \/ Crash(p)
Next    == Monitor \/ Module \/ Kernel \/ \E c \in Callers : Restart(c) \/ Resume(c)

Spec == Init /\ [][Next]_vars

\* Threads that have begun something finish it; a booting host gets somewhere.
\* Nothing forces a crash, a Restart() or a shutdown to happen, and a hung host
\* may hang for ever.
Fairness ==
    /\ WF_vars(Monitor)
    /\ WF_vars(CleanupStaleHostIfWedged) /\ WF_vars(Start)
    /\ WF_vars(StopKill) /\ WF_vars(StopJoin) /\ WF_vars(Destroy)
    /\ \A c \in Callers : WF_vars(Resume(c))
    /\ \A p \in Procs : WF_vars(TakeMutex(p)) /\ WF_vars(BindPipe(p))

FairSpec == Spec /\ Fairness

-----------------------------------------------------------------------------
\* The type invariant: the counters stay within the breaker threshold and the back-off cap.
TypeOK ==
    /\ proc \in [Procs -> {"dead", "exit3", "booting", "starting", "ready", "hung"}]
    /\ handle \in Pids \cup {None} /\ cur \in Pids \cup {None} /\ writing \in Procs \cup {None}
    /\ attached \in BOOLEAN /\ stop \in BOOLEAN /\ halted \in BOOLEAN
    /\ fast \in 0 .. Threshold /\ backoff \in 0 .. MaxBackoff
    /\ failed \in BOOLEAN /\ raced \in BOOLEAN
    /\ mon \in {"off", "top", "blocked", "probe", "lost", "wait", "reap", "count", "delay",
                "check", "spawn", "done"}
    /\ main \in {"init", "start", "run", "kill", "join", "stopped", "gone"}
    /\ pc \in [Callers -> {"idle", "kill", "check", "spawn"}]

\* When the destructor has returned, no host this supervisor ever spawned is
\* alive, whatever Restart(), the monitor and the hosts did meanwhile, unless the
\* IPC thread was inside Restart() between its test of stop_requested_ and its
\* Spawn(): the host spawned then belongs to no job (raced).  A Restart() that
\* passed the test before Stop() and spawns before the destructor is covered.
NoHostOutlivesDriver == main = "gone" /\ ~raced => \A p \in Pids : ~Alive(p)

\* The breaker is logged as "halting respawn" (HostSupervisorBase.cpp:521): while
\* it is open no host is started, but by a Restart() that has closed it and finds
\* it opened again by the monitor.
BreakerHolds ==
    [][halted /\ (\E p \in Pids : ~Alive(p) /\ Alive(p)') => \E c \in Callers : pc[c] = "spawn"]_vars

WriteHangs == mon = "blocked" /\ writing \in Hung

\* Stop() returns: the join in it never waits for a monitor that cannot see
\* the stop request, and its Kill() frees one blocked on the tracked host's pipe.
\* What remains is a write to a host that hangs for ever and that Kill() does not
\* reach (one the supervisor is attached to or has lost the handle of).
StopReturns == stop ~> (main \in {"stopped", "gone"} \/ []WriteHangs)

Serving == Tracked \/ attached

\* HostSupervisorBase.h:25: the monitor thread, once it runs, gets a supervisor
\* without a live or attached host a new one, unless the breaker has opened or
\* the module is shutting down.  After a Spawn() that failed nothing is
\* promised: the loop then finds no handle and never spawns again.  Nor does a
\* monitor that is blocked for ever on the pipe of a hung host.
Recovers ==
    (mon # "off" /\ ~Serving) ~> (Serving \/ halted \/ stop \/ failed \/ []WriteHangs)
=============================================================================
