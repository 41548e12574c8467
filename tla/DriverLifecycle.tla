--------------------------- MODULE DriverLifecycle --------------------------
(***************************************************************************)
(* ServerTrackedDeviceProvider::Init and Cleanup with the threads they     *)
(* start and stop: a driver module, its IPC server (module IpcServer, with *)
(* the overlay's client at the other end) and a SteamVR thread that calls  *)
(* a hooked function and so runs a detour.                                 *)
(*                                                                         *)
(* vrserver loads the driver, calls Init, later Cleanup, and exits; or it  *)
(* crashes.  The seven servers of the code are alike and are stopped one   *)
(* after the other; one stands for them.  Likewise for modules and         *)
(* detours.                                                                *)
(***************************************************************************)
EXTENDS IpcServer

VARIABLES
    pc,         \* where Init or Cleanup is
    module,     \* "none", "up", "shutDown", "destroyed"
    hooked,     \* do hooked functions jump to the detours, and do trampolines exist?
    inFlight    \* g_inFlightDetours; here, whether the thread is in a detour

driver == <<pc, module, hooked>>
vars == <<ipcVars, driver, inFlight>>

Init ==
    /\ IpcInit
    /\ pc = "unloaded" /\ module = "none" /\ hooked = FALSE
    /\ inFlight = 0

-----------------------------------------------------------------------------
(* ServerTrackedDeviceProvider::Init                                       *)

\* The modules, then the servers.
StartModulesAndServer ==
    /\ pc = "unloaded"
    /\ pc' = "started"
    /\ module' = "up"
    /\ RunServer
    /\ UNCHANGED <<ev, next, pending, cur, signalled, pipeVars, client, execs, hooked, inFlight>>

\* MH_Initialize may fail; Init then stops the server and gives up.
InjectHooks ==
    /\ pc = "started"
    /\ \/ pc' = "up" /\ hooked' = TRUE
       \/ pc' = "stopping" /\ UNCHANGED hooked
    /\ UNCHANGED <<ipcVars, module, inFlight>>

-----------------------------------------------------------------------------
(* ServerTrackedDeviceProvider::Cleanup                                    *)

\* DisableHooks: MH_RemoveHook restores the functions and frees the
\* trampolines, then the detours are drained.
RemoveHooks ==
    /\ pc = "up"
    /\ pc' = "draining" /\ hooked' = FALSE
    /\ UNCHANGED <<ipcVars, module, inFlight>>

\* Mutant of DrainInFlightDetours: no deadline.
DrainWithoutDeadline ==
    /\ pc = "draining" /\ inFlight = 0
    /\ pc' = "drained"
    /\ UNCHANGED <<ipcVars, module, hooked, inFlight>>

\* The counter is zero, or half a second has passed.
DrainInFlightDetours ==
    /\ pc = "draining"
    /\ \/ inFlight = 0
       \/ inFlight > 0
    /\ pc' = "drained"
    /\ UNCHANGED <<ipcVars, module, hooked, inFlight>>

\* The module's Shutdown() is called, and returns once its threads are joined:
\* not at all, when the router's publish thread waits for a silent client
\* (module OscRouter) or the host supervisor's in a pipe (module HostSupervisor).
ShutdownModules ==
    /\ pc = "drained"
    /\ pc' = "shutting" /\ module' = "shutDown"
    /\ UNCHANGED <<ipcVars, hooked, inFlight>>

ShutdownReturns ==
    /\ pc = "shutting"
    /\ pc' = "clearing"
    /\ UNCHANGED <<ipcVars, module, hooked, inFlight>>

ClearModules ==
    /\ pc = "clearing"
    /\ pc' = "stopping" /\ module' = "destroyed"
    /\ UNCHANGED <<ipcVars, hooked, inFlight>>

StopServer == pc = "stopping" /\ Stop /\ UNCHANGED <<driver, inFlight>>

CloseShmem ==
    /\ pc = "stopping" /\ stopper = "joined"
    /\ pc' = "down"
    /\ UNCHANGED <<ipcVars, module, hooked, inFlight>>

\* vrserver may exit once the driver is down, or crash at any time; its
\* threads and its handles go with it.  What a pipe holds can still be read.
ProcessEnds ==
    /\ pc' = "unloaded" /\ module' = "none" /\ hooked' = FALSE
    /\ inFlight' = 0
    /\ srv' = "none" /\ stop' = FALSE /\ event' = "null" /\ signalled' = FALSE
    /\ stopper' = "idle" /\ ev' = "null" /\ next' = None /\ pending' = FALSE /\ cur' = None
    /\ inst' = [p \in Pipes |-> "none"] /\ req' = [p \in Pipes |-> None]
    /\ UNCHANGED <<conn, rsp, client, execs>>

Exit  == pc = "down" /\ ProcessEnds
Crash == pc # "unloaded" /\ ProcessEnds

\* HandleIpcRequest: the handshake, or the module of the server's feature.
HandleIpcRequest ==
    /\ srv = "handling"
    /\ HandleRequest(IF req[cur] = "handshake" \/ module \in {"up", "shutDown"}
                       THEN "ok" ELSE "invalid")
    /\ UNCHANGED <<driver, inFlight>>

-----------------------------------------------------------------------------
(* A thread of SteamVR in a detour.                                        *)

\* DetourScope counts it.  (The few instructions between the jump through the
\* patch and the count are not modelled.)
EnterDetour ==
    /\ hooked /\ inFlight = 0
    /\ inFlight' = inFlight + 1
    /\ UNCHANGED <<ipcVars, driver>>

\* HandleDevicePoseUpdated and the original function have returned.
LeaveDetour ==
    /\ inFlight > 0
    /\ inFlight' = inFlight - 1
    /\ UNCHANGED <<ipcVars, driver>>

Detour == EnterDetour \/ LeaveDetour

-----------------------------------------------------------------------------
Cleanup ==
    \/ DrainInFlightDetours \/ ShutdownModules \/ ClearModules \/ StopServer \/ CloseShmem

Completion(p) == (CompletedRead(p) \/ CompletedWrite(p)) /\ UNCHANGED <<driver, inFlight>>
ServerStep == (ServerThread /\ UNCHANGED <<driver, inFlight>>) \/ HandleIpcRequest
ClientStep == Client /\ UNCHANGED <<driver, inFlight>>

Next ==
    \/ StartModulesAndServer \/ InjectHooks \/ RemoveHooks \/ Cleanup \/ ShutdownReturns
    \/ Exit \/ Crash
    \/ ServerStep \/ ClientStep
    \/ (SendBlocking \/ ClientExits \/ WaitFails) /\ UNCHANGED <<driver, inFlight>>
    \/ Detour

Spec == Init /\ [][Next]_vars

\* Threads that have something to do get to do it; a detour may hang in
\* SteamVR, a module in its Shutdown, and nobody has to load, use, clean up or
\* unload the driver.  Every
\* completion routine is run at last: only a CreateNamedPipe that fails for
\* ever would keep the event signalled and the server thread from it.  And
\* the wait returns at last, however fast requests follow on each other.
FairSpec ==
    /\ Spec
    /\ WF_vars(Cleanup) /\ WF_vars(ServerStep) /\ WF_vars(ClientStep)
    /\ SF_vars(CheckStop /\ UNCHANGED <<driver, inFlight>>)
    /\ \A p \in Pipes : SF_vars(Completion(p))

-----------------------------------------------------------------------------
\* The type invariant.
TypeOK ==
    /\ srv \in {"none", "entered", "create", "connect", "check", "wait", "woken", "handling",
                "exiting", "guard", "exited"}
    /\ stop \in BOOLEAN /\ event \in {"null", "live", "closed"} /\ signalled \in BOOLEAN
    /\ stopper \in {"idle", "flagged", "read", "joining", "joined"}
    /\ ev \in {"null", "live", "closed"}
    /\ next \in Pipes \cup {None} /\ pending \in BOOLEAN /\ cur \in Pipes \cup {None}
    /\ inst \in [Pipes -> {"none", "listening", "connected", "reading", "handling", "writing"}]
    /\ conn \in [Pipes -> BOOLEAN]
    /\ req \in [Pipes -> Kinds \cup {None}] /\ rsp \in [Pipes -> Answers \cup {None}]
    /\ cli \in {"idle", "open", "send", "receive", "answered"}
    /\ pipe \in Pipes \cup {None}
    /\ todo \in Seq([kind : Kinds, retry : BOOLEAN]) /\ execs \in Nat
    /\ pc \in {"unloaded", "started", "up", "draining", "drained", "shutting", "clearing", "stopping",
              "down"}
    /\ module \in {"none", "up", "shutDown", "destroyed"}
    /\ hooked \in BOOLEAN /\ inFlight \in 0..1

\* However the driver stops, crashes and comes back, SendBlocking has the
\* driver execute a request at most twice.
AtMostTwice == execs <= 2

\* A request that is answered "ok" was executed by the driver, and not merely
\* by answering the handshake of a reconnect or with an answer that an
\* earlier request left in the pipe.
AnswerMeansExecuted ==
    [][cli = "receive" /\ cli' = "answered" /\ rsp[pipe] = "ok" => execs > 0]_vars

\* No wakeup is lost in IPCServer::Stop(): it never joins a thread that waits for
\* an event nobody will set, wherever the thread was when Stop() set the flag and
\* read the handle; and once Cleanup is over the thread has ended.
StopIsHeard ==
    /\ stopper = "joining" /\ srv = "wait" => signalled
    /\ pc = "down" => srv = "exited"

\* Cleanup returns, even when a detour hangs in SteamVR and whatever the
\* server thread is doing when it is told to stop, unless a module's Shutdown
\* does not.
CleanupReturns ==
    []<>(pc \notin {"draining", "drained", "shutting", "clearing", "stopping"})
    \/ <>[](pc = "shutting")

\* The client waits on an instance that listened, and that no thread will take:
\* the server's has ended without closing it (its wait failed, or Stop), while
\* vrserver runs on.
Stranded ==
    cli = "receive" /\ inst[pipe] = "connected" /\ srv \in {"exiting", "guard", "exited"}

\* SendBlocking returns or throws: a client that waits for ever for an answer
\* is one that got hold of the instance that an ended server has left open.
ClientAnswered == []<>(cli = "idle") \/ <>[]Stranded

\* The order Cleanup's comment gives (the servers are stopped before what
\* they use is torn down): no request to a module is worked on once that module
\* is being shut down or has been destroyed.
HandlerSeesModule == srv = "handling" /\ req[cur] = "request" => module \in {"none", "up"}
=============================================================================
