--------------------------- MODULE ControlMessage ---------------------------
(***************************************************************************)
(* The queued control-pipe message of the two HostSupervisor subclasses:   *)
(* the active-module uuid of face tracking, the config blob of captions.   *)
(* The IPC thread sets it and sends it at once; the monitor thread sends   *)
(* it from OnHostReady while it is not marked sent; OnHostExited clears    *)
(* the mark.  The lock is held for the fields, never across the send, so   *)
(* the two threads' sends and marks interleave.  After a Restart() the     *)
(* captions module sends its config again; face tracking's does not.       *)
(*                                                                         *)
(* A message is the number of the request that set it.  The host accepts   *)
(* one connection at a time, so a send can fail although the host is up.   *)
(***************************************************************************)
EXTENDS Naturals

CONSTANTS
    Captions,     \* the captions module and supervisor, or those of face tracking
    MaxSets,      \* bound: messages set by the overlay
    MaxRestarts,  \* bound: Restart() requests
    MaxExits      \* bound: hosts that exit by themselves

ASSUME KindAssumption == Captions \in BOOLEAN
ASSUME BoundsAssumption == MaxSets \in Nat /\ MaxRestarts \in Nat /\ MaxExits \in Nat

VARIABLES
    pending, sent,      \* pending_command_ (0: none), command_sent_
    host, config,       \* the host process, the message it acted on last
    ipc, ipcMsg,        \* the IPC thread and its copy of the message
    again,              \* the request of the IPC thread ends with a second send
    monPc, monMsg,      \* the monitor thread and its copy
    restarts, exits,    \* bounds
    written             \* history: messages some host has received

ipcVars == <<ipc, ipcMsg, again>>
monVars == <<monPc, monMsg>>
messageVars == <<pending, sent, host, config, ipcVars, monVars, restarts, exits, written>>

MessageInit ==
    /\ pending = 0 /\ sent = FALSE
    /\ host = "booting" /\ config = 0
    /\ ipc = "idle" /\ ipcMsg = 0 /\ again = FALSE /\ monPc = "ready" /\ monMsg = 0
    /\ restarts = 0 /\ exits = 0 /\ written = {}

-----------------------------------------------------------------------------
(* The host process.                                                       *)

Bind == host = "booting" /\ host' = "up"
        /\ UNCHANGED <<pending, sent, config, ipcVars, monVars, restarts, exits, written>>

Exit == /\ host # "down" /\ exits < MaxExits
        /\ host' = "down" /\ config' = 0
        /\ exits' = exits + 1
        /\ UNCHANGED <<pending, sent, ipcVars, monVars, restarts, written>>

-----------------------------------------------------------------------------
(* Shared pieces.                                                          *)

\* SendBytesOverControlPipe succeeds: the host acts on message m.
Deliver(m) ==
    /\ host = "up"
    /\ config' = m
    /\ written' = written \cup {m}

\* Mutant of Mark: whatever was sent, the pending message is marked.
MarkAnything(m) == sent' = TRUE

\* TrySendCommand / TrySendUuid after a successful send.
Mark(m) == sent' = (sent \/ (Captions => m = pending))

\* OnHostReady's test.
WantsSend == pending # 0 /\ ~sent

-----------------------------------------------------------------------------
(* The IPC thread: SetHostConfigCommand / SetActiveModuleUuid, Restart.    *)

\* The call that sends is over: the request is answered, or its second send follows.
SendIsOver == ipc' = IF again THEN "again" ELSE "idle"

SetCommand ==
    /\ ipc = "idle" /\ pending < MaxSets
    /\ pending' = pending + 1 /\ ipcMsg' = pending + 1
    /\ sent' = FALSE
    /\ ipc' = "send"
    /\ UNCHANGED <<host, config, again, monVars, restarts, exits, written>>

IpcSend ==
    /\ ipc = "send"
    /\ \/ Deliver(ipcMsg) /\ ipc' = "mark"
       \/ SendIsOver /\ UNCHANGED <<config, written>>
    /\ UNCHANGED <<pending, sent, host, ipcMsg, again, monVars, restarts, exits>>

IpcMark ==
    /\ ipc = "mark"
    /\ Mark(ipcMsg)
    /\ SendIsOver
    /\ UNCHANGED <<pending, host, config, ipcMsg, again, monVars, restarts, exits, written>>

\* Mutant of RestartHost: the module does not send its config again.
RestartHostOnly ==
    /\ ipc = "idle" /\ restarts < MaxRestarts
    /\ restarts' = restarts + 1
    /\ sent' = (sent /\ pending = 0)
    /\ ipc' = "respawn" /\ again' = FALSE
    /\ UNCHANGED <<pending, host, config, ipcMsg, monVars, exits, written>>

\* Restart(): OnHostExited, then Kill and Spawn, then Spawn's OnHostReady.
RestartHost ==
    /\ ipc = "idle" /\ restarts < MaxRestarts
    /\ restarts' = restarts + 1
    /\ sent' = (sent /\ pending = 0)
    /\ ipc' = "respawn" /\ again' = Captions
    /\ UNCHANGED <<pending, host, config, ipcMsg, monVars, exits, written>>

Respawn ==
    /\ ipc = "respawn"
    /\ host' = "booting" /\ config' = 0
    /\ ipc' = "ready"
    /\ UNCHANGED <<pending, sent, ipcMsg, again, monVars, restarts, exits, written>>

IpcReady ==
    /\ ipc = "ready"
    /\ \/ WantsSend /\ ipc' = "send"
       \/ ~WantsSend /\ SendIsOver
    /\ ipcMsg' = pending
    /\ UNCHANGED <<pending, sent, host, config, again, monVars, restarts, exits, written>>

\* The captions module after its Restart(): SetHostConfigCommand once more with
\* the config it has, the default one if the overlay has not sent any.
SendAgain ==
    /\ ipc = "again"
    /\ pending' = IF pending = 0 THEN 1 ELSE pending
    /\ sent' = FALSE
    /\ ipcMsg' = pending' /\ ipc' = "send" /\ again' = FALSE
    /\ UNCHANGED <<host, config, monVars, restarts, exits, written>>

-----------------------------------------------------------------------------
(* The monitor thread.                                                     *)

OnHostReady ==
    /\ monPc = "ready"
    /\ monPc' = IF WantsSend THEN "send" ELSE "watch"
    /\ monMsg' = pending
    /\ UNCHANGED <<pending, sent, host, config, ipcVars, restarts, exits, written>>

MonSend ==
    /\ monPc = "send"
    /\ \/ Deliver(monMsg) /\ monPc' = "mark"
       \/ monPc' = "watch" /\ UNCHANGED <<config, written>>
    /\ UNCHANGED <<pending, sent, host, ipcVars, monMsg, restarts, exits>>

MonMark ==
    /\ monPc = "mark"
    /\ Mark(monMsg)
    /\ monPc' = "watch"
    /\ UNCHANGED <<pending, host, config, ipcVars, monMsg, restarts, exits, written>>

\* Mutant of Watch: OnHostReady is called for a new host only.
WatchNoRetry ==
    /\ monPc = "watch" /\ host = "down"
    /\ monPc' = "spawn" /\ sent' = (sent /\ pending = 0)
    /\ UNCHANGED <<pending, host, config, ipcVars, monMsg, restarts, exits, written>>

\* The wait on the process: still alive, or exited and OnHostExited is called.
Watch ==
    /\ monPc = "watch"
    /\ IF host = "down"
         THEN monPc' = "spawn" /\ sent' = (sent /\ pending = 0)
         ELSE monPc' = "ready" /\ UNCHANGED sent
    /\ UNCHANGED <<pending, host, config, ipcVars, monMsg, restarts, exits, written>>

\* Spawn(): a new host unless Restart() has already made one.
MonRespawn ==
    /\ monPc = "spawn"
    /\ host' = IF host = "down" THEN "booting" ELSE host
    /\ monPc' = "ready"
    /\ UNCHANGED <<pending, sent, config, ipcVars, monMsg, restarts, exits, written>>

-----------------------------------------------------------------------------
Host         == Bind \/ Exit
IpcStep      == IpcSend \/ IpcMark \/ Respawn \/ IpcReady \/ SendAgain
MonitorSends == OnHostReady \/ MonSend \/ MonMark \/ Watch \/ MonRespawn
MessageNext  == Host \/ SetCommand \/ RestartHost \/ IpcStep \/ MonitorSends

MessageSpec == MessageInit /\ [][MessageNext]_messageVars

\* Both threads keep running, a host that boots binds its pipe, and the pipe
\* is not busy every time the monitor tries.
MessageFairness ==
    /\ WF_messageVars(Bind) /\ WF_messageVars(IpcStep) /\ WF_messageVars(MonitorSends)
    /\ SF_messageVars(MonSend /\ monPc' = "mark")

FairMessageSpec == MessageSpec /\ MessageFairness

-----------------------------------------------------------------------------
\* The type invariant: no thread holds a message that was not queued.
MessageTypeOK ==
    /\ pending \in Nat /\ sent \in BOOLEAN
    /\ host \in {"booting", "up", "down"} /\ config \in 0 .. pending
    /\ ipc \in {"idle", "send", "mark", "respawn", "ready", "again"} /\ ipcMsg \in 0 .. pending
    /\ again \in BOOLEAN
    /\ monPc \in {"ready", "send", "mark", "watch", "spawn"} /\ monMsg \in 0 .. pending
    /\ restarts \in Nat /\ exits \in Nat /\ written \subseteq 1 .. pending

\* A message is marked sent only when some host has received that message: a
\* failed send leaves it queued, whatever the other thread was sending.
SentMeansWritten == sent => pending \in written

\* Every message set is received by a host, or replaced by a newer one.
EventuallyWritten ==
    \A m \in 1 .. MaxSets : (pending = m) ~> (m \in written \/ pending # m)

\* The host that a captions Restart() has started gets a config, unless it exits
\* or is replaced in turn: the module's second send (CaptionsDriverModule.cpp:142)
\* clears the mark, so that the monitor sends until the new host answers.  It is
\* not so where the monitor has sent to the old host and marks only after that.
RestartReachesHost ==
    (Captions /\ ipc = "ready" /\ monPc # "mark")
        ~> (config # 0 \/ ipc = "respawn" \/ host = "down")
=============================================================================
