----------------------------- MODULE IpcServer ------------------------------
(***************************************************************************)
(* One feature's named pipe: the IPCServer thread in the driver and the    *)
(* IpcClientBase of the overlay at the other end.                          *)
(*                                                                         *)
(* The server thread waits alertably for the connect event; completion     *)
(* routines (CompletedReadCallback, CompletedWriteCallback) run inside     *)
(* that wait.  Stop() runs in the driver's thread.  The client sends one   *)
(* request at a time and blocks for the answer; a broken pipe makes it     *)
(* reconnect, handshake and send once more.                                *)
(*                                                                         *)
(* External, from how the code uses them: the pipe instances (message      *)
(* pipes; a client can connect to every instance that listens, whether or  *)
(* not a thread still waits for it), the event, alertable waits.           *)
(***************************************************************************)
EXTENDS Naturals, Sequences

CONSTANTS
    Pipes,    \* bound: how many pipe instances can exist at the same time
    None

ASSUME PipesAssumption == None \notin Pipes

VARIABLES
    srv,            \* where the server thread is
    stop, event,    \* IPCServer::stop; connectEvent: "null", "live" or "closed"
    signalled,      \* the state of the event
    stopper,        \* where Stop() is
    ev,             \* the handle Stop() has read
    next, pending,  \* nextPipe, connectPending
    cur,            \* the instance whose request HandleRequest is working on
    inst,           \* the server's end of each pipe
    conn,           \* is the client's end open?
    req, rsp,       \* the message in each direction of a pipe, or None
    cli,            \* where the client is
    pipe,           \* pipe_
    todo,           \* exchanges left for this SendBlocking: [kind, retry]
    execs           \* history: how often the client's current request was executed

server == <<srv, next, pending, cur>>
stopVars == <<stop, stopper, ev>>
eventVars == <<event, signalled>>
pipeVars == <<inst, conn, req, rsp>>
client == <<cli, pipe, todo>>
ipcVars == <<server, stopVars, eventVars, pipeVars, client, execs>>

Kinds == {"handshake", "request"}
Answers == {"ok", "invalid"}

ASSUME NoneAssumption == None \notin Kinds \cup Answers

IpcInit ==
    /\ srv = "none" /\ stop = FALSE /\ event = "null" /\ signalled = FALSE
    /\ stopper = "idle" /\ ev = "null"
    /\ next = None /\ pending = FALSE /\ cur = None
    /\ inst = [p \in Pipes |-> "none"] /\ conn = [p \in Pipes |-> FALSE]
    /\ req = [p \in Pipes |-> None] /\ rsp = [p \in Pipes |-> None]
    /\ cli = "idle" /\ pipe = None /\ todo = << >> /\ execs = 0

-----------------------------------------------------------------------------
(* The server thread.                                                      *)

Instances == {p \in Pipes : inst[p] \in {"reading", "handling", "writing"}}

\* RunThread up to the event, which starts signalled; CreateEvent may fail.
CreateConnectEvent ==
    /\ srv = "entered"
    /\ \/ event' = "live" /\ signalled' = TRUE /\ srv' = "create"
       \/ srv' = "exiting" /\ UNCHANGED eventVars
    /\ UNCHANGED <<next, pending, cur, stopVars, pipeVars, client, execs>>

Free == {p \in Pipes : inst[p] = "none" /\ ~conn[p]}

\* CreateNamedPipe: a client can connect from here on.
CreateInstance ==
    /\ srv = "create"
    /\ pending' = FALSE
    /\ \/ \E p \in Free :
             /\ p = CHOOSE q \in Free : TRUE
             /\ next' = p /\ srv' = "connect"
             /\ inst' = [inst EXCEPT ![p] = "listening"]
             /\ req' = [req EXCEPT ![p] = None] /\ rsp' = [rsp EXCEPT ![p] = None]
       \/ next' = None /\ srv' = "check" /\ UNCHANGED <<inst, req, rsp>>
    /\ UNCHANGED <<cur, conn, stopVars, eventVars, client, execs>>

\* DisconnectNamedPipe, CloseHandle: what the client has not read is dropped.
Disconnected(p) ==
    /\ inst' = [inst EXCEPT ![p] = "none"]
    /\ req' = [req EXCEPT ![p] = None] /\ rsp' = [rsp EXCEPT ![p] = None]

\* ConnectNamedPipe resets the event and waits, or finds a client connected.
\* If it fails, say because that client has left again, the pipe is closed, and
\* the server goes on with no instance to connect to and no event to come.
ConnectInstance ==
    /\ srv = "connect"
    /\ srv' = "check"
    /\ \/ /\ inst[next] = "connected" => conn[next]
          /\ pending' = (inst[next] = "listening") /\ signalled' = (inst[next] = "connected")
          /\ UNCHANGED <<next, inst, req, rsp>>
       \/ /\ Disconnected(next)
          /\ next' = None /\ pending' = FALSE /\ signalled' = FALSE
    /\ UNCHANGED <<cur, conn, stopVars, event, client, execs>>

\* The tests of stop: the loop's condition and the one after the wait.
CheckStop ==
    /\ srv \in {"check", "woken"}
    /\ srv' = IF stop THEN "exiting" ELSE "wait"
    /\ UNCHANGED <<next, pending, cur, stopVars, eventVars, pipeVars, client, execs>>

\* The event ends the wait: the client's instance starts reading, and the
\* next one is created.  A failed GetOverlappedResult ends the thread, a
\* failed CreateNamedPipe is tried again.
Accept ==
    /\ srv = "wait" /\ signalled
    /\ \/ /\ ~stop /\ next # None
          /\ inst' = [inst EXCEPT ![next] = "reading"]
          /\ srv' = "create" /\ UNCHANGED <<req, rsp>>
       \/ ~stop /\ pending /\ Disconnected(next) /\ srv' = "exiting"
       \/ ~stop /\ next = None /\ srv' = "create" /\ UNCHANGED <<inst, req, rsp>>
       \/ stop /\ srv' = "exiting" /\ UNCHANGED <<inst, req, rsp>>
    /\ next' = IF stop THEN next ELSE None
    /\ pending' = (stop /\ pending)
    /\ UNCHANGED <<cur, conn, stopVars, eventVars, client, execs>>

\* WaitForSingleObjectEx fails and the thread ends; the instance that listens
\* stays open.
WaitFails ==
    /\ srv = "wait"
    /\ srv' = "exiting"
    /\ UNCHANGED <<next, pending, cur, stopVars, eventVars, pipeVars, client, execs>>

Alertable == srv \in {"wait", "woken"}

\* CompletedReadCallback: a request, which is worked on between here and
\* HandleRequest; or one of the wrong size, an error, or a client that is gone.
CompletedRead(p) ==
    /\ Alertable /\ inst[p] = "reading"
    /\ \/ /\ req[p] # None
          /\ srv' = "handling" /\ cur' = p
          /\ inst' = [inst EXCEPT ![p] = "handling"] /\ UNCHANGED <<req, rsp>>
       \/ /\ req[p] # None \/ ~conn[p]
          /\ Disconnected(p)
          /\ srv' = "woken" /\ UNCHANGED cur
    /\ UNCHANGED <<next, pending, conn, stopVars, eventVars, client, execs>>

\* HandleRequest has returned answer, which WriteFileEx sends.
HandleRequest(answer) ==
    /\ srv = "handling"
    /\ srv' = "woken" /\ cur' = None
    /\ execs' = IF req[cur] = "request" /\ answer = "ok" /\ conn[cur] THEN execs + 1 ELSE execs
    /\ IF conn[cur]
         THEN /\ inst' = [inst EXCEPT ![cur] = "writing"]
              /\ req' = [req EXCEPT ![cur] = None] /\ rsp' = [rsp EXCEPT ![cur] = answer]
         ELSE Disconnected(cur)
    /\ UNCHANGED <<next, pending, conn, stopVars, eventVars, client>>

\* Mutant of WriteFailed: the instance is dropped and its pipe left open.
WriteFailedKeepsPipe(p) ==
    inst' = [inst EXCEPT ![p] = "connected"] /\ rsp' = [rsp EXCEPT ![p] = None] /\ UNCHANGED req

\* CompletedWriteCallback with an error: ClosePipeInstance.
WriteFailed(p) == Disconnected(p)

CompletedWrite(p) ==
    /\ Alertable /\ inst[p] = "writing"
    /\ srv' = "woken"
    /\ \/ inst' = [inst EXCEPT ![p] = "reading"] /\ UNCHANGED <<req, rsp>>
       \/ WriteFailed(p)
    /\ UNCHANGED <<next, pending, cur, conn, stopVars, eventVars, client, execs>>

\* ThreadGuard: every instance is closed, then the event.  The pipe that was
\* waiting for its client is in neither list.
CloseInstances ==
    /\ srv = "exiting"
    /\ srv' = "guard"
    /\ inst' = [p \in Pipes |-> IF p \in Instances THEN "none" ELSE inst[p]]
    /\ req' = [p \in Pipes |-> IF p \in Instances THEN None ELSE req[p]]
    /\ rsp' = [p \in Pipes |-> IF p \in Instances THEN None ELSE rsp[p]]
    /\ UNCHANGED <<next, pending, cur, conn, stopVars, eventVars, client, execs>>

CloseEvent ==
    /\ srv = "guard"
    /\ srv' = "exited"
    /\ event' = IF event = "live" THEN "closed" ELSE event
    /\ signalled' = FALSE /\ next' = None /\ pending' = FALSE
    /\ UNCHANGED <<cur, stopVars, pipeVars, client, execs>>

ServerThread ==
    \/ CreateConnectEvent \/ CreateInstance \/ ConnectInstance \/ CheckStop \/ Accept
    \/ \E p \in Pipes : CompletedRead(p) \/ CompletedWrite(p)
    \/ CloseInstances \/ CloseEvent

-----------------------------------------------------------------------------
(* Run() and Stop(), called by the driver's thread.                        *)

RunServer == srv' = "entered" /\ stop' = FALSE /\ event' = "null" /\ stopper' = "idle"

StopFlag ==
    /\ stopper = "idle"
    /\ stop' = TRUE /\ stopper' = "flagged"
    /\ UNCHANGED <<ev, server, eventVars, pipeVars, client, execs>>

StopReadEvent ==
    /\ stopper = "flagged"
    /\ ev' = event /\ stopper' = "read"
    /\ UNCHANGED <<stop, server, eventVars, pipeVars, client, execs>>

\* Mutant of StopSignal: no SetEvent, the thread is left in its wait.
StopSignalSkipped ==
    /\ stopper = "read"
    /\ stopper' = "joining"
    /\ UNCHANGED <<stop, ev, server, eventVars, pipeVars, client, execs>>

\* SetEvent on the handle that was read, which may be closed by now.
StopSignal ==
    /\ stopper = "read"
    /\ stopper' = "joining" /\ ev' = "null"
    /\ signalled' = (signalled \/ (ev = "live" /\ event = "live"))
    /\ UNCHANGED <<stop, server, event, pipeVars, client, execs>>

StopJoin ==
    /\ stopper = "joining" /\ srv = "exited"
    /\ stopper' = "joined"
    /\ UNCHANGED <<stop, ev, server, eventVars, pipeVars, client, execs>>

Stop == StopFlag \/ StopReadEvent \/ StopSignal \/ StopJoin

-----------------------------------------------------------------------------
(* The client.                                                             *)

clientElse == <<server, stopVars, eventVars, inst>>

SendBlocking ==
    /\ cli = "idle"
    /\ IF pipe = None
         THEN cli' = "open" /\ todo' = <<[kind |-> "handshake", retry |-> TRUE],
                                         [kind |-> "request", retry |-> TRUE]>>
         ELSE cli' = "send" /\ todo' = <<[kind |-> "request", retry |-> TRUE]>>
    /\ UNCHANGED <<pipe, clientElse, conn, req, rsp, execs>>

\* SendBlocking throws: the caller sees an error.
Throw == cli' = "idle" /\ todo' = << >> /\ execs' = 0

\* Connect up to the handshake: any listening instance will do.
Listening == {p \in Pipes : inst[p] = "listening"}

Connect ==
    /\ cli = "open"
    /\ \/ \E p \in Listening :
             /\ pipe' = p /\ cli' = "send" /\ conn' = [conn EXCEPT ![p] = TRUE]
             /\ inst' = [inst EXCEPT ![p] = "connected"]
             /\ signalled' = (signalled \/ (p = next /\ pending)) /\ UNCHANGED <<todo, execs>>
       \/ Listening = {} /\ Throw /\ UNCHANGED <<pipe, conn, inst, signalled>>
    /\ UNCHANGED <<server, stopVars, event, req, rsp>>

Close == conn' = [conn EXCEPT ![pipe] = FALSE] /\ pipe' = None

\* Mutant of Resend: the second copy may be sent again.
ResendForever(t) == <<[kind |-> "handshake", retry |-> FALSE], t[1]>> \o Tail(t)

\* Mutant of Resend: the handshake is taken for the exchange that failed.
ResendNothing(t) == <<[kind |-> "handshake", retry |-> FALSE]>> \o Tail(t)

\* What is left after a reconnect: its handshake and the exchange that
\* failed, neither of which is tried again.
Resend(t) ==
    <<[kind |-> "handshake", retry |-> FALSE], [t[1] EXCEPT !.retry = FALSE]>> \o Tail(t)

\* BrokenPipeException.
BrokenPipe ==
    /\ Close
    /\ IF todo[1].retry THEN cli' = "open" /\ todo' = Resend(todo) /\ UNCHANGED execs ELSE Throw
    /\ UNCHANGED <<clientElse, req, rsp>>

ServerGone == inst[pipe] = "none"

Send ==
    /\ cli = "send"
    /\ \/ /\ ~ServerGone
          /\ req' = [req EXCEPT ![pipe] = todo[1].kind]
          /\ cli' = "receive" /\ UNCHANGED <<pipe, todo, conn, rsp, clientElse, execs>>
       \/ ServerGone /\ BrokenPipe

\* A handshake of another version closes the pipe and throws.
Receive ==
    /\ cli = "receive"
    /\ \/ /\ rsp[pipe] # None
          /\ rsp' = [rsp EXCEPT ![pipe] = None]
          /\ \/ /\ cli' = IF Len(todo) = 1 THEN "answered" ELSE "send"
                /\ todo' = Tail(todo) /\ UNCHANGED <<pipe, conn, execs>>
             \/ todo[1].kind = "handshake" /\ Close /\ Throw
          /\ UNCHANGED <<clientElse, req>>
       \/ rsp[pipe] = None /\ ServerGone /\ BrokenPipe

Return ==
    /\ cli = "answered"
    /\ cli' = "idle" /\ execs' = 0
    /\ UNCHANGED <<pipe, todo, clientElse, conn, req, rsp>>

\* The overlay exits, or is killed while it waits for the answer to a request.
ClientExits ==
    /\ pipe # None /\ (cli = "idle" \/ (cli = "receive" /\ todo[1].kind = "request"))
    /\ cli' = "idle" /\ todo' = << >> /\ pipe' = None /\ execs' = 0
    /\ conn' = [p \in Pipes |-> FALSE]
    /\ UNCHANGED <<clientElse, req, rsp>>

Client == Connect \/ Send \/ Receive \/ Return
=============================================================================
