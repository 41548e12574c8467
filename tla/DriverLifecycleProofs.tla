----------------------- MODULE DriverLifecycleProofs ------------------------
(***************************************************************************)
(* Theorems about the named pipe between the overlay and the driver while  *)
(* the driver starts, stops, crashes and comes back, for any number of     *)
(* pipe instances.                                                         *)
(***************************************************************************)
EXTENDS DriverLifecycle, SequenceTheorems, TLAPS

States == {"none", "listening", "connected", "reading", "handling", "writing"}

\* What the proofs need of the types.
PipeTypeOK ==
    /\ inst \in [Pipes -> States] /\ conn \in [Pipes -> BOOLEAN]
    /\ req \in [Pipes -> Kinds \cup {None}] /\ rsp \in [Pipes -> Answers \cup {None}]
    /\ pipe \in Pipes \cup {None} /\ execs \in Nat

Hello    == [kind |-> "handshake", retry |-> TRUE]
Again    == [kind |-> "handshake", retry |-> FALSE]   \* of a reconnect
Ask      == [kind |-> "request", retry |-> TRUE]
AskAgain == [kind |-> "request", retry |-> FALSE]

\* What SendBlocking has left to do before it has reconnected for the request
\* (Early), and after it has (Late).  The last exchange is the request.
Early == {<<Hello, Ask>>, <<Again, Again, Ask>>, <<Again, Ask>>, <<Ask>>}
Late  == {<<Again, AskAgain>>, <<AskAgain>>}

\* The client's end: it has a pipe exactly while it is connected, and a plan
\* exactly while it is sending.
ClientInv ==
    /\ cli \in {"idle", "open", "send", "receive", "answered"}
    /\ cli = "open" => pipe = None
    /\ cli \in {"send", "receive", "answered"} => pipe # None
    /\ IF cli \in {"idle", "answered"} THEN todo = << >> ELSE todo \in Early \cup Late
    /\ \A p \in Pipes : conn[p] => p = pipe

\* What is in the pipes: an instance that listens is empty; the client's pipe
\* holds, in one direction only, the exchange the client is waiting for.
PipeInv ==
    /\ \A p \in Pipes : inst[p] = "listening" => ~conn[p] /\ req[p] = None /\ rsp[p] = None
    /\ srv = "handling" => cur \in Pipes /\ req[cur] # None
    /\ \A p \in Pipes : conn[p] /\ req[p] # None =>
          cli = "receive" /\ req[p] = todo[1].kind /\ rsp[p] = None
    /\ \A p \in Pipes : conn[p] /\ rsp[p] # None => cli = "receive"

\* The client's end of the pipe it has is open.
OpenInv == pipe # None => conn[pipe]

AtRequest == cli = "receive" /\ todo[1].kind = "request"

\* How often the request has been executed: never before it is sent; at most
\* once by each of the two copies; by then, if the answer says "ok".
ExecsInv ==
    /\ cli = "idle" => execs = 0
    /\ todo \in Early => execs <= 1 /\ (~AtRequest \/ req[pipe] # None => execs = 0)
    /\ todo \in Late => execs <= 2 /\ (~AtRequest \/ req[pipe] # None => execs <= 1)
    /\ cli = "answered" => execs <= 2
    /\ AtRequest /\ rsp[pipe] = "ok" => execs > 0

IInv == PipeTypeOK /\ ClientInv /\ OpenInv /\ PipeInv /\ ExecsInv

-----------------------------------------------------------------------------
(* The plans.                                                              *)

\* The exchanges.
LEMMA Exchanges ==
    /\ Hello.kind = "handshake" /\ Again.kind = "handshake"
    /\ Ask.kind = "request" /\ AskAgain.kind = "request"
    /\ Hello.retry = TRUE /\ Ask.retry = TRUE /\ Again.retry = FALSE /\ AskAgain.retry = FALSE
  BY DEF Hello, Again, Ask, AskAgain

\* The second copy of an exchange is not tried again.
LEMMA Copies ==
    [Hello EXCEPT !.retry = FALSE] = Again /\ [Ask EXCEPT !.retry = FALSE] = AskAgain
  <1>1. ASSUME NEW k, NEW b, NEW c
        PROVE  [[kind |-> k, retry |-> b] EXCEPT !.retry = c] = [kind |-> k, retry |-> c]
    OBVIOUS
  <1> QED
    BY <1>1, Zenon DEF Hello, Again, Ask, AskAgain

\* A plan of one exchange.
LEMMA Tuple1 == ASSUME NEW a PROVE Len(<<a>>) = 1 /\ <<a>>[1] = a /\ Tail(<<a>>) = << >>
  OBVIOUS

\* A plan of two.
LEMMA Tuple2 ==
    ASSUME NEW a, NEW b
    PROVE  /\ Len(<<a, b>>) = 2 /\ <<a, b>>[1] = a /\ Tail(<<a, b>>) = <<b>>
           /\ <<a, b>> \o << >> = <<a, b>>
  OBVIOUS

\* A plan of three.
LEMMA Tuple3 ==
    ASSUME NEW a, NEW b, NEW c
    PROVE  Len(<<a, b, c>>) = 3 /\ Tail(<<a, b, c>>) = <<b, c>>
  OBVIOUS

\* A plan put together of two exchanges and one.
LEMMA Join ==
    ASSUME NEW a, NEW b, NEW c, NEW x, NEW y, x = <<a, b>>, y = <<c>>
    PROVE  x \o y = <<a, b, c>>
  <1> DEFINE S == {a, b, c}
             s == <<a, b, c>>
  <1>1. Len(s) = 3 /\ s[1] = a /\ s[2] = b /\ s[3] = c /\ s \in Seq(S)
    OBVIOUS
  <1>2. x \in Seq(S) /\ y \in Seq(S) /\ Len(x) = 2 /\ Len(y) = 1
    OBVIOUS
  <1>3. x \o y \in Seq(S) /\ Len(x \o y) = 3
        /\ \A i \in 1 .. 3 : (x \o y)[i] = IF i <= 2 THEN x[i] ELSE y[i - 2]
    BY <1>2, ConcatProperties
  <1>4. \A i \in 1 .. 3 : (x \o y)[i] = s[i]
    BY <1>3
  <1> HIDE DEF s
  <1>5. x \o y = s
    BY <1>1, <1>3, <1>4, SeqEqual
  <1> QED
    BY <1>5 DEF s

\* A plan that has been finished is none, and no plan is early and late.
LEMMA PlansDiffer == << >> \notin Early \cup Late /\ \A t \in Early : t \notin Late
  <1>1. Ask # AskAgain /\ Hello # Again /\ Again # Ask
    BY DEF Hello, Again, Ask, AskAgain
  <1>2. \A t \in Early : t \notin Late
    BY <1>1 DEF Early, Late
  <1>3. << >> \notin Early \cup Late
    BY DEF Early, Late
  <1> QED
    BY <1>2, <1>3

\* A plan ends with the request, and only an early one is tried again.
LEMMA PlanHead ==
    ASSUME NEW t \in Early \cup Late
    PROVE  /\ t[1].kind \in Kinds /\ t[1].retry \in BOOLEAN
           /\ Len(t) = 1 <=> t[1].kind = "request"
           /\ t[1].retry => t \in Early
  <1>1. CASE t = <<Hello, Ask>>
    <2>1. Len(t) = 2 /\ t[1] = Hello /\ t \in Early
      BY <1>1 DEF Early
    <2>2. t[1].kind = "handshake" /\ t[1].kind # "request" /\ t[1].retry = TRUE
      BY <2>1, Exchanges
    <2>3. t[1].retry \in BOOLEAN
      BY <2>2
    <2> QED
      BY <2>1, <2>2, <2>3 DEF Kinds
  <1>2. CASE t \in {<<Again, Ask>>, <<Again, AskAgain>>, <<Again, Again, Ask>>}
    <2>1. Len(t) # 1 /\ t[1] = Again
      BY <1>2
    <2>2. t[1].kind = "handshake" /\ t[1].retry = FALSE
      BY <2>1, Exchanges
    <2> QED
      BY <2>1, <2>2 DEF Kinds
  <1>3. CASE t = <<Ask>>
    <2>1. Len(t) = 1 /\ t[1] = Ask /\ t \in Early
      BY <1>3 DEF Early
    <2> QED
      BY <2>1, Exchanges DEF Kinds
  <1>4. CASE t = <<AskAgain>>
    <2>1. Len(t) = 1 /\ t[1] = AskAgain
      BY <1>4
    <2>2. t[1].kind = "request" /\ t[1].retry = FALSE
      BY <2>1, Exchanges
    <2> QED
      BY <2>1, <2>2 DEF Kinds
  <1> QED
    BY <1>1, <1>2, <1>3, <1>4 DEF Early, Late

\* What is left after the first exchange.
LEMMA PlanTail ==
    ASSUME NEW t \in Early \cup Late
    PROVE  /\ Len(t) = 1 => Tail(t) = << >>
           /\ t \in Early /\ Len(t) # 1 => Tail(t) \in Early
           /\ t \in Late /\ Len(t) # 1 => Tail(t) \in Late
  <1>1. CASE t \in {<<Hello, Ask>>, <<Again, Ask>>}
    <2>1. Len(t) = 2 /\ Tail(t) = <<Ask>>
      BY <1>1, Tuple2
    <2> QED
      BY <1>1, <2>1, PlansDiffer DEF Early
  <1>2. CASE t = <<Again, AskAgain>>
    <2>1. Len(t) = 2 /\ Tail(t) = <<AskAgain>>
      BY <1>2, Tuple2
    <2> QED
      BY <1>2, <2>1, PlansDiffer DEF Late
  <1>3. CASE t = <<Again, Again, Ask>>
    <2>1. Len(t) = 3 /\ Tail(t) = <<Again, Ask>>
      BY <1>3, Tuple3
    <2> QED
      BY <1>3, <2>1, PlansDiffer DEF Early
  <1>4. CASE t \in {<<Ask>>, <<AskAgain>>}
    BY <1>4, Tuple1
  <1> QED
    BY <1>1, <1>2, <1>3, <1>4 DEF Early, Late

\* A reconnect for a handshake leaves both copies of the request to be sent,
\* one for the request only the second.
LEMMA PlanResend ==
    ASSUME NEW t \in Early, t[1].retry
    PROVE  Resend(t) \in IF t[1].kind = "request" THEN Late ELSE Early
  <1>1. Resend(t) = <<Again, [t[1] EXCEPT !.retry = FALSE]>> \o Tail(t)
    BY DEF Resend, Again
  <1>2. CASE t = <<Hello, Ask>>
    <2>1. t[1] = Hello /\ Tail(t) = <<Ask>>
      BY <1>2, Tuple2
    <2>2. Resend(t) = <<Again, Again>> \o Tail(t)
      BY <1>1, <2>1, Copies
    <2>3. Resend(t) = <<Again, Again, Ask>>
      BY <2>1, <2>2, Join
    <2> QED
      BY <2>1, <2>3, Exchanges DEF Early
  <1>3. CASE t = <<Ask>>
    <2>1. t[1] = Ask /\ Tail(t) = << >>
      BY <1>3, Tuple1
    <2>2. Resend(t) = <<Again, AskAgain>> \o << >>
      BY <1>1, <2>1, Copies
    <2>3. Resend(t) = <<Again, AskAgain>>
      BY <2>2, Tuple2
    <2> QED
      BY <2>1, <2>3, Exchanges DEF Late
  <1>4. CASE t \in {<<Again, Again, Ask>>, <<Again, Ask>>}
    <2>1. t[1] = Again
      BY <1>4
    <2> QED
      BY <2>1, Exchanges
  <1> QED
    BY <1>2, <1>3, <1>4 DEF Early
-----------------------------------------------------------------------------
(* Steps of the driver and its server thread.                              *)

\* A step of theirs that starts no work on a request only ever takes messages
\* out of pipes, and listens on a pipe only when it is nobody's and empty.
LEMMA QuietStep ==
    ASSUME IInv, UNCHANGED <<conn, cli, pipe, todo, execs>>,
           inst' \in [Pipes -> States],
           req' \in [Pipes -> Kinds \cup {None}], rsp' \in [Pipes -> Answers \cup {None}],
           \A p \in Pipes : req'[p] \in {req[p], None} /\ rsp'[p] \in {rsp[p], None},
           \A p \in Pipes : inst'[p] = "listening" =>
                inst[p] = "listening" \/ (~conn[p] /\ req'[p] = None /\ rsp'[p] = None),
           srv' # "handling" \/ UNCHANGED <<srv, cur, req>>
    PROVE  IInv'
  <1> USE DEF IInv
  <1>1. PipeTypeOK'
    BY DEF PipeTypeOK
  <1>2. ClientInv' /\ OpenInv'
    BY DEF ClientInv, OpenInv
  <1>3. PipeInv'
    <2>1. \A p \in Pipes : inst'[p] = "listening" => ~conn'[p] /\ req'[p] = None /\ rsp'[p] = None
      BY DEF PipeInv
    <2>2. srv' = "handling" => cur' \in Pipes /\ req'[cur'] # None
      BY DEF PipeInv
    <2>3. ASSUME NEW p \in Pipes, conn'[p], req'[p] # None
          PROVE  cli' = "receive" /\ req'[p] = todo'[1].kind /\ rsp'[p] = None
      BY <2>3 DEF PipeInv
    <2>4. ASSUME NEW p \in Pipes, conn'[p], rsp'[p] # None PROVE cli' = "receive"
      BY <2>4 DEF PipeInv
    <2> QED
      BY <2>1, <2>2, <2>3, <2>4 DEF PipeInv
  <1>4. ExecsInv'
    <2>1. AtRequest' <=> AtRequest
      BY DEF AtRequest
    <2>2. ~AtRequest \/ (pipe \in Pipes /\ req'[pipe] \in {req[pipe], None}
                                        /\ rsp'[pipe] \in {rsp[pipe], None})
      BY DEF AtRequest, ClientInv, PipeTypeOK
    <2> QED
      BY <2>1, <2>2, NoneAssumption DEF ExecsInv, Answers
  <1> QED
    BY <1>1, <1>2, <1>3, <1>4

\* The driver's own steps, but for its end.
LEMMA DriverStep == ASSUME IInv, UNCHANGED <<cur, pipeVars, client, execs>>,
                           srv' # "handling" \/ UNCHANGED srv
                    PROVE  IInv'
  <1>1. UNCHANGED <<cur, inst, conn, req, rsp, cli, pipe, todo, execs>>
    BY DEF pipeVars, client
  <1>2. inst' \in [Pipes -> States]
        /\ req' \in [Pipes -> Kinds \cup {None}] /\ rsp' \in [Pipes -> Answers \cup {None}]
    BY <1>1 DEF IInv, PipeTypeOK
  <1> QED
    BY <1>1, <1>2, QuietStep

\* vrserver ends: what its pipes hold for the client can still be read.
LEMMA EndStep == ASSUME IInv, ProcessEnds PROVE IInv'
  <1>1. /\ UNCHANGED <<conn, cli, pipe, todo, execs, rsp>> /\ srv' = "none"
        /\ inst' = [p \in Pipes |-> "none"] /\ req' = [p \in Pipes |-> None]
    BY DEF ProcessEnds, client
  <1>2. inst' \in [Pipes -> States]
        /\ req' \in [Pipes -> Kinds \cup {None}] /\ rsp' \in [Pipes -> Answers \cup {None}]
    BY <1>1 DEF IInv, PipeTypeOK, States
  <1>3. \A p \in Pipes : req'[p] = None /\ rsp'[p] = rsp[p] /\ inst'[p] = "none"
    BY <1>1
  <1> QED
    BY <1>1, <1>2, <1>3, QuietStep

\* Closing a pipe empties it.
LEMMA DisconnectStep ==
    ASSUME IInv, NEW p, Disconnected(p), srv' # "handling", UNCHANGED <<conn, client, execs>>
    PROVE  IInv'
  <1>1. UNCHANGED <<conn, cli, pipe, todo, execs>>
    BY DEF client
  <1>2. inst' \in [Pipes -> States]
        /\ req' \in [Pipes -> Kinds \cup {None}] /\ rsp' \in [Pipes -> Answers \cup {None}]
    BY DEF IInv, PipeTypeOK, States, Disconnected
  <1>3. \A q \in Pipes : req'[q] \in {req[q], None} /\ rsp'[q] \in {rsp[q], None}
                         /\ inst'[q] \in {inst[q], "none"}
    BY DEF IInv, PipeTypeOK, Disconnected
  <1> QED
    BY <1>1, <1>2, <1>3, QuietStep

\* Working on a request goes on to another state of its instance.
LEMMA MoveStep ==
    ASSUME IInv, NEW p, NEW s \in States \ {"listening"}, inst' = [inst EXCEPT ![p] = s],
           UNCHANGED <<conn, req, rsp, client, execs>>, srv' # "handling"
    PROVE  IInv'
  <1>1. UNCHANGED <<conn, cli, pipe, todo, execs, req, rsp>>
    BY DEF client
  <1>2. inst' \in [Pipes -> States]
        /\ req' \in [Pipes -> Kinds \cup {None}] /\ rsp' \in [Pipes -> Answers \cup {None}]
    BY DEF IInv, PipeTypeOK
  <1>3. \A q \in Pipes : inst'[q] \in {inst[q], s}
    BY DEF IInv, PipeTypeOK
  <1> QED
    BY <1>1, <1>2, <1>3, QuietStep
\* A new instance is made of a pipe the client has not got open.
LEMMA CreateStep == ASSUME IInv, CreateInstance PROVE IInv'
  <1>1. UNCHANGED <<conn, cli, pipe, todo, execs>>
    BY DEF CreateInstance, client
  <1>2. CASE UNCHANGED <<inst, req, rsp>> /\ srv' = "check"
    BY <1>1, <1>2, DriverStep DEF CreateInstance, pipeVars, client
  <1>3. ASSUME NEW p \in Free, srv' = "connect",
               inst' = [inst EXCEPT ![p] = "listening"],
               req' = [req EXCEPT ![p] = None], rsp' = [rsp EXCEPT ![p] = None]
        PROVE  IInv'
    <2>1. p \in Pipes /\ ~conn[p]
      BY DEF Free
    <2>2. inst' \in [Pipes -> States]
          /\ req' \in [Pipes -> Kinds \cup {None}] /\ rsp' \in [Pipes -> Answers \cup {None}]
      BY <1>3 DEF IInv, PipeTypeOK, States
    <2>3. \A q \in Pipes : /\ req'[q] \in {req[q], None} /\ rsp'[q] \in {rsp[q], None}
                           /\ q # p => inst'[q] = inst[q]
                           /\ q = p => req'[q] = None /\ rsp'[q] = None
      BY <1>3 DEF IInv, PipeTypeOK
    <2> QED
      BY <1>1, <1>3, <2>1, <2>2, <2>3, QuietStep
  <1> QED
    BY <1>2, <1>3 DEF CreateInstance

\* The thread's end closes every instance that is in its list.
LEMMA CloseStep == ASSUME IInv, CloseInstances PROVE IInv'
  <1>1. UNCHANGED <<conn, cli, pipe, todo, execs>> /\ srv' = "guard"
    BY DEF CloseInstances, client
  <1>2. inst' \in [Pipes -> States]
        /\ req' \in [Pipes -> Kinds \cup {None}] /\ rsp' \in [Pipes -> Answers \cup {None}]
    BY DEF CloseInstances, IInv, PipeTypeOK, States
  <1>3. \A q \in Pipes : req'[q] \in {req[q], None} /\ rsp'[q] \in {rsp[q], None}
                         /\ inst'[q] \in {inst[q], "none"}
    BY DEF CloseInstances
  <1> QED
    BY <1>1, <1>2, <1>3, QuietStep

\* A request that has arrived is worked on, or its instance is closed.
LEMMA ReadStep == ASSUME IInv, NEW p \in Pipes, CompletedRead(p) PROVE IInv'
  <1>1. CASE srv' # "handling"
    BY <1>1, DisconnectStep DEF CompletedRead
  <1>2. CASE srv' = "handling"
    <2>1. /\ UNCHANGED <<conn, cli, pipe, todo, execs, req, rsp>> /\ req[p] # None
          /\ srv' = "handling" /\ cur' = p /\ inst' = [inst EXCEPT ![p] = "handling"]
      BY <1>2 DEF CompletedRead, client
    <2>2. inst' \in [Pipes -> States] /\ \A q \in Pipes : inst'[q] \in {inst[q], "handling"}
      BY <2>1 DEF IInv, PipeTypeOK, States
    <2>3. PipeTypeOK' /\ ClientInv' /\ OpenInv'
      BY <2>1, <2>2 DEF IInv, PipeTypeOK, ClientInv, OpenInv
    <2>4. PipeInv'
      BY <1>2, <2>1, <2>2 DEF IInv, PipeInv
    <2>5. ExecsInv'
      BY <2>1 DEF IInv, ExecsInv, AtRequest
    <2> QED
      BY <2>3, <2>4, <2>5 DEF IInv
  <1> QED
    BY <1>1, <1>2

\* A request is executed once, and answered on the pipe it came from.
LEMMA HandleStep == ASSUME IInv, NEW a \in Answers, HandleRequest(a) PROVE IInv'
  <1>1. /\ srv = "handling" /\ srv' = "woken" /\ cur \in Pipes /\ req[cur] # None
        /\ UNCHANGED <<conn, cli, pipe, todo>>
    BY DEF HandleRequest, client, IInv, PipeInv
  <1>2. CASE ~conn[cur]
    <2>1. UNCHANGED execs /\ Disconnected(cur)
      BY <1>2 DEF HandleRequest
    <2> QED
      BY <1>1, <2>1, DisconnectStep DEF client
  <1>3. CASE conn[cur]
    <2>1. /\ inst' = [inst EXCEPT ![cur] = "writing"] /\ req' = [req EXCEPT ![cur] = None]
          /\ rsp' = [rsp EXCEPT ![cur] = a]
          /\ execs' = IF req[cur] = "request" /\ a = "ok" THEN execs + 1 ELSE execs
      BY <1>3 DEF HandleRequest
    <2>2. cur = pipe /\ cli = "receive" /\ req[cur] = todo[1].kind
      BY <1>1, <1>3 DEF IInv, ClientInv, PipeInv
    <2>3. /\ inst' \in [Pipes -> States] /\ req' \in [Pipes -> Kinds \cup {None}]
          /\ rsp' \in [Pipes -> Answers \cup {None}] /\ execs' \in Nat
      <3>1. execs' \in Nat
        BY <2>1 DEF IInv, PipeTypeOK
      <3>2. inst' \in [Pipes -> States] /\ req' \in [Pipes -> Kinds \cup {None}]
        BY <2>1 DEF IInv, PipeTypeOK, States
      <3>3. rsp' \in [Pipes -> Answers \cup {None}]
        BY <2>1 DEF IInv, PipeTypeOK
      <3> QED
        BY <3>1, <3>2, <3>3
    <2>4. \A q \in Pipes : /\ q # cur => inst'[q] = inst[q] /\ req'[q] = req[q] /\ rsp'[q] = rsp[q]
                           /\ q = cur => inst'[q] = "writing" /\ req'[q] = None /\ rsp'[q] = a
      BY <2>1 DEF IInv, PipeTypeOK
    <2>5. PipeTypeOK' /\ ClientInv' /\ OpenInv'
      BY <1>1, <2>3 DEF IInv, PipeTypeOK, ClientInv, OpenInv
    <2>6. PipeInv'
      <3>1. ASSUME NEW q \in Pipes PROVE inst'[q] = "listening" => inst[q] = "listening" /\ q # cur
        BY <2>4
      <3>2. ASSUME NEW q \in Pipes, conn[q] PROVE q = cur
        BY <2>2, <3>2 DEF IInv, ClientInv
      <3> QED
        BY <1>1, <2>2, <2>4, <3>1, <3>2 DEF IInv, PipeInv
    <2>7. ExecsInv'
      <3>1. AtRequest <=> req[cur] = "request"
        BY <2>2 DEF AtRequest
      <3>2. req'[pipe] = None /\ rsp'[pipe] = a /\ AtRequest' = AtRequest /\ req[pipe] # None
        BY <1>1, <2>2, <2>4 DEF AtRequest
      <3>3. execs \in Nat
        BY DEF IInv, PipeTypeOK
      <3> HIDE DEF AtRequest
      <3>4. CASE AtRequest
        BY <1>1, <2>1, <2>2, <3>1, <3>2, <3>3, <3>4 DEF IInv, ExecsInv
      <3>5. CASE ~AtRequest
        BY <1>1, <2>1, <2>2, <3>1, <3>2, <3>3, <3>5 DEF IInv, ExecsInv
      <3> QED
        BY <3>4, <3>5
    <2> QED
      BY <2>5, <2>6, <2>7 DEF IInv
  <1> QED
    BY <1>2, <1>3

\* The whole server thread.
LEMMA ServerInv == ASSUME IInv, ServerStep PROVE IInv'
  <1>1. CASE CreateConnectEvent
    BY <1>1, DriverStep DEF CreateConnectEvent
  <1>2. CASE CreateInstance
    BY <1>2, CreateStep
  <1>3. CASE ConnectInstance
    <2>1. srv' # "handling" /\ UNCHANGED <<conn, client, execs, cur>>
      BY <1>3 DEF ConnectInstance
    <2>2. CASE UNCHANGED <<inst, req, rsp>>
      BY <2>1, <2>2, DriverStep DEF pipeVars
    <2>3. CASE Disconnected(next)
      BY <2>1, <2>3, DisconnectStep
    <2> QED
      BY <1>3, <2>2, <2>3 DEF ConnectInstance
  <1>4. CASE CheckStop
    BY <1>4, DriverStep DEF CheckStop
  <1>5. CASE Accept
    <2>1. srv' # "handling" /\ UNCHANGED <<conn, client, execs, cur>>
      BY <1>5 DEF Accept
    <2>2. CASE UNCHANGED <<inst, req, rsp>>
      BY <2>1, <2>2, DriverStep DEF pipeVars
    <2>3. CASE Disconnected(next)
      BY <2>1, <2>3, DisconnectStep
    <2>4. CASE inst' = [inst EXCEPT ![next] = "reading"] /\ UNCHANGED <<req, rsp>>
      BY <2>1, <2>4, MoveStep DEF States
    <2> QED
      BY <1>5, <2>2, <2>3, <2>4 DEF Accept
  <1>6. ASSUME NEW p \in Pipes, CompletedRead(p) PROVE IInv'
    BY <1>6, ReadStep
  <1>7. ASSUME NEW p \in Pipes, CompletedWrite(p) PROVE IInv'
    <2>1. srv' # "handling" /\ UNCHANGED <<conn, client, execs>>
      BY <1>7 DEF CompletedWrite
    <2>2. CASE Disconnected(p)
      BY <2>1, <2>2, DisconnectStep
    <2>3. CASE inst' = [inst EXCEPT ![p] = "reading"] /\ UNCHANGED <<req, rsp>>
      BY <2>1, <2>3, MoveStep DEF States
    <2> QED
      BY <1>7, <2>2, <2>3 DEF CompletedWrite, WriteFailed
  <1>8. CASE CloseInstances
    BY <1>8, CloseStep
  <1>9. CASE CloseEvent
    BY <1>9, DriverStep DEF CloseEvent
  <1>10. CASE HandleIpcRequest
    BY <1>10, HandleStep DEF HandleIpcRequest, Answers
  <1> QED
    BY <1>1, <1>2, <1>3, <1>4, <1>5, <1>6, <1>7, <1>8, <1>9, <1>10 DEF ServerStep, ServerThread
-----------------------------------------------------------------------------
(* Steps of the client.                                                    *)

\* What the client leaves alone, and what it does to the pipes' contents.
LEMMA ClientFrame ==
    ASSUME IInv, UNCHANGED <<srv, cur, req>>, PipeTypeOK', ClientInv', OpenInv', ExecsInv',
           \A p \in Pipes : inst'[p] = "listening" => inst[p] = "listening" /\ ~conn'[p]
                                                      /\ rsp'[p] = None,
           \A p \in Pipes : conn'[p] /\ req[p] # None =>
                cli' = "receive" /\ req[p] = todo'[1].kind /\ rsp'[p] = None,
           \A p \in Pipes : conn'[p] /\ rsp'[p] # None => cli' = "receive"
    PROVE  IInv'
  BY DEF IInv, PipeInv

\* SendBlocking starts from nothing executed and nothing in its pipe.
LEMMA SendBlockingStep == ASSUME IInv, SendBlocking PROVE IInv'
  <1>1. cli = "idle" /\ UNCHANGED <<srv, cur, inst, conn, req, rsp, pipe, execs>>
    BY DEF SendBlocking, clientElse, server
  <1>2. CASE pipe = None
    <2>1. cli' = "open" /\ todo' = <<Hello, Ask>>
      BY <1>2 DEF SendBlocking, Hello, Ask
    <2>2. todo' \in Early
      BY <2>1 DEF Early
    <2>3. PipeTypeOK' /\ ClientInv' /\ OpenInv'
      BY <1>1, <1>2, <2>1, <2>2 DEF IInv, PipeTypeOK, ClientInv, OpenInv
    <2>4. ExecsInv'
      BY <1>1, <2>1, <2>2, PlansDiffer DEF IInv, ExecsInv, AtRequest
    <2>5. \A p \in Pipes : ~conn[p]
      BY <1>2, PipesAssumption DEF IInv, ClientInv
    <2> QED
      BY <1>1, <2>1, <2>3, <2>4, <2>5, ClientFrame DEF IInv, PipeInv
  <1>3. CASE pipe # None
    <2>1. cli' = "send" /\ todo' = <<Ask>>
      BY <1>3 DEF SendBlocking, Ask
    <2>2. todo' \in Early
      BY <2>1 DEF Early
    <2>3. PipeTypeOK' /\ ClientInv' /\ OpenInv'
      BY <1>1, <1>3, <2>1, <2>2 DEF IInv, PipeTypeOK, ClientInv, OpenInv
    <2>4. ExecsInv'
      BY <1>1, <2>1, <2>2, PlansDiffer DEF IInv, ExecsInv, AtRequest
    <2> QED
      BY <1>1, <2>1, <2>3, <2>4, ClientFrame DEF IInv, PipeInv
  <1> QED
    BY <1>2, <1>3

\* SendBlocking throws, with its pipe closed or with one it never opened.
LEMMA ThrowStep ==
    ASSUME IInv, Throw, UNCHANGED <<srv, cur, req, inst>>, rsp' \in [Pipes -> Answers \cup {None}],
           \A p \in Pipes : rsp'[p] \in {rsp[p], None},
           pipe' = None, conn' \in [Pipes -> BOOLEAN], \A p \in Pipes : ~conn'[p]
    PROVE  IInv'
  <1>1. cli' = "idle" /\ todo' = << >> /\ execs' = 0
    BY DEF Throw
  <1>2. PipeTypeOK' /\ ClientInv' /\ OpenInv'
    BY <1>1 DEF IInv, PipeTypeOK, ClientInv, OpenInv
  <1>3. ExecsInv'
    BY <1>1, PlansDiffer DEF ExecsInv, AtRequest
  <1>4. \A p \in Pipes : inst[p] = "listening" => rsp'[p] = None
    BY DEF IInv, PipeInv
  <1> QED
    BY <1>2, <1>3, <1>4, ClientFrame

\* Connect finds an empty pipe.
LEMMA ConnectStep == ASSUME IInv, Connect PROVE IInv'
  <1>1. cli = "open" /\ pipe = None /\ UNCHANGED <<srv, cur, req, rsp>>
    BY DEF Connect, IInv, ClientInv, server
  <1>2. \A p \in Pipes : ~conn[p]
    BY <1>1, PipesAssumption DEF IInv, ClientInv
  <1>3. CASE Throw /\ UNCHANGED <<pipe, conn, inst>>
    BY <1>1, <1>2, <1>3, ThrowStep DEF IInv, PipeTypeOK
  <1>4. ASSUME NEW p \in Listening, pipe' = p, cli' = "send", conn' = [conn EXCEPT ![p] = TRUE],
               inst' = [inst EXCEPT ![p] = "connected"], UNCHANGED <<todo, execs>>
        PROVE  IInv'
    <2>1. p \in Pipes /\ req[p] = None /\ rsp[p] = None /\ p # None
      BY PipesAssumption DEF Listening, IInv, PipeInv
    <2>2. conn' \in [Pipes -> BOOLEAN] /\ inst' \in [Pipes -> States]
      BY <1>4 DEF IInv, PipeTypeOK, States
    <2>3. \A q \in Pipes : /\ conn'[q] <=> q = p
                           /\ inst'[q] = "listening" => inst[q] = "listening" /\ q # p
      BY <1>2, <1>4 DEF IInv, PipeTypeOK
    <2>4. PipeTypeOK' /\ OpenInv'
      BY <1>1, <1>4, <2>1, <2>2, <2>3 DEF IInv, PipeTypeOK, OpenInv
    <2>5. ClientInv'
      BY <1>1, <1>4, <2>1, <2>3 DEF IInv, ClientInv
    <2>6. ExecsInv'
      BY <1>1, <1>4 DEF IInv, ExecsInv, AtRequest
    <2> QED
      BY <1>1, <1>4, <2>1, <2>3, <2>4, <2>5, <2>6, ClientFrame DEF IInv, PipeInv
  <1> QED
    BY <1>3, <1>4 DEF Connect
\* A broken pipe is closed; the exchange that failed is tried once more, on
\* another.
LEMMA BrokenPipeStep ==
    ASSUME IInv, cli \in {"send", "receive"}, BrokenPipe PROVE IInv'
  <1>1. pipe \in Pipes /\ todo \in Early \cup Late
    BY DEF IInv, ClientInv, PipeTypeOK
  <1>2. pipe' = None /\ conn' \in [Pipes -> BOOLEAN] /\ UNCHANGED <<srv, cur, inst, req, rsp>>
    BY DEF BrokenPipe, Close, IInv, PipeTypeOK, clientElse, server
  <1>3. \A p \in Pipes : ~conn'[p]
    BY <1>1 DEF BrokenPipe, Close, IInv, PipeTypeOK, ClientInv
  <1>4. CASE ~todo[1].retry
    <2>1. Throw
      BY <1>4 DEF BrokenPipe
    <2> QED
      BY <1>2, <1>3, <2>1, ThrowStep DEF IInv, PipeTypeOK
  <1>5. CASE todo[1].retry
    <2>1. cli' = "open" /\ todo' = Resend(todo) /\ execs' = execs
      BY <1>5 DEF BrokenPipe
    <2>2. todo \in Early
      BY <1>1, <1>5, PlanHead
    <2>3. todo' \in IF todo[1].kind = "request" THEN Late ELSE Early
      BY <1>5, <2>1, <2>2, PlanResend
    <2>4. PipeTypeOK' /\ ClientInv' /\ OpenInv'
      BY <1>2, <1>3, <2>1, <2>3 DEF IInv, PipeTypeOK, ClientInv, OpenInv
    <2>5. execs \in Nat /\ execs <= 1 /\ (todo[1].kind # "request" => execs = 0)
      BY <2>2 DEF IInv, PipeTypeOK, ExecsInv, AtRequest
    <2>6. ~AtRequest' /\ cli' \notin {"idle", "answered"}
      BY <2>1 DEF AtRequest
    <2>7. ExecsInv'
      BY <2>1, <2>3, <2>5, <2>6, PlansDiffer DEF ExecsInv
    <2> QED
      BY <1>2, <1>3, <2>4, <2>7, ClientFrame DEF IInv, PipeInv
  <1> QED
    BY <1>4, <1>5

\* Send puts the exchange into an empty pipe.
LEMMA SendStep == ASSUME IInv, Send PROVE IInv'
  <1>1. CASE BrokenPipe
    BY <1>1, BrokenPipeStep DEF Send
  <1>2. CASE /\ req' = [req EXCEPT ![pipe] = todo[1].kind]
             /\ cli' = "receive" /\ UNCHANGED <<pipe, todo, conn, rsp, clientElse, execs>>
    <2>1. cli = "send" /\ pipe \in Pipes /\ conn[pipe] /\ todo \in Early \cup Late
      BY DEF Send, IInv, ClientInv, PipeTypeOK, OpenInv
    <2>2. req[pipe] = None /\ rsp[pipe] = None
      BY <2>1 DEF IInv, PipeInv
    <2>3. todo[1].kind \in Kinds
      BY <2>1, PlanHead
    <2>4. UNCHANGED <<srv, cur, inst, pipe, todo, conn, rsp, execs>> /\ cli' = "receive"
      BY <1>2 DEF clientElse, server
    <2>5. /\ req' \in [Pipes -> Kinds \cup {None}]
          /\ \A q \in Pipes : q # pipe => req'[q] = req[q]
          /\ req'[pipe] = todo[1].kind /\ req'[pipe] # None
      BY <1>2, <2>1, <2>3, NoneAssumption DEF IInv, PipeTypeOK
    <2>6. PipeTypeOK' /\ ClientInv' /\ OpenInv'
      BY <2>1, <2>4, <2>5 DEF IInv, PipeTypeOK, ClientInv, OpenInv
    <2>7. PipeInv'
      <3>1. \A q \in Pipes : conn[q] => q = pipe
        BY DEF IInv, ClientInv
      <3>2. \A q \in Pipes : inst[q] = "listening" => q # pipe
        BY <2>1 DEF IInv, PipeInv
      <3>3. \A q \in Pipes : req[q] # None => req'[q] # None
        BY <2>5
      <3> QED
        BY <2>2, <2>4, <2>5, <3>1, <3>2, <3>3 DEF IInv, PipeInv
    <2>8. ExecsInv'
      <3>1. ~AtRequest /\ rsp'[pipe'] = None /\ req'[pipe'] # None
        BY <2>1, <2>2, <2>4, <2>5 DEF AtRequest
      <3>2. todo' = todo /\ execs' = execs /\ cli' = "receive" /\ rsp'[pipe'] # "ok"
        BY <2>4, <3>1, NoneAssumption DEF Answers
      <3> HIDE DEF AtRequest
      <3> QED
        BY <3>1, <3>2 DEF IInv, ExecsInv
    <2> QED
      BY <2>6, <2>7, <2>8 DEF IInv
  <1> QED
    BY <1>1, <1>2 DEF Send

\* An answer is taken out of the pipe, and the next exchange begins.
LEMMA ReceiveStep == ASSUME IInv, Receive PROVE IInv'
  <1>1. cli = "receive" /\ pipe \in Pipes /\ conn[pipe] /\ todo \in Early \cup Late
    BY DEF Receive, IInv, ClientInv, PipeTypeOK, OpenInv
  <1>2. CASE BrokenPipe
    BY <1>1, <1>2, BrokenPipeStep
  <1>3. CASE rsp[pipe] # None /\ rsp' = [rsp EXCEPT ![pipe] = None] /\ UNCHANGED <<clientElse, req>>
    <2>1. UNCHANGED <<srv, cur, inst, req>>
      BY <1>3 DEF clientElse, server
    <2>2. /\ rsp' \in [Pipes -> Answers \cup {None}]
          /\ \A q \in Pipes : rsp'[q] \in {rsp[q], None} /\ (q = pipe => rsp'[q] = None)
      BY <1>3 DEF IInv, PipeTypeOK
    <2>3. req[pipe] = None
      BY <1>1, <1>3 DEF IInv, PipeInv
    <2>4. CASE Close /\ Throw
      <3>1. pipe' = None /\ conn' \in [Pipes -> BOOLEAN] /\ \A p \in Pipes : ~conn'[p]
        BY <1>1, <2>4 DEF Close, IInv, PipeTypeOK, ClientInv
      <3> QED
        BY <2>1, <2>2, <2>4, <3>1, ThrowStep
    <2>5. CASE /\ cli' = IF Len(todo) = 1 THEN "answered" ELSE "send"
               /\ todo' = Tail(todo) /\ UNCHANGED <<pipe, conn, execs>>
      <3>1. /\ Len(todo) = 1 => cli' = "answered" /\ todo' = << >>
            /\ Len(todo) # 1 => cli' = "send" /\ (todo \in Early => todo' \in Early)
                                              /\ (todo \in Late => todo' \in Late)
        BY <1>1, <2>5, PlanTail
      <3>2. PipeTypeOK'
        BY <2>1, <2>2, <2>5 DEF IInv, PipeTypeOK
      <3>3. ClientInv' /\ OpenInv'
        BY <1>1, <2>5, <3>1 DEF IInv, ClientInv, OpenInv
      <3>4. ExecsInv'
        <4>1. ~AtRequest' /\ execs' = execs /\ execs \in Nat
          BY <2>5, <3>1 DEF AtRequest, IInv, PipeTypeOK
        <4>2. CASE Len(todo) = 1
          BY <1>1, <3>1, <4>1, <4>2, PlansDiffer DEF IInv, ExecsInv
        <4>3. CASE Len(todo) # 1
          <5>1. ~AtRequest
            BY <1>1, <4>3, PlanHead DEF AtRequest
          <5> QED
            BY <1>1, <3>1, <4>1, <4>3, <5>1, PlansDiffer DEF IInv, ExecsInv
        <4> QED
          BY <4>2, <4>3
      <3>5. \A p \in Pipes : conn'[p] => p = pipe
        BY <2>5 DEF IInv, ClientInv
      <3> QED
        BY <1>1, <2>1, <2>2, <2>3, <2>5, <3>2, <3>3, <3>4, <3>5, ClientFrame DEF IInv, PipeInv
    <2> QED
      BY <1>3, <2>4, <2>5, <1>1, BrokenPipeStep DEF Receive
  <1> QED
    BY <1>2, <1>3 DEF Receive

\* SendBlocking returns.
LEMMA ReturnStep == ASSUME IInv, Return PROVE IInv'
  <1>1. /\ cli = "answered" /\ cli' = "idle" /\ execs' = 0
        /\ UNCHANGED <<srv, cur, inst, conn, req, rsp, pipe, todo>>
    BY DEF Return, clientElse, server
  <1>2. PipeTypeOK' /\ ClientInv' /\ OpenInv'
    BY <1>1 DEF IInv, PipeTypeOK, ClientInv, OpenInv
  <1>3. ExecsInv'
    BY <1>1, PlansDiffer DEF IInv, ClientInv, ExecsInv, AtRequest
  <1> QED
    BY <1>1, <1>2, <1>3, ClientFrame DEF IInv, PipeInv

\* The overlay exits: whatever its request is still doing is nobody's.
LEMMA ClientExitsStep == ASSUME IInv, ClientExits PROVE IInv'
  <1>1. /\ Throw /\ pipe' = None /\ conn' = [p \in Pipes |-> FALSE]
        /\ UNCHANGED <<srv, cur, inst, req, rsp>>
    BY DEF ClientExits, Throw, clientElse, server
  <1> QED
    BY <1>1, ThrowStep DEF IInv, PipeTypeOK
-----------------------------------------------------------------------------
\* The invariant holds throughout, however driver and client come and go.
LEMMA Invariance == Spec => []IInv
  <1>1. Init => IInv
    <2> SUFFICES ASSUME Init PROVE IInv
      OBVIOUS
    <2>1. PipeTypeOK
      BY DEF Init, IpcInit, PipeTypeOK, States
    <2>2. ClientInv /\ OpenInv /\ PipeInv
      BY DEF Init, IpcInit, ClientInv, OpenInv, PipeInv
    <2>3. ExecsInv
      BY PlansDiffer DEF Init, IpcInit, ExecsInv, AtRequest
    <2> QED
      BY <2>1, <2>2, <2>3 DEF IInv
  <1>2. IInv /\ [Next]_vars => IInv'
    <2> SUFFICES ASSUME IInv, [Next]_vars PROVE IInv'
      OBVIOUS
    <2> USE DEF ipcVars, server
    <2>1. CASE UNCHANGED vars
      BY <2>1, DriverStep DEF vars
    <2>2. CASE StartModulesAndServer
      BY <2>2, DriverStep DEF StartModulesAndServer, RunServer
    <2>3. CASE InjectHooks \/ RemoveHooks \/ Detour
      BY <2>3, DriverStep DEF InjectHooks, RemoveHooks, Detour, EnterDetour, LeaveDetour
    <2>4. CASE StopServer
      BY <2>4, DriverStep DEF StopServer, Stop, StopFlag, StopReadEvent, StopSignal, StopJoin
    <2>5. CASE DrainInFlightDetours \/ ShutdownModules \/ ShutdownReturns \/ ClearModules \/ CloseShmem
      BY <2>5, DriverStep DEF DrainInFlightDetours, ShutdownModules, ShutdownReturns, ClearModules,
                  CloseShmem
    <2>6. CASE Exit \/ Crash
      BY <2>6, EndStep DEF Exit, Crash
    <2>7. CASE ServerStep
      BY <2>7, ServerInv
    <2>8. CASE ClientStep
      BY <2>8, ConnectStep, SendStep, ReceiveStep, ReturnStep DEF ClientStep, Client
    <2>9. CASE SendBlocking \/ ClientExits
      BY <2>9, SendBlockingStep, ClientExitsStep
    <2>10. CASE WaitFails
      BY <2>10, DriverStep DEF WaitFails
    <2> QED
      BY <2>1, <2>2, <2>3, <2>4, <2>5, <2>6, <2>7, <2>8, <2>9, <2>10 DEF Next, Cleanup
  <1> QED
    BY <1>1, <1>2, PTL DEF Spec

\* However the driver stops, crashes and comes back while SendBlocking waits,
\* reconnects and sends again, the driver executes a request at most twice.
THEOREM ExecutedAtMostTwice == Spec => []AtMostTwice
  <1>1. IInv => AtMostTwice
    <2> SUFFICES ASSUME IInv PROVE execs <= 2
      BY DEF AtMostTwice
    <2>1. execs \in Nat
      BY DEF IInv, PipeTypeOK
    <2> QED
      BY <2>1 DEF IInv, ClientInv, ExecsInv
  <1> QED
    BY <1>1, Invariance, PTL

\* An "ok" that SendBlocking returns is the answer to a copy of the request
\* that the driver has executed.
THEOREM OkMeansExecuted == Spec => AnswerMeansExecuted
  <1> DEFINE Step == cli = "receive" /\ cli' = "answered" /\ rsp[pipe] = "ok" => execs > 0
  <1>1. IInv /\ [Next]_vars => [Step]_vars
    <2> SUFFICES ASSUME IInv, Next, cli = "receive", cli' = "answered", rsp[pipe] = "ok"
                 PROVE  execs > 0
      OBVIOUS
    <2> USE DEF ipcVars, client
    <2>1. Receive
      <3>1. ~(StartModulesAndServer \/ InjectHooks \/ RemoveHooks \/ Detour \/ Cleanup \/ ShutdownReturns)
        BY DEF StartModulesAndServer, InjectHooks, RemoveHooks, Detour, EnterDetour, LeaveDetour,
               Cleanup, DrainInFlightDetours, ShutdownModules, ShutdownReturns, ClearModules, CloseShmem,
               StopServer, Stop, StopFlag, StopReadEvent, StopSignal, StopJoin
      <3>2. ~(Exit \/ Crash)
        BY DEF Exit, Crash, ProcessEnds
      <3>3. ~(ServerThread \/ WaitFails)
        BY DEF WaitFails, ServerThread, CreateConnectEvent, CreateInstance, ConnectInstance, CheckStop, Accept,
               CompletedRead, CompletedWrite, CloseInstances, CloseEvent
      <3>4. ~HandleIpcRequest
        BY DEF HandleIpcRequest, HandleRequest
      <3>5. ~(SendBlocking \/ ClientExits \/ Connect \/ Send \/ Return)
        BY DEF SendBlocking, ClientExits, Connect, Send, Return
      <3> QED
        BY <3>1, <3>2, <3>3, <3>4, <3>5 DEF Next, ServerStep, ClientStep, Client
    <2>2. todo \in Early \cup Late
      BY DEF IInv, ClientInv
    <2>3. Len(todo) = 1
      BY <2>1 DEF Receive, BrokenPipe, Throw
    <2>4. AtRequest
      BY <2>2, <2>3, PlanHead DEF AtRequest
    <2> QED
      BY <2>4 DEF IInv, ExecsInv
  <1>2. Spec => [][Step]_vars
    BY <1>1, Invariance, PTL DEF Spec
  <1> QED
    BY <1>2 DEF AnswerMeansExecuted

-----------------------------------------------------------------------------
(* Stop() and the server thread.                                           *)

\* Where the thread is between the creation of its event and its exit.
Running == {"create", "connect", "check", "wait", "woken", "handling"}

\* The flag is up before the event is read, and the event is there before the
\* thread first waits; so a thread that is still waiting when the handle is read
\* waits for that very event, and one that is not will see the flag before it
\* waits again.
StopInv ==
    /\ stopper # "idle" => stop
    /\ srv \in Running => event = "live"
    /\ stopper = "read" /\ srv = "wait" => ev = "live"
    /\ stopper = "joining" /\ srv = "wait" => signalled
    /\ stopper = "joined" => srv = "exited"
    /\ stopper # "idle" => pc \in {"stopping", "down"}
    /\ pc = "down" => stopper = "joined"

\* The thread of the driver that calls Stop().
LEMMA StopperStep == ASSUME StopInv, StopServer PROVE StopInv'
  <1> USE DEF StopServer, driver, server, eventVars, StopInv, Running
  <1>1. CASE StopFlag
    BY <1>1 DEF StopFlag
  <1>2. CASE StopReadEvent
    BY <1>2 DEF StopReadEvent
  <1>3. CASE StopSignal
    <2>1. srv = "wait" => signalled'
      BY <1>3 DEF StopSignal
    <2> QED
      BY <1>3, <2>1 DEF StopSignal
  <1>4. CASE StopJoin
    BY <1>4 DEF StopJoin
  <1> QED
    BY <1>1, <1>2, <1>3, <1>4 DEF Stop

\* The server thread: it waits only where it has found the flag down.
LEMMA ThreadStep == ASSUME StopInv, ServerStep PROVE StopInv'
  <1> USE DEF StopInv, Running, driver, stopVars, eventVars
  <1>1. CASE HandleIpcRequest
    BY <1>1 DEF HandleIpcRequest, HandleRequest
  <1>2. CASE CreateConnectEvent /\ UNCHANGED driver
    BY <1>2 DEF CreateConnectEvent
  <1>3. CASE CreateInstance /\ UNCHANGED driver
    BY <1>3 DEF CreateInstance
  <1>4. CASE ConnectInstance /\ UNCHANGED driver
    BY <1>4 DEF ConnectInstance
  <1>5. CASE CheckStop /\ UNCHANGED driver
    BY <1>5 DEF CheckStop
  <1>6. CASE Accept /\ UNCHANGED driver
    BY <1>6 DEF Accept
  <1>7. ASSUME NEW p \in Pipes, CompletedRead(p) \/ CompletedWrite(p), UNCHANGED driver
        PROVE  StopInv'
    BY <1>7 DEF CompletedRead, CompletedWrite, Alertable
  <1>8. CASE (CloseInstances \/ CloseEvent) /\ UNCHANGED driver
    BY <1>8 DEF CloseInstances, CloseEvent
  <1> QED
    BY <1>1, <1>2, <1>3, <1>4, <1>5, <1>6, <1>7, <1>8 DEF ServerStep, ServerThread

\* The client can set the event, and touches nothing else of Stop() and the thread.
LEMMA ClientLeavesStop ==
    ASSUME StopInv, ClientStep \/ ((SendBlocking \/ ClientExits) /\ UNCHANGED driver)
    PROVE  StopInv'
  <1>1. UNCHANGED <<srv, stop, stopper, ev, event, pc>>
    BY DEF ClientStep, Client, Connect, Send, Receive, Return, SendBlocking, ClientExits, BrokenPipe,
           clientElse, server, stopVars, eventVars, driver
  <1>2. signalled => signalled'
    BY DEF ClientStep, Client, Connect, Send, Receive, Return, SendBlocking, ClientExits, BrokenPipe,
           clientElse, server, stopVars, eventVars, driver
  <1> QED
    BY <1>1, <1>2 DEF StopInv

\* Stop() never joins a thread that waits for an event nobody sets, and Cleanup
\* leaves no server thread behind (IPCServer::Stop against RunThread), for any
\* number of pipe instances and clients.
THEOREM StopWakesServer == Spec => []StopIsHeard
  <1>1. Init => StopInv
    BY DEF Init, IpcInit, StopInv, Running
  <1>2. StopInv /\ [Next]_vars => StopInv'
    <2> SUFFICES ASSUME StopInv, [Next]_vars PROVE StopInv'
      OBVIOUS
    <2>1. CASE UNCHANGED vars
      BY <2>1 DEF vars, ipcVars, driver, server, stopVars, eventVars, StopInv
    <2>2. CASE StartModulesAndServer
      BY <2>2 DEF StartModulesAndServer, RunServer, StopInv, Running
    <2>3. CASE InjectHooks \/ RemoveHooks \/ Detour
      BY <2>3 DEF InjectHooks, RemoveHooks, Detour, EnterDetour, LeaveDetour, ipcVars, driver,
                  server, stopVars, eventVars, StopInv
    <2>4. CASE DrainInFlightDetours \/ ShutdownModules \/ ShutdownReturns \/ ClearModules \/ CloseShmem
      BY <2>4 DEF DrainInFlightDetours, ShutdownModules, ShutdownReturns, ClearModules,
                  CloseShmem, ipcVars, driver,
                  server, stopVars, eventVars, StopInv
    <2>5. CASE Exit \/ Crash
      BY <2>5 DEF Exit, Crash, ProcessEnds, StopInv, Running
    <2>6. CASE WaitFails /\ UNCHANGED driver
      BY <2>6 DEF WaitFails, stopVars, eventVars, driver, StopInv, Running
    <2> QED
      BY <2>1, <2>2, <2>3, <2>4, <2>5, <2>6, StopperStep, ThreadStep, ClientLeavesStop
      DEF Next, Cleanup
  <1>3. StopInv => StopIsHeard
    BY DEF StopInv, StopIsHeard
  <1> QED
    BY <1>1, <1>2, <1>3, PTL DEF Spec

-----------------------------------------------------------------------------
(* The rest of the types.                                                  *)

ServerTypes ==
    /\ srv \in {"none", "entered", "create", "connect", "check", "wait", "woken", "handling",
                "exiting", "guard", "exited"}
    /\ event \in {"null", "live", "closed"} /\ signalled \in BOOLEAN
    /\ next \in Pipes \cup {None} /\ pending \in BOOLEAN /\ cur \in Pipes \cup {None}

StopTypes ==
    /\ stop \in BOOLEAN /\ ev \in {"null", "live", "closed"}
    /\ stopper \in {"idle", "flagged", "read", "joining", "joined"}

DriverTypes ==
    /\ pc \in {"unloaded", "started", "up", "draining", "drained", "shutting", "clearing", "stopping",
              "down"}
    /\ module \in {"none", "up", "shutDown", "destroyed"}
    /\ hooked \in BOOLEAN /\ inFlight \in 0..1

RestTypes == ServerTypes /\ StopTypes /\ DriverTypes

\* The server thread: whatever fails, its handle, its next instance and the instance it
\* is working on are one of those it created, or none.
LEMMA ThreadTypes == ASSUME RestTypes, ServerStep PROVE RestTypes'
  <1> USE DEF RestTypes
  <1>1. StopTypes' /\ DriverTypes'
    <2>1. UNCHANGED <<stop, ev, stopper, pc, module, hooked, inFlight>>
      BY DEF ServerStep, HandleIpcRequest, HandleRequest, ServerThread, CreateConnectEvent,
             CreateInstance, ConnectInstance, CheckStop, Accept, CompletedRead, CompletedWrite,
             CloseInstances, CloseEvent, stopVars, driver
    <2> QED
      BY <2>1 DEF StopTypes, DriverTypes
  <1>2. ServerTypes'
    <2> USE DEF ServerTypes, eventVars
    <2>1. CASE HandleIpcRequest
      BY <2>1 DEF HandleIpcRequest, HandleRequest
    <2>2. CASE CreateConnectEvent
      BY <2>2 DEF CreateConnectEvent
    <2>3. CASE CreateInstance
      BY <2>3 DEF CreateInstance, Free
    <2>4. CASE ConnectInstance
      BY <2>4 DEF ConnectInstance
    <2>5. CASE CheckStop
      BY <2>5 DEF CheckStop
    <2>6. CASE Accept
      <3>1. srv' \in {"create", "exiting"} /\ next' \in {next, None}
        BY <2>6 DEF Accept
      <3>2. pending' \in BOOLEAN /\ UNCHANGED <<event, signalled, cur>>
        BY <2>6 DEF Accept
      <3> QED
        BY <3>1, <3>2
    <2>7. ASSUME NEW p \in Pipes, CompletedRead(p) \/ CompletedWrite(p) PROVE ServerTypes'
      BY <2>7 DEF CompletedRead, CompletedWrite
    <2>8. CASE CloseInstances \/ CloseEvent
      BY <2>8 DEF CloseInstances, CloseEvent
    <2> QED
      BY <2>1, <2>2, <2>3, <2>4, <2>5, <2>6, <2>7, <2>8 DEF ServerStep, ServerThread
  <1> QED
    BY <1>1, <1>2

\* Init, Cleanup and the end of vrserver.
LEMMA DriverTypesStep ==
    ASSUME RestTypes, StartModulesAndServer \/ InjectHooks \/ RemoveHooks \/ Cleanup \/ Exit \/ Crash
                      \/ ShutdownReturns \/ Detour
    PROVE  RestTypes'
  <1> USE DEF RestTypes, ServerTypes, StopTypes, DriverTypes
  <1>1. CASE StartModulesAndServer
    BY <1>1 DEF StartModulesAndServer, RunServer
  <1>2. CASE InjectHooks \/ RemoveHooks
    BY <1>2 DEF InjectHooks, RemoveHooks, ipcVars, server, stopVars, eventVars
  <1>3. CASE DrainInFlightDetours \/ ShutdownModules \/ ShutdownReturns \/ ClearModules \/ CloseShmem
    BY <1>3 DEF DrainInFlightDetours, ShutdownModules, ShutdownReturns, ClearModules,
                  CloseShmem, ipcVars, server,
                stopVars, eventVars
  <1>4. CASE StopServer
    <2>1. UNCHANGED <<srv, event, next, pending, cur, pc, module, hooked, inFlight>>
      BY <1>4 DEF StopServer, Stop, StopFlag, StopReadEvent, StopSignal, StopJoin, driver, server,
                  eventVars
    <2>2. signalled' \in BOOLEAN
      BY <1>4 DEF StopServer, Stop, StopFlag, StopReadEvent, StopSignal, StopJoin, eventVars
    <2>3. StopTypes'
      BY <1>4 DEF StopServer, Stop, StopFlag, StopReadEvent, StopSignal, StopJoin
    <2> QED
      BY <2>1, <2>2, <2>3
  <1>5. CASE Exit \/ Crash
    <2>1. ProcessEnds
      BY <1>5 DEF Exit, Crash
    <2>2. ServerTypes'
      BY <2>1 DEF ProcessEnds
    <2>3. StopTypes'
      BY <2>1 DEF ProcessEnds
    <2>4. inFlight' \in 0..1
      BY <2>1 DEF ProcessEnds
    <2>5. DriverTypes'
      BY <2>1, <2>4 DEF ProcessEnds
    <2> QED
      BY <2>2, <2>3, <2>5
  <1>6. CASE Detour
    <2>1. inFlight' \in 0..1
      BY <1>6 DEF Detour, EnterDetour, LeaveDetour
    <2> QED
      BY <1>6, <2>1 DEF Detour, EnterDetour, LeaveDetour, ipcVars, driver, server, stopVars, eventVars
  <1> QED
    BY <1>1, <1>2, <1>3, <1>4, <1>5, <1>6 DEF Cleanup

\* The client can set the event, and touches nothing else of the server's.
LEMMA ClientTypesStep ==
    ASSUME RestTypes,
           ClientStep \/ ((SendBlocking \/ ClientExits) /\ UNCHANGED <<driver, inFlight>>)
    PROVE  RestTypes'
  <1>1. /\ UNCHANGED <<srv, event, next, pending, cur, stop, ev, stopper>>
        /\ UNCHANGED <<pc, module, hooked, inFlight>>
    BY DEF ClientStep, Client, Connect, Send, Receive, Return, SendBlocking, ClientExits, BrokenPipe,
           clientElse, server, stopVars, eventVars, driver
  <1>2. signalled \in BOOLEAN => signalled' \in BOOLEAN
    BY DEF ClientStep, Client, Connect, Send, Receive, Return, SendBlocking, ClientExits, BrokenPipe,
           clientElse, eventVars
  <1> QED
    BY <1>1, <1>2 DEF RestTypes, ServerTypes, StopTypes, DriverTypes

\* Server, client and driver keep their types in every interleaving of Init, Cleanup,
\* crashes, completion routines and reconnects; what SendBlocking has left to do is a
\* list of exchanges throughout.
THEOREM TypeCorrect == Spec => []TypeOK
  <1>1. Init => RestTypes
    <2> SUFFICES ASSUME Init PROVE RestTypes
      OBVIOUS
    <2>1. ServerTypes
      BY DEF Init, IpcInit, ServerTypes
    <2>2. StopTypes
      BY DEF Init, IpcInit, StopTypes
    <2>3. inFlight \in 0..1
      BY DEF Init
    <2>4. DriverTypes
      BY <2>3 DEF Init, DriverTypes
    <2> QED
      BY <2>1, <2>2, <2>4 DEF RestTypes
  <1>2. RestTypes /\ [Next]_vars => RestTypes'
    <2> SUFFICES ASSUME RestTypes, [Next]_vars PROVE RestTypes'
      OBVIOUS
    <2>1. CASE UNCHANGED vars
      BY <2>1 DEF vars, ipcVars, driver, server, stopVars, eventVars, RestTypes, ServerTypes,
                  StopTypes, DriverTypes
    <2>2. CASE WaitFails /\ UNCHANGED <<driver, inFlight>>
      BY <2>2 DEF WaitFails, driver, stopVars, eventVars, RestTypes, ServerTypes, StopTypes, DriverTypes
    <2> QED
      BY <2>1, <2>2, ThreadTypes, DriverTypesStep, ClientTypesStep DEF Next
  <1>3. IInv /\ RestTypes => TypeOK
    <2> SUFFICES ASSUME IInv, RestTypes PROVE TypeOK
      OBVIOUS
    <2>1. todo \in Seq([kind : Kinds, retry : BOOLEAN])
      <3> DEFINE R == [kind : Kinds, retry : BOOLEAN]
      <3>1. Hello \in R /\ Again \in R /\ Ask \in R /\ AskAgain \in R
        BY DEF Hello, Again, Ask, AskAgain, Kinds
      <3>2. todo = << >> \/ todo \in Early \cup Late
        BY DEF IInv, ClientInv
      <3> HIDE DEF R
      <3>3. todo \in Early \cup Late => todo \in Seq(R)
        <4>1. ASSUME NEW a \in R PROVE <<a>> \in Seq(R)
          OBVIOUS
        <4>2. ASSUME NEW a \in R, NEW b \in R PROVE <<a, b>> \in Seq(R)
          OBVIOUS
        <4>3. ASSUME NEW a \in R, NEW b \in R, NEW c \in R PROVE <<a, b, c>> \in Seq(R)
          OBVIOUS
        <4> QED
          BY <3>1, <4>1, <4>2, <4>3, Zenon DEF Early, Late
      <3>4. << >> \in Seq(R)
        OBVIOUS
      <3>5. todo \in Seq(R)
        BY <3>2, <3>3, <3>4
      <3> QED
        BY <3>5 DEF R
    <2> QED
      BY <2>1 DEF IInv, PipeTypeOK, ClientInv, RestTypes, ServerTypes, StopTypes, DriverTypes,
                  TypeOK, States
  <1> QED
    BY <1>1, <1>2, <1>3, Invariance, PTL DEF Spec
=============================================================================
