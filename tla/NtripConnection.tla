-------------------------- MODULE NtripConnection ---------------------------
(***************************************************************************)
(* One connection of the NTRIP client to its caster: resolve, connect,     *)
(* handshake, stream, and the retry after every failure.                   *)
(*                                                                         *)
(* All handlers run on the one thread of io_context_, one at a time, in    *)
(* the order their completions were queued.  ready is that queue; a socket *)
(* operation that is pending completes into it whenever the network likes, *)
(* and at once when the socket is closed.  A completion that is queued can *)
(* no longer be taken back, neither a read by close() nor an expiry by     *)
(* cancel(): that is what the handlers have to live with.                  *)
(*                                                                         *)
(* Of Boost.Asio the model has: FIFO completions; an operation on a closed *)
(* socket fails through the queue; a cancelled wait calls a handler that   *)
(* returns at once (left out); a resolve in progress cannot be cancelled;  *)
(* run() returns when no work is left.  The caster may answer anything.    *)
(***************************************************************************)
EXTENDS Sequences, FiniteSets, Integers

CONSTANT MaxReady    \* what the queue is expected not to exceed

\* The stop, one completion of the attempt and two timeouts.
ASSUME NtripAssumption == MaxReady \in Nat /\ MaxReady >= 4

VARIABLE link

SocketOps == {"connect", "write", "handshakeRead", "streamRead"}
Timers == {"reconnect", "connectTimeout", "readWatchdog"}
Handlers == SocketOps \cup Timers \cup {"start", "stop", "resolve"}

\* How the first bytes of the caster are classified: an RTCM3 frame is looked for first, then a
\* textual error, then a success line.
Streams == {"rtcm", "success"}
Responses == Streams \cup {"rejected", "invalid", "empty"}

\* A completed operation: its handler, its error code, what a handshake read brought.
Completion(handler, ok) == [handler |-> handler, ok |-> ok, response |-> "none"]
Completions == [handler : Handlers, ok : BOOLEAN, response : Responses \cup {"none"}]

Links ==
  [ready : Seq(Completions), pending : SUBSET SocketOps, resolving : BOOLEAN, open : BOOLEAN,
   armed : SUBSET Timers, beat : BOOLEAN, handshake_complete : BOOLEAN, connected : BOOLEAN,
   stopping : BOOLEAN, stopped : BOOLEAN, joined : BOOLEAN]

\* The constructor, then start(): the first resolve is posted to the new thread.
Init ==
  link = [ready |-> <<Completion("start", TRUE)>>, pending |-> {}, resolving |-> FALSE,
          open |-> FALSE, armed |-> {}, beat |-> FALSE, handshake_complete |-> FALSE,
          connected |-> FALSE, stopping |-> FALSE, stopped |-> FALSE, joined |-> FALSE]

-----------------------------------------------------------------------------
(* Methods of the connection; k is the connection. *)

Post(k, completion) == [k EXCEPT !.ready = Append(@, completion)]

PostState(k, connected) == [k EXCEPT !.connected = connected]

\* An operation waits for the network, or fails through the queue on a closed socket.
Begin(k, op) ==
  IF k.open THEN [k EXCEPT !.pending = @ \cup {op}] ELSE Post(k, Completion(op, FALSE))

CloseSocket(k) ==
  IF ~k.open \/ k.pending = {}
  THEN [k EXCEPT !.open = FALSE]
  ELSE LET op == CHOOSE o \in k.pending : TRUE
       IN  Post([k EXCEPT !.open = FALSE, !.pending = {}], Completion(op, FALSE))

\* Wrong on purpose: the socket of the failed attempt is left open.
ScheduleResolveOpen(k) ==
  IF k.stopped THEN k
  ELSE [PostState(k, FALSE) EXCEPT !.armed = {"reconnect"}, !.handshake_complete = FALSE]

ScheduleResolve(k) ==
  IF k.stopped THEN k
  ELSE [PostState(CloseSocket(k), FALSE) EXCEPT
          !.armed = {"reconnect"}, !.handshake_complete = FALSE]

DoResolve(k) ==
  IF k.stopped THEN k ELSE [PostState(k, FALSE) EXCEPT !.resolving = TRUE]

\* Wrong on purpose: a resolve that outlives the connection still connects.
DoConnectAlways(k) ==
  Begin([PostState(k, FALSE) EXCEPT !.armed = @ \cup {"connectTimeout"}, !.open = TRUE], "connect")

\* The attempt has a deadline that only the handshake lifts.
DoConnect(k) ==
  IF k.stopped THEN k
  ELSE Begin([PostState(k, FALSE) EXCEPT !.armed = @ \cup {"connectTimeout"}, !.open = TRUE],
             "connect")

DoHandshake(k) == Begin(PostState(k, FALSE), "write")

\* beat tells one wait of the watchdog from the next.
StartReadWatchdog(k) == [k EXCEPT !.armed = @ \cup {"readWatchdog"}, !.beat = ~@]

DoReadStream(k) == Begin(k, "streamRead")

\* The caster streams: it is said before the first read of the stream is begun.
Established(k) ==
  DoReadStream(StartReadWatchdog(
    PostState([k EXCEPT !.handshake_complete = TRUE, !.armed = @ \ {"connectTimeout"}], TRUE)))

Failed(k) == ScheduleResolve(PostState(k, FALSE))

-----------------------------------------------------------------------------
(* The completion handlers: what the head of the queue does. *)

\* h is the completion that is run, k the connection without it.  async_connect tells an attempt
\* whose socket was closed meanwhile as aborted.
Connected(k, h) == IF h.ok /\ k.open THEN DoHandshake(k) ELSE Failed(k)

Written(k, h) == IF h.ok THEN Begin(k, "handshakeRead") ELSE Failed(k)

HandshakeRead(k, h) == IF h.ok /\ h.response \in Streams THEN Established(k) ELSE Failed(k)

\* Wrong on purpose: the end of the stream is not a failure.
StreamReadEnds(k, h) == IF h.ok THEN DoReadStream(StartReadWatchdog(k)) ELSE k

StreamRead(k, h) == IF h.ok THEN DoReadStream(StartReadWatchdog(k)) ELSE Failed(k)

\* Wrong on purpose: the deadline looks at the handshake the wrong way round.
ConnectTimedOutLate(k) ==
  IF k.stopped \/ ~k.handshake_complete THEN k
  ELSE ScheduleResolve(CloseSocket(PostState(k, FALSE)))

ConnectTimedOut(k) ==
  IF k.stopped \/ k.handshake_complete THEN k
  ELSE ScheduleResolve(CloseSocket(PostState(k, FALSE)))

\* Wrong on purpose: the guard of the other timeout.
ReadTimedOutEarly(k) == IF k.stopped \/ k.handshake_complete THEN k ELSE Failed(k)

ReadTimedOut(k) == IF k.stopped \/ ~k.handshake_complete THEN k ELSE Failed(k)

\* Wrong on purpose: the socket is left to its owner.
StopOpen(k) == PostState([k EXCEPT !.stopped = TRUE, !.armed = {}], FALSE)

\* The timers and the socket die, whatever is queued behind still runs.
Stop(k) == PostState(CloseSocket([k EXCEPT !.stopped = TRUE, !.armed = {}]), FALSE)

Handle(k, h) ==
  CASE h.handler = "start" -> ScheduleResolve(k)
    [] h.handler = "reconnect" -> DoResolve(k)
    [] h.handler = "resolve" -> IF h.ok THEN DoConnect(k) ELSE Failed(k)
    [] h.handler = "connect" -> Connected(k, h)
    [] h.handler = "write" -> Written(k, h)
    [] h.handler = "handshakeRead" -> HandshakeRead(k, h)
    [] h.handler = "streamRead" -> StreamRead(k, h)
    [] h.handler = "connectTimeout" -> ConnectTimedOut(k)
    [] h.handler = "readWatchdog" -> ReadTimedOut(k)
    [] h.handler = "stop" -> Stop(k)

-----------------------------------------------------------------------------
(* The thread of io_context_, the network, the clock and the node. *)

Run ==
  /\ link.ready # <<>>
  /\ link' = Handle([link EXCEPT !.ready = Tail(@)], Head(link.ready))

\* getaddrinfo() returns.
Resolved ==
  /\ link.resolving
  /\ \E ok \in BOOLEAN :
       link' = Post([link EXCEPT !.resolving = FALSE], Completion("resolve", ok))

\* The network completes or fails a pending operation.
Transfer(op, ok, response) ==
  /\ op \in link.pending
  /\ response = "none" <=> ~(op = "handshakeRead" /\ ok)
  /\ link' = Post([link EXCEPT !.pending = @ \ {op}],
                  [handler |-> op, ok |-> ok, response |-> response])

\* Wrong on purpose: a wait that begins anew by itself.
ExpireRepeating(timer) ==
  timer \in link.armed /\ link' = Post(link, Completion(timer, TRUE))

\* A wait is over.  The reconnect delay began in the handler that queued the last completions,
\* so those have long run when it ends: the thread is not stalled for a whole delay.  The other
\* two waits may end while the answer they wait for is already queued.
Expire(timer) ==
  /\ timer \in link.armed
  /\ timer = "reconnect" =>
       \A i \in DOMAIN link.ready : link.ready[i].handler = "stop"
  /\ link' = Post([link EXCEPT !.armed = @ \ {timer}], Completion(timer, TRUE))

\* The node is destroyed: stop() posts its handler, gives up the work guard and waits.
RequestStop ==
  /\ ~link.stopping
  /\ link' = Post([link EXCEPT !.stopping = TRUE], Completion("stop", TRUE))

\* run() has nothing left to do, the thread ends, stop() returns.
Join ==
  /\ link.stopping /\ ~link.joined
  /\ link.ready = <<>> /\ link.armed = {} /\ link.pending = {} /\ ~link.resolving
  /\ link' = [link EXCEPT !.joined = TRUE]

Next ==
  \/ Run
  \/ Resolved
  \/ \E op \in SocketOps, ok \in BOOLEAN, response \in Responses \cup {"none"} :
       Transfer(op, ok, response)
  \/ \E timer \in Timers : Expire(timer)
  \/ RequestStop
  \/ Join

Spec == Init /\ [][Next]_link

\* The thread runs what is queued, a wait that is not begun anew ends, getaddrinfo() returns.
\* Nothing is asked of the network.
FairSpec ==
  /\ Spec
  /\ WF_link(Run) /\ WF_link(Resolved) /\ WF_link(Join)
  /\ WF_link(Expire("reconnect")) /\ WF_link(Expire("connectTimeout"))
  /\ \A b \in BOOLEAN : WF_link(link.beat = b /\ Expire("readWatchdog"))

-----------------------------------------------------------------------------
(* Properties. *)

TypeOK == link \in Links /\ Len(link.ready) <= MaxReady

\* Two attempts never overlap: of the delay before an attempt, its resolve and its operation on
\* the socket at most one is under way, although several completions of one failed attempt ask
\* for the next.
OneAttempt ==
  Cardinality(link.pending) + Cardinality(link.armed \cap {"reconnect"})
    + (IF link.resolving THEN 1 ELSE 0) <= 1

Queued(handler) == \E i \in DOMAIN link.ready : link.ready[i].handler = handler

\* A connection that is said to stream is being read, or the completion that will find out is
\* on its way; and silence is being timed.
ConnectedIsLive ==
  link.connected =>
    /\ link.pending = {"streamRead"} \/ Queued("streamRead")
    /\ link.open => "readWatchdog" \in link.armed \/ Queued("readWatchdog")

\* After the handler of stop() nothing goes out any more, whatever was queued behind it, and a
\* client that is gone does not leave a stream behind in its statistics.
StoppedStaysDown ==
  /\ link.stopped => ~link.open /\ link.pending = {} /\ "reconnect" \notin link.armed
  /\ link.joined => ~link.connected

\* A client without a stream tries again: it resolves, streams, or is being destroyed.
KeepsTrying == []<>(link.resolving \/ link.connected \/ link.stopping)

StreamRan == Run /\ Head(link.ready).handler = "streamRead" /\ Head(link.ready).ok

\* A client that stays connected keeps receiving: a silent caster is noticed.
SilenceNoticed == <>[]link.connected => []<><<StreamRan>>_link

\* stop() returns.
StopEnds == link.stopping ~> link.joined
=============================================================================
