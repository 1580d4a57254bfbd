---------------------------- MODULE NtripProofs ----------------------------
(***************************************************************************)
(* Proofs about NtripConnection.  An attempt has one token, which is in    *)
(* the queue, in the resolver or with the network; around it the timers    *)
(* may expire and the socket be closed at any moment.  Sound says what     *)
(* that leaves possible; each handler is shown to keep it.                 *)
(***************************************************************************)
EXTENDS NtripConnection, SequenceTheorems, FiniteSetTheorems, TLAPS

\* The attempt has one token: it is among these completions, or in the resolver, or with the network.
Openings == {"start", "reconnect", "resolve"}
Attempts == Openings \cup SocketOps
Early == {"connect", "write", "handshakeRead"}
Timeouts == {"connectTimeout", "readWatchdog"}

-----------------------------------------------------------------------------
(* Counting in the queue without cardinalities: q is a queue, H and G are  *)
(* sets of handlers.                                                       *)

Among(q, H) == \E i \in DOMAIN q : q[i].handler \in H

Twice(q, H) == \E i, j \in DOMAIN q : i < j /\ q[i].handler \in H /\ q[j].handler \in H

Thrice(q, H) ==
  \E i, j, l \in DOMAIN q :
    i < j /\ j < l /\ q[i].handler \in H /\ q[j].handler \in H /\ q[l].handler \in H

Behind(q, H, G) == \E i, j \in DOMAIN q : i < j /\ q[i].handler \in H /\ q[j].handler \in G

TwiceBehind(q, H, G) ==
  \E i, j, l \in DOMAIN q :
    i < j /\ j < l /\ q[i].handler \in H /\ q[j].handler \in G /\ q[l].handler \in G

-----------------------------------------------------------------------------
(* The invariant of the connection k. *)

\* Wherever the token is, it is nowhere else, and an operation needs a socket.
OneToken(k) ==
  /\ ~Twice(k.ready, Attempts)
  /\ Among(k.ready, Attempts) => k.pending = {} /\ ~k.resolving
  /\ k.resolving => k.pending = {}
  /\ \A o, p \in k.pending : o = p
  /\ k.pending # {} => k.open

\* During the delay before an attempt what is left of the last one can only fail, and a new
\* attempt starts with no timeout armed or queued.
CleanStart(k) ==
  /\ "reconnect" \in k.armed =>
       /\ k.pending = {} /\ ~k.resolving /\ ~k.open
       /\ ~Among(k.ready, Openings)
       /\ "connectTimeout" \notin k.armed
       /\ "readWatchdog" \in k.armed => Among(k.ready, {"streamRead"})
  /\ k.resolving \/ Among(k.ready, Openings) => k.armed = {} /\ ~Among(k.ready, Timeouts)

\* Never more than two timeouts are queued: what may still expire is counted with them.
FewTimeouts(k) ==
  /\ ~Thrice(k.ready, Timeouts)
  /\ ~TwiceBehind(k.ready, {"streamRead"}, Timeouts)
  /\ "connectTimeout" \in k.armed =>
       /\ ~Among(k.ready, Timeouts) /\ "readWatchdog" \notin k.armed
       /\ "streamRead" \notin k.pending /\ ~Among(k.ready, {"streamRead"})
  /\ "readWatchdog" \in k.armed =>
       ~Twice(k.ready, Timeouts) /\ ~Behind(k.ready, {"streamRead"}, Timeouts)
  /\ k.pending \cap Early # {} \/ Among(k.ready, Early) =>
       ~Twice(k.ready, Timeouts) /\ "readWatchdog" \notin k.armed

Live(k) ==
  k.connected =>
    /\ k.handshake_complete
    /\ k.pending = {"streamRead"} \/ Among(k.ready, {"streamRead"})
    /\ k.open => "readWatchdog" \in k.armed \/ Among(k.ready, {"readWatchdog"})

Down(k) ==
  /\ ~Twice(k.ready, {"stop"})
  /\ Among(k.ready, {"stop"}) => k.stopping
  /\ k.stopped => ~k.open /\ k.pending = {} /\ "reconnect" \notin k.armed
  /\ k.joined => /\ k.stopping /\ k.ready = <<>> /\ k.armed = {}
                 /\ k.pending = {} /\ ~k.resolving

Sound(k) ==
  k \in Links /\ OneToken(k) /\ CleanStart(k) /\ FewTimeouts(k) /\ Live(k) /\ Down(k)

-----------------------------------------------------------------------------
(* The queue. *)

LEMMA Appended ==
  ASSUME NEW q \in Seq(Completions), NEW c \in Completions
  PROVE  /\ Append(q, c) \in Seq(Completions)
         /\ Len(q) \in Nat /\ DOMAIN q = 1..Len(q) /\ DOMAIN Append(q, c) = 1..(Len(q) + 1)
         /\ \A i \in 1..Len(q) : Append(q, c)[i] = q[i]
         /\ Append(q, c)[Len(q) + 1] = c
BY AppendProperties, LenProperties

LEMMA AppendCounts ==
  ASSUME NEW q \in Seq(Completions), NEW c \in Completions, NEW H, NEW G
  PROVE  /\ Among(Append(q, c), H) <=> Among(q, H) \/ c.handler \in H
         /\ Twice(Append(q, c), H) <=> Twice(q, H) \/ (Among(q, H) /\ c.handler \in H)
         /\ Thrice(Append(q, c), H) <=> Thrice(q, H) \/ (Twice(q, H) /\ c.handler \in H)
         /\ Behind(Append(q, c), H, G) <=> Behind(q, H, G) \/ (Among(q, H) /\ c.handler \in G)
         /\ TwiceBehind(Append(q, c), H, G)
              <=> TwiceBehind(q, H, G) \/ (Behind(q, H, G) /\ c.handler \in G)
<1> DEFINE n == Len(q)
           a == Append(q, c)
<1>1. /\ n \in Nat /\ DOMAIN q = 1..n /\ DOMAIN a = 1..(n + 1)
      /\ \A i \in 1..n : a[i] = q[i]
      /\ a[n + 1] = c
  BY Appended
<1> HIDE DEF n, a
<1>2. \A i \in DOMAIN a : i \in DOMAIN q \/ i = n + 1
  BY <1>1
<1>3. \A i \in DOMAIN q : i \in DOMAIN a /\ a[i] = q[i] /\ i < n + 1
  BY <1>1
<1>4. n + 1 \in DOMAIN a /\ \A i \in DOMAIN a : ~(n + 1 < i)
  BY <1>1
<1>5. Among(a, H) <=> Among(q, H) \/ c.handler \in H
  BY <1>1, <1>2, <1>3, <1>4 DEF Among
<1>6. Twice(a, H) <=> Twice(q, H) \/ (Among(q, H) /\ c.handler \in H)
  BY <1>1, <1>2, <1>3, <1>4 DEF Among, Twice
<1>7. Thrice(a, H) <=> Thrice(q, H) \/ (Twice(q, H) /\ c.handler \in H)
  BY <1>1, <1>2, <1>3, <1>4 DEF Twice, Thrice
<1>8. Behind(a, H, G) <=> Behind(q, H, G) \/ (Among(q, H) /\ c.handler \in G)
  BY <1>1, <1>2, <1>3, <1>4 DEF Among, Behind
<1>9. TwiceBehind(a, H, G) <=> TwiceBehind(q, H, G) \/ (Behind(q, H, G) /\ c.handler \in G)
  BY <1>1, <1>2, <1>3, <1>4 DEF Behind, TwiceBehind
<1>10. QED
  BY <1>5, <1>6, <1>7, <1>8, <1>9 DEF a

LEMMA TailCounts ==
  ASSUME NEW q \in Seq(Completions), q # <<>>, NEW H, NEW G
  PROVE  /\ Head(q) \in Completions /\ Tail(q) \in Seq(Completions)
         /\ Among(q, H) <=> Among(Tail(q), H) \/ Head(q).handler \in H
         /\ Twice(Tail(q), H) \/ (Among(Tail(q), H) /\ Head(q).handler \in H) => Twice(q, H)
         /\ Thrice(Tail(q), H) => Thrice(q, H)
         /\ Behind(Tail(q), H, G) \/ (Among(Tail(q), G) /\ Head(q).handler \in H)
              => Behind(q, H, G)
         /\ TwiceBehind(Tail(q), H, G) \/ (Twice(Tail(q), G) /\ Head(q).handler \in H)
              => TwiceBehind(q, H, G)
<1> DEFINE t == Tail(q)
<1>1. /\ Head(q) \in Completions /\ t \in Seq(Completions) /\ Head(q) = q[1]
      /\ Len(q) \in Nat /\ DOMAIN q = 1..Len(q) /\ DOMAIN t = 1..(Len(q) - 1) /\ Len(q) > 0
      /\ \A i \in 1..(Len(q) - 1) : t[i] = q[i + 1]
  BY HeadTailProperties, LenProperties, EmptySeq
<1> HIDE DEF t
<1>2. \A i \in DOMAIN q : i = 1 \/ (i - 1 \in DOMAIN t /\ t[i - 1] = q[i])
  BY <1>1
<1>3. \A i \in DOMAIN t : i + 1 \in DOMAIN q /\ t[i] = q[i + 1] /\ 1 < i + 1
  BY <1>1
<1>4. 1 \in DOMAIN q /\ \A i, j \in DOMAIN t : i < j => i + 1 < j + 1
  BY <1>1
<1>5. Among(q, H) <=> Among(t, H) \/ Head(q).handler \in H
  BY <1>1, <1>2, <1>3, <1>4 DEF Among
<1>6. Twice(t, H) \/ (Among(t, H) /\ Head(q).handler \in H) => Twice(q, H)
  <2>1. ASSUME NEW i \in DOMAIN t, NEW j \in DOMAIN t, i < j, t[i].handler \in H, t[j].handler \in H
        PROVE  Twice(q, H)
    BY <1>3, <1>4, <2>1 DEF Twice
  <2>2. ASSUME NEW i \in DOMAIN t, t[i].handler \in H, Head(q).handler \in H
        PROVE  Twice(q, H)
    BY <1>1, <1>3, <1>4, <2>2 DEF Twice
  <2>3. QED
    BY <2>1, <2>2 DEF Among, Twice
<1>7. Thrice(t, H) => Thrice(q, H)
  <2>1. ASSUME NEW i \in DOMAIN t, NEW j \in DOMAIN t, NEW l \in DOMAIN t, i < j, j < l,
               t[i].handler \in H, t[j].handler \in H, t[l].handler \in H
        PROVE  Thrice(q, H)
    BY <1>3, <1>4, <2>1 DEF Thrice
  <2>2. QED
    BY <2>1 DEF Thrice
<1>8. Behind(t, H, G) \/ (Among(t, G) /\ Head(q).handler \in H) => Behind(q, H, G)
  <2>1. ASSUME NEW i \in DOMAIN t, NEW j \in DOMAIN t, i < j, t[i].handler \in H, t[j].handler \in G
        PROVE  Behind(q, H, G)
    BY <1>3, <1>4, <2>1 DEF Behind
  <2>2. ASSUME NEW i \in DOMAIN t, t[i].handler \in G, Head(q).handler \in H
        PROVE  Behind(q, H, G)
    BY <1>1, <1>3, <1>4, <2>2 DEF Behind
  <2>3. QED
    BY <2>1, <2>2 DEF Among, Behind
<1>9. TwiceBehind(t, H, G) \/ (Twice(t, G) /\ Head(q).handler \in H) => TwiceBehind(q, H, G)
  <2>1. ASSUME NEW i \in DOMAIN t, NEW j \in DOMAIN t, NEW l \in DOMAIN t, i < j, j < l,
               t[i].handler \in H, t[j].handler \in G, t[l].handler \in G
        PROVE  TwiceBehind(q, H, G)
    BY <1>3, <1>4, <2>1 DEF TwiceBehind
  <2>2. ASSUME NEW i \in DOMAIN t, NEW j \in DOMAIN t, i < j,
               t[i].handler \in G, t[j].handler \in G, Head(q).handler \in H
        PROVE  TwiceBehind(q, H, G)
    BY <1>1, <1>3, <1>4, <2>2 DEF TwiceBehind
  <2>3. QED
    BY <2>1, <2>2 DEF Twice, TwiceBehind
<1>10. QED
  BY <1>1, <1>5, <1>6, <1>7, <1>8, <1>9 DEF t

LEMMA EmptyCounts ==
  ASSUME NEW H, NEW G
  PROVE  /\ <<>> \in Seq(Completions)
         /\ ~Among(<<>>, H) /\ ~Twice(<<>>, H) /\ ~Thrice(<<>>, H)
         /\ ~Behind(<<>>, H, G) /\ ~TwiceBehind(<<>>, H, G)
BY EmptySeq DEF Among, Twice, Thrice, Behind, TwiceBehind

LEMMA HandlerKinds ==
  /\ Handlers = Attempts \cup Timeouts \cup {"stop"}
  /\ Early \subseteq SocketOps /\ SocketOps \subseteq Attempts /\ Openings \subseteq Attempts
  /\ SocketOps = Early \cup {"streamRead"}
  /\ Attempts \cap Timeouts = {} /\ Openings \cap SocketOps = {}
  /\ "stop" \notin Attempts \cup Timeouts
BY DEF Handlers, Attempts, Openings, SocketOps, Timers, Timeouts, Early

\* The stop, the token and two timeouts.
LEMMA QueueBound ==
  ASSUME NEW q \in Seq(Completions),
         ~Twice(q, Attempts), ~Twice(q, {"stop"}), ~Thrice(q, Timeouts)
  PROVE  Len(q) <= 4
<1> SUFFICES ASSUME Len(q) > 4 PROVE FALSE
  BY LenProperties
<1>1. /\ Len(q) \in Nat /\ DOMAIN q = 1..Len(q)
      /\ \A i \in 1..Len(q) : q[i].handler \in Attempts \cup Timeouts \cup {"stop"}
  <2>1. Len(q) \in Nat /\ DOMAIN q = 1..Len(q) /\ \A i \in 1..Len(q) : q[i] \in Completions
    BY LenProperties, ElementOfSeq
  <2>2. \A c \in Completions : c.handler \in Attempts \cup Timeouts \cup {"stop"}
    BY HandlerKinds DEF Completions
  <2>3. QED
    BY <2>1, <2>2
<1>2. \A i, j \in 1..5 : i # j => ~(q[i].handler \in Attempts /\ q[j].handler \in Attempts)
  BY <1>1 DEF Twice
<1>3. \A i, j \in 1..5 : i # j => ~(q[i].handler = "stop" /\ q[j].handler = "stop")
  BY <1>1 DEF Twice
<1>4. \A i, j, l \in 1..5 : i < j /\ j < l =>
        ~(q[i].handler \in Timeouts /\ q[j].handler \in Timeouts /\ q[l].handler \in Timeouts)
  BY <1>1 DEF Thrice
<1>5. \A i \in 1..5 : q[i].handler \in Attempts \/ q[i].handler = "stop" \/ q[i].handler \in Timeouts
  BY <1>1
<1>6. 1 \in 1..5 /\ 2 \in 1..5 /\ 3 \in 1..5 /\ 4 \in 1..5 /\ 5 \in 1..5
  OBVIOUS
<1>7. QED
  BY <1>2, <1>3, <1>4, <1>5, <1>6

-----------------------------------------------------------------------------
(* What a handler finds. *)

\* h was the head of the queue of a sound connection, k is the connection without it.
Popped(k, h) ==
  /\ k \in Links /\ h \in Completions
  /\ OneToken(k) /\ FewTimeouts(k) /\ Down(k) /\ ~k.joined
  /\ h.handler \in Attempts =>
       ~Among(k.ready, Attempts) /\ k.pending = {} /\ ~k.resolving
  /\ h.handler \in Openings => k.armed = {} /\ ~Among(k.ready, Timeouts)
  /\ h.handler \in Early => ~Twice(k.ready, Timeouts) /\ "readWatchdog" \notin k.armed
  /\ h.handler = "streamRead" =>
       /\ ~Twice(k.ready, Timeouts) /\ "connectTimeout" \notin k.armed
       /\ "readWatchdog" \in k.armed => ~Among(k.ready, Timeouts)
  /\ h.handler \in Timeouts => ~k.resolving /\ ~Among(k.ready, Openings)
  /\ h.handler = "stop" => k.stopping /\ ~Among(k.ready, {"stop"})
  /\ "reconnect" \in k.armed =>
       /\ k.pending = {} /\ ~k.resolving /\ ~k.open
       /\ ~Among(k.ready, Openings)
       /\ "connectTimeout" \notin k.armed
       /\ "readWatchdog" \in k.armed
            => Among(k.ready, {"streamRead"}) \/ h.handler = "streamRead"
  /\ k.resolving \/ Among(k.ready, Openings) => k.armed = {} /\ ~Among(k.ready, Timeouts)
  /\ k.connected =>
       /\ k.handshake_complete
       /\ \/ k.pending = {"streamRead"} \/ Among(k.ready, {"streamRead"})
          \/ h.handler = "streamRead"
       /\ k.open => \/ "readWatchdog" \in k.armed \/ Among(k.ready, {"readWatchdog"})
                    \/ h.handler = "readWatchdog"

LEMMA PoppedFacts ==
  ASSUME NEW l \in Links, Sound(l), l.ready # <<>>
  PROVE  Popped([l EXCEPT !.ready = Tail(@)], Head(l.ready))
<1> DEFINE h == Head(l.ready)
           t == Tail(l.ready)
<1>0. l.ready \in Seq(Completions)
  BY DEF Links
<1>1. PICK k : k = [l EXCEPT !.ready = Tail(@)]
  OBVIOUS
<1>2. h \in Completions /\ t \in Seq(Completions)
  BY <1>0, TailCounts
<1>3. \A H : Among(l.ready, H) <=> Among(t, H) \/ h.handler \in H
  BY <1>0, TailCounts
<1>4. \A H : Twice(t, H) \/ (Among(t, H) /\ h.handler \in H) => Twice(l.ready, H)
  BY <1>0, TailCounts
<1>5. \A H : Thrice(t, H) => Thrice(l.ready, H)
  BY <1>0, TailCounts
<1>6. \A H, G : Behind(t, H, G) \/ (Among(t, G) /\ h.handler \in H) => Behind(l.ready, H, G)
  BY <1>0, TailCounts
<1>7. \A H, G : TwiceBehind(t, H, G) \/ (Twice(t, G) /\ h.handler \in H)
                 => TwiceBehind(l.ready, H, G)
  BY <1>0, TailCounts
<1> HIDE DEF h, t
<1>8. /\ k \in Links /\ k.ready = t /\ k.pending = l.pending /\ k.resolving = l.resolving
      /\ k.open = l.open /\ k.armed = l.armed /\ k.handshake_complete = l.handshake_complete
      /\ k.connected = l.connected /\ k.stopping = l.stopping /\ k.stopped = l.stopped
      /\ k.joined = l.joined
  BY <1>1, <1>2 DEF Links, t
<1>9. OneToken(k)
  BY <1>3, <1>4, <1>8 DEF Sound, OneToken
<1>10. FewTimeouts(k)
  BY <1>3, <1>4, <1>5, <1>6, <1>7, <1>8 DEF Sound, FewTimeouts
<1>11. Down(k) /\ ~k.joined
  BY <1>3, <1>4, <1>8 DEF Sound, Down
<1>12. h.handler \in Attempts => ~Among(t, Attempts) /\ l.pending = {} /\ ~l.resolving
  BY <1>3, <1>4 DEF Sound, OneToken
<1>13. h.handler \in Openings => l.armed = {} /\ ~Among(t, Timeouts)
  BY <1>3 DEF Sound, CleanStart
<1>14. h.handler \in Early => ~Twice(t, Timeouts) /\ "readWatchdog" \notin l.armed
  BY <1>3, <1>4 DEF Sound, FewTimeouts
<1>15. h.handler = "streamRead" =>
         /\ ~Twice(t, Timeouts) /\ "connectTimeout" \notin l.armed
         /\ "readWatchdog" \in l.armed => ~Among(t, Timeouts)
  BY <1>3, <1>6, <1>7 DEF Sound, FewTimeouts
<1>16. h.handler \in Timeouts => ~l.resolving /\ ~Among(t, Openings)
  BY <1>3 DEF Sound, CleanStart
<1>17. h.handler = "stop" => l.stopping /\ ~Among(t, {"stop"})
  BY <1>3, <1>4 DEF Sound, Down
<1>18. /\ "reconnect" \in l.armed =>
             /\ l.pending = {} /\ ~l.resolving /\ ~l.open
             /\ ~Among(t, Openings)
             /\ "connectTimeout" \notin l.armed
             /\ "readWatchdog" \in l.armed
                  => Among(t, {"streamRead"}) \/ h.handler = "streamRead"
       /\ l.resolving \/ Among(t, Openings) => l.armed = {} /\ ~Among(t, Timeouts)
  BY <1>3 DEF Sound, CleanStart
<1>19. l.connected =>
         /\ l.handshake_complete
         /\ l.pending = {"streamRead"} \/ Among(t, {"streamRead"}) \/ h.handler = "streamRead"
         /\ l.open => \/ "readWatchdog" \in l.armed \/ Among(t, {"readWatchdog"})
                      \/ h.handler = "readWatchdog"
  BY <1>3 DEF Sound, Live
<1>20. Popped(k, h)
  BY <1>2, <1>8, <1>9, <1>10, <1>11, <1>12, <1>13, <1>14, <1>15, <1>16, <1>17, <1>18, <1>19
     DEF Popped
<1>21. QED
  BY <1>1, <1>20 DEF h

\* The counts of a, which is q with a completion of handler x at its end.
Longer(q, a, x) ==
  /\ a \in Seq(Completions) /\ a # <<>>
  /\ \A H : Among(a, H) <=> Among(q, H) \/ x \in H
  /\ \A H : Twice(a, H) <=> Twice(q, H) \/ (Among(q, H) /\ x \in H)
  /\ \A H : Thrice(a, H) <=> Thrice(q, H) \/ (Twice(q, H) /\ x \in H)
  /\ \A H, G : Behind(a, H, G) <=> Behind(q, H, G) \/ (Among(q, H) /\ x \in G)
  /\ \A H, G : TwiceBehind(a, H, G) <=> TwiceBehind(q, H, G) \/ (Behind(q, H, G) /\ x \in G)

LEMMA Enqueued ==
  ASSUME NEW q \in Seq(Completions), NEW c \in Completions
  PROVE  Longer(q, Append(q, c), c.handler)
<1>1. Append(q, c) \in Seq(Completions) /\ Append(q, c) # <<>>
  BY AppendProperties
<1>2. QED
  BY <1>1, AppendCounts DEF Longer

-----------------------------------------------------------------------------
(* The methods the handlers share. *)

LEMMA CompletionType ==
  /\ \A handler \in Handlers, ok \in BOOLEAN : Completion(handler, ok) \in Completions
  /\ \A handler, ok : Completion(handler, ok).handler = handler
BY DEF Completion, Completions

\* Closing aborts the one operation that is pending.
LEMMA CloseFacts ==
  ASSUME NEW k \in Links, OneToken(k)
  PROVE  \/ k.pending = {} /\ CloseSocket(k) = [k EXCEPT !.open = FALSE]
         \/ \E op \in SocketOps :
              /\ k.pending = {op}
              /\ CloseSocket(k) =
                   [k EXCEPT !.open = FALSE, !.pending = {},
                             !.ready = Append(@, Completion(op, FALSE))]
<1>1. k.pending \subseteq SocketOps
  BY DEF Links
<1>2. CASE k.pending = {}
  BY <1>2 DEF CloseSocket
<1>3. CASE k.pending # {}
  <2>1. PICK op \in SocketOps : op = CHOOSE o \in k.pending : TRUE
    BY <1>1, <1>3
  <2>2. k.open /\ k.pending = {op}
    BY <1>3, <2>1 DEF OneToken
  <2>3. CloseSocket(k) = Post([k EXCEPT !.open = FALSE, !.pending = {}], Completion(op, FALSE))
    BY <1>3, <2>1, <2>2 DEF CloseSocket
  <2>4. QED
    BY <2>2, <2>3 DEF Post, Links
<1>4. QED
  BY <1>2, <1>3

\* The end of an attempt, and of a stream: the delay begins, what was pending is aborted.
LEMMA FailedSound ==
  ASSUME NEW k, NEW h, Popped(k, h), h.handler # "stop"
  PROVE  Sound(Failed(k))
<1> DEFINE j == [k EXCEPT !.connected = FALSE]
<1>1. /\ k \in Links /\ k.ready \in Seq(Completions)
      /\ h.handler \in Attempts \cup Timeouts /\ ~k.resolving /\ ~Among(k.ready, Openings)
  <2>1. k \in Links /\ k.ready \in Seq(Completions) /\ h.handler \in Handlers
    BY DEF Popped, Links, Completions
  <2>2. h.handler \in Attempts \cup Timeouts
    BY <2>1, HandlerKinds
  <2>3. Among(k.ready, Openings) => Among(k.ready, Attempts)
    BY HandlerKinds DEF Among
  <2>4. QED
    BY <2>1, <2>2, <2>3 DEF Popped
<1>2. CASE k.stopped
  <2>1. PICK r : r = j
    OBVIOUS
  <2>2. /\ r \in Links /\ r.ready = k.ready /\ r.pending = k.pending /\ r.resolving = k.resolving
        /\ r.open = k.open /\ r.armed = k.armed /\ r.connected = FALSE
        /\ r.stopping = k.stopping /\ r.stopped = k.stopped /\ r.joined = k.joined
    BY <1>1, <2>1 DEF Links
  <2>3. "reconnect" \notin k.armed
    BY <1>2 DEF Popped, Down
  <2>4. Sound(r)
    BY <2>2, <2>3 DEF Popped, Sound, OneToken, CleanStart, FewTimeouts, Live, Down
  <2>5. Failed(k) = r
    BY <1>1, <1>2, <2>1 DEF Failed, ScheduleResolve, PostState, Links
  <2>6. QED
    BY <2>4, <2>5
<1>3. CASE ~k.stopped
  <2>1. j \in Links /\ OneToken(j)
    BY <1>1 DEF Popped, OneToken, Links
  <2>2. PICK r : r = [PostState(CloseSocket(j), FALSE) EXCEPT
                        !.armed = {"reconnect"}, !.handshake_complete = FALSE]
    OBVIOUS
  <2>3. Failed(k) = r
    BY <1>1, <1>3, <2>2 DEF Failed, ScheduleResolve, PostState, Links
  <2>4. "reconnect" \in Timers
    BY DEF Timers
  <2>5. CASE k.pending = {}
    <3>1. CloseSocket(j) = [j EXCEPT !.open = FALSE]
      BY <1>1, <2>5 DEF CloseSocket, Links
    <3>2. /\ r \in Links /\ r.ready = k.ready /\ r.pending = {} /\ r.resolving = FALSE
          /\ r.open = FALSE /\ r.armed = {"reconnect"} /\ r.connected = FALSE
          /\ r.stopping = k.stopping /\ r.stopped = FALSE /\ r.joined = FALSE
      BY <1>1, <1>3, <2>2, <2>4, <2>5, <3>1 DEF Links, PostState, Popped
    <3>3. OneToken(r) /\ CleanStart(r) /\ Live(r) /\ Down(r)
      BY <1>1, <3>2 DEF Popped, OneToken, CleanStart, Live, Down
    <3>4. FewTimeouts(r)
      BY <3>2 DEF Popped, FewTimeouts
    <3>5. QED
      BY <2>3, <3>2, <3>3, <3>4 DEF Sound
  <2>6. CASE k.pending # {}
    <3>1. PICK op \in SocketOps :
            /\ k.pending = {op}
            /\ CloseSocket(j) = [j EXCEPT !.open = FALSE, !.pending = {},
                                         !.ready = Append(@, Completion(op, FALSE))]
      BY <1>1, <2>1, <2>6, CloseFacts DEF Links
    <3>2. PICK c \in Completions : c = Completion(op, FALSE) /\ c.handler = op
      BY CompletionType, HandlerKinds
    <3>3. PICK a : a = Append(k.ready, c)
      OBVIOUS
    <3>4. Longer(k.ready, a, op)
      BY <1>1, <3>2, <3>3, Enqueued
    <3>5. /\ r \in Links /\ r.ready = a /\ r.pending = {} /\ r.resolving = FALSE
          /\ r.open = FALSE /\ r.armed = {"reconnect"} /\ r.connected = FALSE
          /\ r.stopping = k.stopping /\ r.stopped = FALSE /\ r.joined = FALSE
      <4>1. PICK i : i = CloseSocket(j)
        OBVIOUS
      <4>2. /\ i \in Links /\ i.ready = a /\ i.pending = {} /\ i.open = FALSE
            /\ i.resolving = k.resolving /\ i.stopping = k.stopping
            /\ i.stopped = k.stopped /\ i.joined = k.joined
        BY <1>1, <3>1, <3>2, <3>3, <3>4, <4>1 DEF Longer, Links
      <4>3. r = [i EXCEPT !.connected = FALSE, !.armed = {"reconnect"},
                          !.handshake_complete = FALSE]
        BY <2>2, <4>1, <4>2 DEF PostState, Links
      <4>4. ~k.resolving /\ ~k.stopped /\ ~k.joined
        BY <1>1, <1>3 DEF Popped, Down
      <4>5. k.resolving = FALSE /\ k.stopped = FALSE /\ k.joined = FALSE
        BY <1>1, <4>4 DEF Links
      <4>6. QED
        BY <2>4, <4>2, <4>3, <4>5 DEF Links
    <3>6. op \in Attempts /\ op \notin Openings /\ op \notin Timeouts /\ op # "stop"
      BY HandlerKinds
    <3>7. ~Among(k.ready, Attempts)
      BY <2>6 DEF Popped, OneToken
    <3>8. OneToken(r) /\ CleanStart(r) /\ Live(r) /\ Down(r)
      BY <1>1, <3>4, <3>5, <3>6, <3>7 DEF Longer, Popped, OneToken, CleanStart, Live, Down
    <3>9. FewTimeouts(r)
      BY <3>1, <3>4, <3>5, <3>6 DEF Longer, Popped, FewTimeouts
    <3>10. QED
      BY <2>3, <3>5, <3>8, <3>9 DEF Sound
  <2>7. QED
    BY <2>5, <2>6
<1>4. QED
  BY <1>2, <1>3

\* A handler that does nothing.
LEMMA KeptSound ==
  ASSUME NEW k, NEW h, Popped(k, h), h.handler # "streamRead",
         h.handler = "readWatchdog" => k.stopped \/ ~k.handshake_complete
  PROVE  Sound(k)
BY DEF Popped, Sound, CleanStart, Live, Down

\* The next operation of an attempt or of a stream, begun by g, which is k with other timers and
\* another socket.
LEMMA BegunSound ==
  ASSUME NEW k, NEW h, Popped(k, h), h.handler \in Attempts, NEW g \in Links, NEW op \in SocketOps,
         g.ready = k.ready, g.pending = {}, ~g.resolving, ~g.joined,
         g.stopping = k.stopping, g.stopped = k.stopped,
         g.stopped => ~g.open /\ "reconnect" \notin g.armed,
         "reconnect" \in g.armed =>
           /\ ~g.open /\ "connectTimeout" \notin g.armed
           /\ "readWatchdog" \in g.armed => op = "streamRead",
         "connectTimeout" \in g.armed =>
           op \in Early /\ ~Among(g.ready, Timeouts) /\ "readWatchdog" \notin g.armed,
         op \in Early => "readWatchdog" \notin g.armed,
         op \in Early \/ "readWatchdog" \in g.armed => ~Twice(g.ready, Timeouts),
         g.connected => g.handshake_complete /\ op = "streamRead" /\ "readWatchdog" \in g.armed
  PROVE  Sound(Begin(g, op))
<1>1. g.ready \in Seq(Completions) /\ ~Among(g.ready, Attempts)
  BY DEF Popped, Links
<1>2. /\ ~Among(g.ready, Openings) /\ ~Among(g.ready, Early) /\ ~Among(g.ready, {"streamRead"})
      /\ ~Behind(g.ready, {"streamRead"}, Timeouts)
  BY <1>1, HandlerKinds DEF Among, Behind
<1>3. op \in Attempts /\ op \notin Openings /\ op \notin Timeouts /\ op # "stop"
      /\ (op \in Early <=> op # "streamRead")
  BY HandlerKinds DEF Early
<1>4. CASE g.open
  <2>1. PICK r : r = [g EXCEPT !.pending = {op}]
    OBVIOUS
  <2>2. Begin(g, op) = r
    BY <1>4, <2>1 DEF Begin
  <2>3. /\ r \in Links /\ r.ready = g.ready /\ r.pending = {op} /\ r.resolving = FALSE
        /\ r.open = TRUE /\ r.armed = g.armed /\ r.connected = g.connected
        /\ r.handshake_complete = g.handshake_complete
        /\ r.stopping = k.stopping /\ r.stopped = FALSE /\ r.joined = FALSE
    BY <1>4, <2>1 DEF Links
  <2>4. OneToken(r) /\ CleanStart(r)
    BY <1>1, <1>2, <1>3, <1>4, <2>3 DEF Popped, OneToken, CleanStart
  <2>5. Live(r) /\ Down(r)
    BY <2>3 DEF Popped, Live, Down
  <2>6. FewTimeouts(r)
    BY <1>2, <1>3, <2>3 DEF Popped, FewTimeouts
  <2>7. QED
    BY <2>2, <2>3, <2>4, <2>5, <2>6 DEF Sound
<1>5. CASE ~g.open
  <2>1. PICK c \in Completions : c = Completion(op, FALSE) /\ c.handler = op
    BY CompletionType, HandlerKinds
  <2>2. PICK a : a = Append(g.ready, c)
    OBVIOUS
  <2>3. Longer(g.ready, a, op)
    BY <1>1, <2>1, <2>2, Enqueued
  <2>4. PICK r : r = [g EXCEPT !.ready = a]
    OBVIOUS
  <2>5. Begin(g, op) = r
    BY <1>5, <2>1, <2>2, <2>4 DEF Begin, Post
  <2>6. /\ r \in Links /\ r.ready = a /\ r.pending = {} /\ r.resolving = FALSE
        /\ r.open = FALSE /\ r.armed = g.armed /\ r.connected = g.connected
        /\ r.handshake_complete = g.handshake_complete
        /\ r.stopping = k.stopping /\ r.stopped = k.stopped /\ r.joined = FALSE
    BY <1>5, <2>3, <2>4 DEF Links, Longer
  <2>7. OneToken(r) /\ CleanStart(r)
    BY <1>1, <1>2, <1>3, <2>3, <2>6 DEF Longer, Popped, OneToken, CleanStart
  <2>8. Live(r) /\ Down(r)
    BY <1>3, <2>3, <2>6 DEF Longer, Popped, Live, Down
  <2>9. FewTimeouts(r)
    BY <1>2, <1>3, <2>3, <2>6 DEF Longer, Popped, FewTimeouts
  <2>10. QED
    BY <2>5, <2>6, <2>7, <2>8, <2>9 DEF Sound
<1>6. QED
  BY <1>4, <1>5 DEF Links

-----------------------------------------------------------------------------
(* The handlers. *)

LEMMA StartSound ==
  ASSUME NEW k, NEW h, Popped(k, h), h.handler = "start"
  PROVE  Sound(ScheduleResolve(k))
<1>1. k \in Links /\ k.connected = FALSE
  <2>1. ~Among(k.ready, {"streamRead"})
    BY HandlerKinds DEF Popped, Among, Openings
  <2>2. QED
    BY <2>1 DEF Popped, Links, Attempts, Openings
<1>2. PostState(k, FALSE) = k
  BY <1>1 DEF PostState, Links
<1>3. QED
  BY <1>2, FailedSound DEF Failed

LEMMA ResolveSound ==
  ASSUME NEW k, NEW h, Popped(k, h), h.handler = "reconnect"
  PROVE  Sound(DoResolve(k))
<1>1. /\ k \in Links /\ k.armed = {} /\ ~Among(k.ready, Timeouts) /\ ~Among(k.ready, Attempts)
      /\ k.pending = {}
  BY DEF Popped, Attempts, Openings
<1>2. CASE k.stopped
  BY <1>2, KeptSound DEF DoResolve
<1>3. CASE ~k.stopped
  <2>1. PICK r : r = [k EXCEPT !.connected = FALSE, !.resolving = TRUE]
    OBVIOUS
  <2>2. DoResolve(k) = r
    BY <1>1, <1>3, <2>1 DEF DoResolve, PostState, Links
  <2>3. /\ r \in Links /\ r.ready = k.ready /\ r.pending = {} /\ r.resolving = TRUE
        /\ r.armed = {} /\ r.connected = FALSE
        /\ r.stopping = k.stopping /\ r.stopped = FALSE /\ r.joined = FALSE
    BY <1>1, <1>3, <2>1 DEF Links, Popped
  <2>4. QED
    BY <1>1, <2>2, <2>3
       DEF Popped, Sound, OneToken, CleanStart, FewTimeouts, Live, Down
<1>4. QED
  BY <1>2, <1>3

LEMMA ConnectSound ==
  ASSUME NEW k, NEW h, Popped(k, h), h.handler = "resolve"
  PROVE  Sound(DoConnect(k))
<1>1. /\ k \in Links /\ k.armed = {} /\ ~Among(k.ready, Timeouts) /\ k.pending = {}
      /\ ~k.resolving /\ h.handler \in Attempts
  BY DEF Popped, Attempts, Openings
<1>2. CASE k.stopped
  BY <1>2, KeptSound DEF DoConnect
<1>3. CASE ~k.stopped
  <2>1. PICK g : g = [k EXCEPT !.connected = FALSE, !.armed = {"connectTimeout"}, !.open = TRUE]
    OBVIOUS
  <2>2. DoConnect(k) = Begin(g, "connect")
    BY <1>1, <1>3, <2>1 DEF DoConnect, PostState, Links
  <2>3. /\ g \in Links /\ g.ready = k.ready /\ g.pending = {} /\ g.resolving = FALSE
        /\ g.armed = {"connectTimeout"} /\ g.connected = FALSE
        /\ g.stopping = k.stopping /\ g.stopped = k.stopped /\ g.joined = k.joined
    BY <1>1, <2>1 DEF Links, Timers
  <2>4. ~Twice(g.ready, Timeouts)
    BY <1>1, <2>3 DEF Twice, Among
  <2>5. "connect" \in Early /\ "connect" \in SocketOps
    BY DEF Early, SocketOps
  <2>6. QED
    BY <1>1, <1>3, <2>2, <2>3, <2>4, <2>5, BegunSound DEF Popped
<1>4. QED
  BY <1>2, <1>3

LEMMA ConnectedSound ==
  ASSUME NEW k, NEW h, Popped(k, h), h.handler = "connect"
  PROVE  Sound(Connected(k, h))
<1>1. /\ k \in Links /\ k.pending = {} /\ ~k.resolving /\ h.handler \in Attempts
      /\ h.handler \in Early
  BY DEF Popped, Attempts, SocketOps, Early
<1>2. CASE h.ok /\ k.open
  <2>1. PICK g : g = [k EXCEPT !.connected = FALSE]
    OBVIOUS
  <2>2. Connected(k, h) = Begin(g, "write")
    BY <1>2, <2>1 DEF Connected, DoHandshake, PostState
  <2>3. /\ g \in Links /\ g.ready = k.ready /\ g.pending = {} /\ g.resolving = FALSE
        /\ g.open = TRUE /\ g.armed = k.armed /\ g.connected = FALSE
        /\ g.stopping = k.stopping /\ g.stopped = k.stopped /\ g.joined = k.joined
    BY <1>1, <1>2, <2>1 DEF Links
  <2>4. "write" \in Early /\ "write" \in SocketOps
    BY DEF Early, SocketOps
  <2>5. "connectTimeout" \in k.armed => ~Among(k.ready, Timeouts)
    BY DEF Popped, FewTimeouts
  <2>6. QED
    BY <1>1, <1>2, <2>2, <2>3, <2>4, <2>5, BegunSound DEF Popped, Down
<1>3. CASE ~(h.ok /\ k.open)
  BY <1>1, <1>3, FailedSound DEF Connected
<1>4. QED
  BY <1>2, <1>3

\* While a handshake is under way the connection is not said to stream.
LEMMA EarlyFacts ==
  ASSUME NEW k, NEW h, Popped(k, h), h.handler \in Early
  PROVE  /\ k \in Links /\ k.pending = {} /\ ~k.resolving /\ h.handler \in Attempts
         /\ ~k.connected /\ ~k.joined /\ h.handler # "stop"
         /\ ~Twice(k.ready, Timeouts) /\ "readWatchdog" \notin k.armed
         /\ "reconnect" \in k.armed => ~k.open /\ "connectTimeout" \notin k.armed
         /\ "connectTimeout" \in k.armed => ~Among(k.ready, Timeouts)
         /\ k.stopped => ~k.open /\ "reconnect" \notin k.armed
<1>1. h.handler \in Attempts /\ h.handler # "streamRead" /\ h.handler # "stop"
  BY DEF Early, Attempts, SocketOps
<1>2. ~Among(k.ready, Attempts) /\ k.pending = {} /\ ~k.resolving
  BY <1>1 DEF Popped
<1>3. ~Among(k.ready, {"streamRead"})
  BY <1>2, HandlerKinds DEF Among
<1>4. QED
  BY <1>1, <1>2, <1>3 DEF Popped, Down, FewTimeouts

LEMMA WrittenSound ==
  ASSUME NEW k, NEW h, Popped(k, h), h.handler = "write"
  PROVE  Sound(Written(k, h))
<1>1. h.handler \in Early /\ "handshakeRead" \in Early /\ "handshakeRead" \in SocketOps
  BY DEF Early, SocketOps
<1>2. CASE h.ok
  BY <1>1, <1>2, EarlyFacts, BegunSound DEF Written
<1>3. CASE ~h.ok
  BY <1>3, FailedSound DEF Written
<1>4. QED
  BY <1>2, <1>3

LEMMA HandshakeReadSound ==
  ASSUME NEW k, NEW h, Popped(k, h), h.handler = "handshakeRead"
  PROVE  Sound(HandshakeRead(k, h))
<1>1. h.handler \in Early /\ "streamRead" \notin Early /\ "streamRead" \in SocketOps
  BY DEF Early, SocketOps
<1> DEFINE armed == (k.armed \ {"connectTimeout"}) \cup {"readWatchdog"}
<1>0. k \in Links /\ armed \in SUBSET Timers
  BY <1>1, EarlyFacts DEF Links, Timers
<1>2. PICK g : g = [k EXCEPT !.handshake_complete = TRUE, !.connected = TRUE,
                      !.armed = armed, !.beat = ~@]
  OBVIOUS
<1>3. Established(k) = Begin(g, "streamRead")
  BY <1>0, <1>2 DEF Established, DoReadStream, StartReadWatchdog, PostState, Links
<1>4. /\ g \in Links /\ g.ready = k.ready /\ g.pending = {} /\ g.resolving = FALSE
      /\ g.armed = armed /\ g.open = k.open
      /\ g.connected = TRUE /\ g.handshake_complete = TRUE
      /\ g.stopping = k.stopping /\ g.stopped = k.stopped /\ g.joined = FALSE
  <2>1. /\ g \in Links /\ g.ready = k.ready /\ g.pending = k.pending
        /\ g.resolving = k.resolving /\ g.armed = armed /\ g.open = k.open
        /\ g.connected = TRUE /\ g.handshake_complete = TRUE
        /\ g.stopping = k.stopping /\ g.stopped = k.stopped /\ g.joined = k.joined
    BY <1>0, <1>2 DEF Links
  <2>2. QED
    BY <1>0, <1>1, <2>1, EarlyFacts DEF Links
<1>5. Sound(Begin(g, "streamRead"))
  BY <1>1, <1>4, EarlyFacts, BegunSound
<1>6. QED
  BY <1>1, <1>3, <1>5, EarlyFacts, FailedSound DEF HandshakeRead

LEMMA StreamReadSound ==
  ASSUME NEW k, NEW h, Popped(k, h), h.handler = "streamRead"
  PROVE  Sound(StreamRead(k, h))
<1>1. /\ k \in Links /\ k.pending = {} /\ ~k.resolving /\ ~k.joined /\ h.handler \in Attempts
      /\ "streamRead" \notin Early /\ "streamRead" \in SocketOps
      /\ ~Twice(k.ready, Timeouts) /\ "connectTimeout" \notin k.armed
      /\ k.stopped => ~k.open /\ "reconnect" \notin k.armed
      /\ "reconnect" \in k.armed => ~k.open
      /\ k.connected => k.handshake_complete
  BY DEF Popped, Attempts, SocketOps, Early, Down
<1>2. PICK g : g = [k EXCEPT !.armed = @ \cup {"readWatchdog"}, !.beat = ~@]
  OBVIOUS
<1>3. DoReadStream(StartReadWatchdog(k)) = Begin(g, "streamRead")
  BY <1>2 DEF DoReadStream, StartReadWatchdog
<1>4. /\ g \in Links /\ g.ready = k.ready /\ g.pending = {} /\ g.resolving = FALSE
      /\ g.armed = k.armed \cup {"readWatchdog"} /\ g.open = k.open
      /\ g.connected = k.connected /\ g.handshake_complete = k.handshake_complete
      /\ g.stopping = k.stopping /\ g.stopped = k.stopped /\ g.joined = FALSE
  BY <1>1, <1>2 DEF Links, Timers
<1>5. Sound(Begin(g, "streamRead"))
  BY <1>1, <1>4, BegunSound
<1>6. QED
  BY <1>3, <1>5, FailedSound DEF StreamRead

\* Closing what is closed changes nothing.
LEMMA ConnectTimedOutSound ==
  ASSUME NEW k, NEW h, Popped(k, h), h.handler = "connectTimeout"
  PROVE  Sound(ConnectTimedOut(k))
<1>1. CASE k.stopped \/ k.handshake_complete
  BY <1>1, KeptSound DEF ConnectTimedOut
<1>2. CASE ~(k.stopped \/ k.handshake_complete)
  <2>1. PICK j : j = PostState(k, FALSE)
    OBVIOUS
  <2>2. j \in Links /\ OneToken(j) /\ j.stopped = FALSE
    BY <1>2, <2>1 DEF Popped, OneToken, Links, PostState
  <2>3. PICK c : c = CloseSocket(j)
    OBVIOUS
  <2>4. c.open = FALSE /\ c.stopped = FALSE /\ [c EXCEPT !.open = FALSE] = c
    BY <2>2, <2>3, CloseFacts DEF Links
  <2>5. CloseSocket(c) = c
    BY <2>4 DEF CloseSocket
  <2>6. ScheduleResolve(c) = ScheduleResolve(j)
    BY <2>2, <2>3, <2>4, <2>5 DEF ScheduleResolve
  <2>7. QED
    BY <1>2, <2>1, <2>3, <2>6, FailedSound DEF ConnectTimedOut, Failed
<1>3. QED
  BY <1>1, <1>2

LEMMA ReadTimedOutSound ==
  ASSUME NEW k, NEW h, Popped(k, h), h.handler = "readWatchdog"
  PROVE  Sound(ReadTimedOut(k))
BY KeptSound, FailedSound DEF ReadTimedOut

LEMMA StopSound ==
  ASSUME NEW k, NEW h, Popped(k, h), h.handler = "stop"
  PROVE  Sound(Stop(k))
<1> DEFINE j == [k EXCEPT !.stopped = TRUE, !.armed = {}]
<1>1. k \in Links /\ k.ready \in Seq(Completions) /\ j \in Links /\ OneToken(j)
  BY DEF Popped, Links, OneToken
<1>2. CASE k.pending = {}
  <2>1. PICK r : r = [j EXCEPT !.open = FALSE, !.connected = FALSE]
    OBVIOUS
  <2>2. Stop(k) = r
    BY <1>1, <1>2, <2>1 DEF Stop, CloseSocket, PostState, Links
  <2>3. /\ r \in Links /\ r.ready = k.ready /\ r.pending = {} /\ r.resolving = k.resolving
        /\ r.open = FALSE /\ r.armed = {} /\ r.connected = FALSE
        /\ r.stopping = k.stopping /\ r.joined = FALSE
    BY <1>1, <1>2, <2>1 DEF Links, Popped
  <2>4. OneToken(r) /\ CleanStart(r) /\ FewTimeouts(r) /\ Live(r) /\ Down(r)
    BY <2>3 DEF Popped, OneToken, CleanStart, FewTimeouts, Live, Down
  <2>5. QED
    BY <2>2, <2>3, <2>4 DEF Sound
<1>3. CASE k.pending # {}
  <2>1. PICK op \in SocketOps :
          /\ k.pending = {op}
          /\ CloseSocket(j) = [j EXCEPT !.open = FALSE, !.pending = {},
                                       !.ready = Append(@, Completion(op, FALSE))]
    BY <1>1, <1>3, CloseFacts DEF Links
  <2>2. PICK c \in Completions : c = Completion(op, FALSE) /\ c.handler = op
    BY CompletionType, HandlerKinds
  <2>3. PICK a : a = Append(k.ready, c)
    OBVIOUS
  <2>4. Longer(k.ready, a, op)
    BY <1>1, <2>2, <2>3, Enqueued
  <2>5. PICK r : r = [j EXCEPT !.open = FALSE, !.pending = {}, !.ready = a, !.connected = FALSE]
    OBVIOUS
  <2>6. Stop(k) = r
    BY <1>1, <2>1, <2>2, <2>3, <2>5 DEF Stop, PostState, Links
  <2>7. /\ r \in Links /\ r.ready = a /\ r.pending = {} /\ r.resolving = k.resolving
        /\ r.open = FALSE /\ r.armed = {} /\ r.connected = FALSE
        /\ r.stopping = k.stopping /\ r.joined = FALSE
    BY <1>1, <2>4, <2>5 DEF Links, Popped, Longer
  <2>8. op \in Attempts /\ op \notin Openings /\ op \notin Timeouts /\ op # "stop"
    BY HandlerKinds
  <2>9. ~Among(k.ready, Attempts) /\ ~k.resolving
    BY <1>3 DEF Popped, OneToken
  <2>10. OneToken(r) /\ CleanStart(r) /\ Live(r) /\ Down(r)
    BY <2>4, <2>7, <2>8, <2>9 DEF Longer, Popped, OneToken, CleanStart, Live, Down
  <2>11. FewTimeouts(r)
    BY <2>1, <2>4, <2>7, <2>8 DEF Longer, Popped, FewTimeouts
  <2>12. QED
    BY <2>6, <2>7, <2>10, <2>11 DEF Sound
<1>4. QED
  BY <1>2, <1>3

LEMMA HandleSound ==
  ASSUME NEW k, NEW h, Popped(k, h)
  PROVE  Sound(Handle(k, h))
<1>1. h.handler \in Handlers
  BY DEF Popped, Completions
<1>2. CASE h.handler = "start"
  BY <1>2, StartSound DEF Handle
<1>3. CASE h.handler = "reconnect"
  BY <1>3, ResolveSound DEF Handle
<1>4. CASE h.handler = "resolve"
  BY <1>4, ConnectSound, FailedSound DEF Handle
<1>5. CASE h.handler = "connect"
  BY <1>5, ConnectedSound DEF Handle
<1>6. CASE h.handler = "write"
  BY <1>6, WrittenSound DEF Handle
<1>7. CASE h.handler = "handshakeRead"
  BY <1>7, HandshakeReadSound DEF Handle
<1>8. CASE h.handler = "streamRead"
  BY <1>8, StreamReadSound DEF Handle
<1>9. CASE h.handler = "connectTimeout"
  BY <1>9, ConnectTimedOutSound DEF Handle
<1>10. CASE h.handler = "readWatchdog"
  BY <1>10, ReadTimedOutSound DEF Handle
<1>11. CASE h.handler = "stop"
  BY <1>11, StopSound DEF Handle
<1>12. QED
  BY <1>1, <1>2, <1>3, <1>4, <1>5, <1>6, <1>7, <1>8, <1>9, <1>10, <1>11
     DEF Handlers, SocketOps, Timers

-----------------------------------------------------------------------------
(* The thread, the network, the clock and the node. *)

LEMMA SoundFields ==
  ASSUME Sound(link)
  PROVE  link \in Links /\ link.ready \in Seq(Completions)
BY DEF Sound, Links

LEMMA RunSound ==
  ASSUME Sound(link), Run
  PROVE  Sound(link')
BY SoundFields, PoppedFacts, HandleSound DEF Run

LEMMA ResolvedSound ==
  ASSUME Sound(link), Resolved
  PROVE  Sound(link')
<1>1. PICK ok \in BOOLEAN :
        link' = Post([link EXCEPT !.resolving = FALSE], Completion("resolve", ok))
  BY DEF Resolved
<1>2. PICK c \in Completions : c = Completion("resolve", ok) /\ c.handler = "resolve"
  BY CompletionType DEF Handlers
<1>3. PICK a : a = Append(link.ready, c)
  OBVIOUS
<1>4. Longer(link.ready, a, "resolve")
  BY <1>2, <1>3, SoundFields, Enqueued
<1>5. PICK r : r = link'
  OBVIOUS
<1>6. r = [link EXCEPT !.resolving = FALSE, !.ready = a]
  BY <1>1, <1>2, <1>3, <1>5, SoundFields DEF Post, Links
<1>7. /\ r \in Links /\ r.ready = a /\ r.pending = link.pending /\ r.resolving = FALSE
      /\ r.open = link.open /\ r.armed = link.armed /\ r.connected = link.connected
      /\ r.handshake_complete = link.handshake_complete
      /\ r.stopping = link.stopping /\ r.stopped = link.stopped /\ r.joined = link.joined
  BY <1>4, <1>6, SoundFields DEF Links, Longer
<1>8. link.resolving
  BY DEF Resolved
<1>9. OneToken(r)
  BY <1>4, <1>7, <1>8 DEF Longer, Sound, OneToken
<1>10. CleanStart(r)
  BY <1>4, <1>7, <1>8 DEF Longer, Sound, CleanStart, Timeouts
<1>11. FewTimeouts(r)
  BY <1>4, <1>7, <1>8 DEF Longer, Sound, FewTimeouts, Timeouts, Early
<1>12. Live(r)
  BY <1>4, <1>7 DEF Longer, Sound, Live
<1>13. Down(r)
  BY <1>4, <1>7, <1>8 DEF Longer, Sound, Down
<1>14. QED
  BY <1>5, <1>7, <1>9, <1>10, <1>11, <1>12, <1>13 DEF Sound

LEMMA TransferSound ==
  ASSUME Sound(link), NEW op \in SocketOps, NEW ok \in BOOLEAN,
         NEW response \in Responses \cup {"none"}, Transfer(op, ok, response)
  PROVE  Sound(link')
<1>1. PICK c \in Completions :
        c = [handler |-> op, ok |-> ok, response |-> response] /\ c.handler = op
  <2>1. op \in Handlers
    BY DEF Handlers
  <2>2. PICK c : c = [handler |-> op, ok |-> ok, response |-> response]
    OBVIOUS
  <2>3. c \in Completions /\ c.handler = op
    BY <2>1, <2>2 DEF Completions
  <2>4. QED
    BY <2>2, <2>3
<1>2. link.pending = {op}
  BY DEF Transfer, Sound, OneToken
<1>3. PICK a : a = Append(link.ready, c)
  OBVIOUS
<1>4. Longer(link.ready, a, op)
  BY <1>1, <1>3, SoundFields, Enqueued
<1>5. PICK r : r = link'
  OBVIOUS
<1>6. r = [link EXCEPT !.pending = {}, !.ready = a]
  BY <1>1, <1>2, <1>3, <1>5, SoundFields DEF Transfer, Post, Links
<1>7. /\ r \in Links /\ r.ready = a /\ r.pending = {} /\ r.resolving = link.resolving
      /\ r.open = link.open /\ r.armed = link.armed /\ r.connected = link.connected
      /\ r.handshake_complete = link.handshake_complete
      /\ r.stopping = link.stopping /\ r.stopped = link.stopped /\ r.joined = link.joined
  BY <1>4, <1>6, SoundFields DEF Links, Longer
<1>8. op \in Attempts /\ op \notin Openings /\ op \notin Timeouts /\ op # "stop"
  BY HandlerKinds
<1>9. ~Among(link.ready, Attempts) /\ ~link.resolving
  BY <1>2 DEF Sound, OneToken
<1>10. OneToken(r)
  BY <1>4, <1>7, <1>9 DEF Longer, Sound, OneToken
<1>11. CleanStart(r)
  BY <1>2, <1>4, <1>7, <1>8 DEF Longer, Sound, CleanStart
<1>12. FewTimeouts(r)
  BY <1>2, <1>4, <1>7, <1>8 DEF Longer, Sound, FewTimeouts
<1>13. Live(r)
  BY <1>2, <1>4, <1>7 DEF Longer, Sound, Live
<1>14. Down(r)
  BY <1>2, <1>4, <1>7, <1>8 DEF Longer, Sound, Down
<1>15. QED
  BY <1>5, <1>7, <1>10, <1>11, <1>12, <1>13, <1>14 DEF Sound

LEMMA ExpireSound ==
  ASSUME Sound(link), NEW timer \in Timers, Expire(timer)
  PROVE  Sound(link')
<1>1. PICK c \in Completions : c = Completion(timer, TRUE) /\ c.handler = timer
  BY CompletionType DEF Handlers
<1>2. PICK a : a = Append(link.ready, c)
  OBVIOUS
<1>3. Longer(link.ready, a, timer)
  BY <1>1, <1>2, SoundFields, Enqueued
<1>4. PICK r : r = link'
  OBVIOUS
<1>5. r = [link EXCEPT !.armed = @ \ {timer}, !.ready = a]
  BY <1>1, <1>2, <1>4, SoundFields DEF Expire, Post, Links
<1>6. /\ r \in Links /\ r.ready = a /\ r.pending = link.pending /\ r.resolving = link.resolving
      /\ r.open = link.open /\ r.armed = link.armed \ {timer} /\ r.connected = link.connected
      /\ r.handshake_complete = link.handshake_complete
      /\ r.stopping = link.stopping /\ r.stopped = link.stopped /\ r.joined = link.joined
  BY <1>3, <1>5, SoundFields DEF Links, Longer
<1>7. timer \in link.armed
  BY DEF Expire
<1>8. CASE timer = "reconnect"
  <2>1. ~Among(link.ready, Attempts) /\ ~Among(link.ready, Timeouts)
    BY <1>8, HandlerKinds DEF Expire, Among
  <2>2. link.armed = {"reconnect"}
    <3>1. ~Among(link.ready, {"streamRead"})
      BY <2>1, HandlerKinds DEF Among
    <3>2. QED
      BY <1>7, <1>8, <3>1, SoundFields DEF Sound, CleanStart, Links, Timers
  <2>3. OneToken(r)
    BY <1>3, <1>6, <1>7, <1>8, <2>1 DEF Longer, Sound, OneToken, CleanStart
  <2>4. CleanStart(r)
    BY <1>3, <1>6, <1>8, <2>1, <2>2, HandlerKinds DEF Longer, Sound, CleanStart, Timeouts
  <2>5. FewTimeouts(r)
    BY <1>3, <1>6, <1>8, <2>2 DEF Longer, Sound, FewTimeouts, Timeouts, Early
  <2>6. Live(r) /\ Down(r)
    BY <1>3, <1>6, <1>7, <1>8 DEF Longer, Sound, Live, Down
  <2>7. QED
    BY <1>4, <1>6, <2>3, <2>4, <2>5, <2>6 DEF Sound
<1>9. CASE timer # "reconnect"
  <2>1. /\ timer \in Timeouts /\ timer \notin Attempts /\ timer \notin Openings
        /\ timer \notin Early /\ timer # "streamRead" /\ timer # "stop"
    BY <1>9 DEF Timers, Timeouts, Attempts, Openings, SocketOps, Early
  <2>2. OneToken(r)
    BY <1>3, <1>6, <2>1 DEF Longer, Sound, OneToken
  <2>3. CleanStart(r)
    BY <1>3, <1>6, <1>7, <2>1 DEF Longer, Sound, CleanStart
  <2>4. ~Twice(link.ready, Timeouts) /\ ~Behind(link.ready, {"streamRead"}, Timeouts)
    <3>1. CASE timer = "connectTimeout"
      <4>1. ~Among(link.ready, Timeouts)
        BY <1>7, <3>1 DEF Sound, FewTimeouts
      <4>2. QED
        BY <4>1 DEF Among, Twice, Behind
    <3>2. CASE timer = "readWatchdog"
      BY <1>7, <3>2 DEF Sound, FewTimeouts
    <3>3. QED
      BY <1>9, <3>1, <3>2 DEF Timers
  <2>5. FewTimeouts(r)
    <3>1. ~Thrice(a, Timeouts) /\ ~TwiceBehind(a, {"streamRead"}, Timeouts)
      BY <1>3, <2>4 DEF Longer, Sound, FewTimeouts
    <3>2. link.armed \cap Timeouts = {timer}
      BY <1>7, <2>1 DEF Sound, FewTimeouts, Timeouts
    <3>3. "connectTimeout" \notin r.armed /\ "readWatchdog" \notin r.armed
      BY <1>6, <3>2 DEF Timeouts
    <3>4. link.pending \cap Early # {} \/ Among(link.ready, Early) => ~Among(link.ready, Timeouts)
      BY <1>7, <2>1 DEF Sound, FewTimeouts, Timeouts
    <3>5. link.pending \cap Early # {} \/ Among(a, Early) => ~Twice(a, Timeouts)
      BY <1>3, <2>1, <3>4 DEF Longer, Sound, FewTimeouts
    <3>6. QED
      BY <1>6, <3>1, <3>3, <3>5 DEF FewTimeouts
  <2>6. Live(r)
    BY <1>3, <1>6, <1>7, <2>1 DEF Longer, Sound, Live
  <2>7. Down(r)
    BY <1>3, <1>6, <1>7, <2>1 DEF Longer, Sound, Down
  <2>8. QED
    BY <1>4, <1>6, <2>2, <2>3, <2>5, <2>6, <2>7 DEF Sound
<1>10. QED
  BY <1>8, <1>9

LEMMA RequestStopSound ==
  ASSUME Sound(link), RequestStop
  PROVE  Sound(link')
<1>1. PICK c \in Completions : c = Completion("stop", TRUE) /\ c.handler = "stop"
  BY CompletionType DEF Handlers
<1>2. PICK a : a = Append(link.ready, c)
  OBVIOUS
<1>3. Longer(link.ready, a, "stop")
  BY <1>1, <1>2, SoundFields, Enqueued
<1>4. PICK r : r = link'
  OBVIOUS
<1>5. r = [link EXCEPT !.stopping = TRUE, !.ready = a] /\ ~link.stopping
  BY <1>1, <1>2, <1>4, SoundFields DEF RequestStop, Post, Links
<1>6. /\ r \in Links /\ r.ready = a /\ r.pending = link.pending /\ r.resolving = link.resolving
      /\ r.open = link.open /\ r.armed = link.armed /\ r.connected = link.connected
      /\ r.handshake_complete = link.handshake_complete
      /\ r.stopping = TRUE /\ r.stopped = link.stopped /\ r.joined = link.joined
  BY <1>3, <1>5, SoundFields DEF Links, Longer
<1>7. "stop" \notin Attempts /\ "stop" \notin Openings /\ "stop" \notin Timeouts /\ "stop" \notin Early
  BY DEF Timeouts, Attempts, Openings, SocketOps, Early
<1>8. OneToken(r) /\ CleanStart(r)
  BY <1>3, <1>6, <1>7 DEF Longer, Sound, OneToken, CleanStart
<1>9. FewTimeouts(r)
  BY <1>3, <1>6, <1>7 DEF Longer, Sound, FewTimeouts
<1>10. Live(r) /\ Down(r)
  BY <1>3, <1>5, <1>6 DEF Longer, Sound, Live, Down
<1>11. QED
  BY <1>4, <1>6, <1>8, <1>9, <1>10 DEF Sound

LEMMA JoinSound ==
  ASSUME Sound(link), Join
  PROVE  Sound(link')
<1>1. PICK r : r = link'
  OBVIOUS
<1>2. /\ r \in Links /\ r.ready = link.ready /\ r.pending = link.pending
      /\ r.resolving = link.resolving
      /\ r.open = link.open /\ r.armed = link.armed /\ r.connected = link.connected
      /\ r.handshake_complete = link.handshake_complete
      /\ r.stopping = link.stopping /\ r.stopped = link.stopped /\ r.joined = TRUE
  BY <1>1, SoundFields DEF Join, Links
<1>3. QED
  BY <1>1, <1>2 DEF Join, Sound, OneToken, CleanStart, FewTimeouts, Live, Down

LEMMA InitSound ==
  ASSUME Init
  PROVE  Sound(link)
<1>1. PICK c \in Completions : c = Completion("start", TRUE) /\ c.handler = "start"
  BY CompletionType DEF Handlers
<1>2. link.ready = <<c>> /\ <<c>> \in Seq(Completions)
  <2>1. <<c>> \in Seq(Completions)
    OBVIOUS
  <2>2. link.ready = <<Completion("start", TRUE)>>
    BY DEF Init
  <2>3. QED
    BY <1>1, <2>1, <2>2
<1>3. /\ link.pending = {} /\ link.resolving = FALSE /\ link.open = FALSE /\ link.armed = {}
      /\ link.connected = FALSE /\ link.stopping = FALSE /\ link.stopped = FALSE
      /\ link.joined = FALSE
  BY DEF Init
<1>4. link \in Links
  BY <1>1, <1>2 DEF Init, Links
<1>5. /\ \A H : Among(<<c>>, H) <=> "start" \in H
      /\ \A H : ~Twice(<<c>>, H) /\ ~Thrice(<<c>>, H)
      /\ \A H, G : ~Behind(<<c>>, H, G) /\ ~TwiceBehind(<<c>>, H, G)
  <2>1. PICK q : q = <<c>>
    OBVIOUS
  <2>2. 1 \in DOMAIN q /\ (\A i \in DOMAIN q : i = 1) /\ q[1].handler = "start"
    <3>1. DOMAIN q = 1..1 /\ q[1] = c
      BY <2>1
    <3>2. 1 \in DOMAIN q /\ \A i \in DOMAIN q : i = 1
      BY <3>1
    <3>3. q[1].handler = "start"
      BY <1>1, <3>1
    <3>4. QED
      BY <3>2, <3>3
  <2>3. \A i, j \in DOMAIN q : ~(i < j)
    BY <2>2
  <2>4. \A H : Among(q, H) <=> "start" \in H
    BY <2>2 DEF Among
  <2>5. \A H : ~Twice(q, H) /\ ~Thrice(q, H)
    BY <2>3 DEF Twice, Thrice
  <2>6. \A H, G : ~Behind(q, H, G) /\ ~TwiceBehind(q, H, G)
    BY <2>3 DEF Behind, TwiceBehind
  <2>7. QED
    BY <2>1, <2>4, <2>5, <2>6
<1>6. "start" \notin Timeouts /\ "start" \notin Early
  BY DEF Timeouts, Early
<1>7. QED
  BY <1>2, <1>3, <1>4, <1>5, <1>6
     DEF Sound, OneToken, CleanStart, FewTimeouts, Live, Down

-----------------------------------------------------------------------------
(* No attempt hangs: what a sound connection waits for is timed.           *)

\* A connection that has not been stopped has its token somewhere, or waits for the next attempt.
Going(k) ==
  \/ k.stopped \/ k.resolving \/ k.pending # {} \/ "reconnect" \in k.armed
  \/ Among(k.ready, Attempts)

\* A wait that the caster may leave without an end has a timeout, and handshake_complete is such
\* that the handler of this timeout will act.
Timed(k) ==
  /\ k.pending \cap Early # {} \/ (k.open /\ Among(k.ready, Early)) =>
       /\ ~k.handshake_complete
       /\ "connectTimeout" \in k.armed \/ Among(k.ready, {"connectTimeout"})
  /\ "streamRead" \in k.pending \/ (k.open /\ Among(k.ready, {"streamRead"})) =>
       k.handshake_complete
  /\ "streamRead" \in k.pending => "readWatchdog" \in k.armed \/ Among(k.ready, {"readWatchdog"})

\* The next attempt starts without the handshake of the last one.
Afresh(k) ==
  /\ k.resolving \/ Among(k.ready, Openings) => ~k.handshake_complete
  /\ "reconnect" \in k.armed => ~k.handshake_complete \/ Among(k.ready, {"streamRead"})

\* A stop that was asked for is queued until it is done.
Heard(k) ==
  /\ k.stopping /\ ~k.stopped => Among(k.ready, {"stop"})
  /\ k.stopped => k.stopping

Watched(k) == Going(k) /\ Timed(k) /\ Afresh(k) /\ Heard(k)

\* The same while h, the head of the queue, is run: k is the connection without it.
PoppedWatched(k, h) ==
  /\ Going(k) \/ h.handler \in Attempts
  /\ k.pending \cap Early # {} \/ (k.open /\ (Among(k.ready, Early) \/ h.handler \in Early)) =>
       /\ ~k.handshake_complete
       /\ \/ "connectTimeout" \in k.armed \/ Among(k.ready, {"connectTimeout"})
          \/ h.handler = "connectTimeout"
  /\ \/ "streamRead" \in k.pending
     \/ k.open /\ (Among(k.ready, {"streamRead"}) \/ h.handler = "streamRead")
     => k.handshake_complete
  /\ "streamRead" \in k.pending =>
       \/ "readWatchdog" \in k.armed \/ Among(k.ready, {"readWatchdog"})
       \/ h.handler = "readWatchdog"
  /\ k.resolving \/ Among(k.ready, Openings) \/ h.handler \in Openings => ~k.handshake_complete
  /\ "reconnect" \in k.armed =>
       \/ ~k.handshake_complete \/ Among(k.ready, {"streamRead"})
       \/ h.handler = "streamRead"
  /\ k.stopping /\ ~k.stopped => Among(k.ready, {"stop"}) \/ h.handler = "stop"
  /\ k.stopped => k.stopping

LEMMA PoppedWatchedFacts ==
  ASSUME NEW l \in Links, Watched(l), l.ready # <<>>
  PROVE  PoppedWatched([l EXCEPT !.ready = Tail(@)], Head(l.ready))
<1> DEFINE h == Head(l.ready)
           t == Tail(l.ready)
<1>1. \A H : Among(l.ready, H) <=> Among(t, H) \/ h.handler \in H
  BY TailCounts DEF Links
<1>2. PICK k : k = [l EXCEPT !.ready = Tail(@)]
  OBVIOUS
<1>3. /\ k.ready = t /\ k.pending = l.pending /\ k.resolving = l.resolving
      /\ k.open = l.open /\ k.armed = l.armed /\ k.handshake_complete = l.handshake_complete
      /\ k.stopping = l.stopping /\ k.stopped = l.stopped
  BY <1>2 DEF Links
<1> HIDE DEF h, t
<1>4. Going(k) \/ h.handler \in Attempts
  BY <1>1, <1>3 DEF Watched, Going
<1>5. /\ k.pending \cap Early # {} \/ (k.open /\ (Among(k.ready, Early) \/ h.handler \in Early)) =>
           /\ ~k.handshake_complete
           /\ \/ "connectTimeout" \in k.armed \/ Among(k.ready, {"connectTimeout"})
              \/ h.handler = "connectTimeout"
      /\ \/ "streamRead" \in k.pending
         \/ k.open /\ (Among(k.ready, {"streamRead"}) \/ h.handler = "streamRead")
         => k.handshake_complete
      /\ "streamRead" \in k.pending =>
           \/ "readWatchdog" \in k.armed \/ Among(k.ready, {"readWatchdog"})
           \/ h.handler = "readWatchdog"
  BY <1>1, <1>3 DEF Watched, Timed
<1>6. /\ k.resolving \/ Among(k.ready, Openings) \/ h.handler \in Openings => ~k.handshake_complete
      /\ "reconnect" \in k.armed =>
           \/ ~k.handshake_complete \/ Among(k.ready, {"streamRead"})
           \/ h.handler = "streamRead"
  BY <1>1, <1>3 DEF Watched, Afresh
<1>7. /\ k.stopping /\ ~k.stopped => Among(k.ready, {"stop"}) \/ h.handler = "stop"
      /\ k.stopped => k.stopping
  BY <1>1, <1>3 DEF Watched, Heard
<1>8. PoppedWatched(k, h)
  BY <1>4, <1>5, <1>6, <1>7 DEF PoppedWatched
<1>9. QED
  BY <1>2, <1>8 DEF h

\* What closing leaves, whatever was pending.
LEMMA ClosedFields ==
  ASSUME NEW k \in Links, OneToken(k), NEW r, r = CloseSocket(k)
  PROVE  /\ r \in Links /\ r.pending = {} /\ ~r.open
         /\ r.resolving = k.resolving /\ r.armed = k.armed /\ r.stopping = k.stopping
         /\ r.stopped = k.stopped /\ r.handshake_complete = k.handshake_complete
         /\ Among(k.ready, {"stop"}) => Among(r.ready, {"stop"})
         /\ Among(r.ready, Openings) => Among(k.ready, Openings)
<1>1. CASE k.pending = {}
  <2>1. r = [k EXCEPT !.open = FALSE]
    BY <1>1, CloseFacts
  <2>2. QED
    BY <1>1, <2>1 DEF Links
<1>2. CASE k.pending # {}
  <2>1. PICK op \in SocketOps :
          /\ k.pending = {op}
          /\ r = [k EXCEPT !.open = FALSE, !.pending = {},
                           !.ready = Append(@, Completion(op, FALSE))]
    BY <1>2, CloseFacts
  <2>2. PICK c \in Completions : c = Completion(op, FALSE) /\ c.handler = op
    BY CompletionType, HandlerKinds
  <2>3. PICK a : a = Append(k.ready, c)
    OBVIOUS
  <2>4. Longer(k.ready, a, op)
    BY <2>2, <2>3, Enqueued DEF Links
  <2>5. r = [k EXCEPT !.open = FALSE, !.pending = {}, !.ready = a]
    BY <2>1, <2>2, <2>3 DEF Links
  <2>6. /\ r \in Links /\ r.pending = {} /\ ~r.open /\ r.ready = a
        /\ r.resolving = k.resolving /\ r.armed = k.armed /\ r.stopping = k.stopping
        /\ r.stopped = k.stopped /\ r.handshake_complete = k.handshake_complete
    BY <2>4, <2>5 DEF Links, Longer
  <2>7. op \notin Openings
    BY HandlerKinds
  <2>8. QED
    BY <2>4, <2>6, <2>7 DEF Longer
<1>3. QED
  BY <1>1, <1>2

\* The delay before the next attempt is armed, unless there is to be none.
LEMMA FailedWatched ==
  ASSUME NEW k, NEW h, Popped(k, h), PoppedWatched(k, h), h.handler # "stop"
  PROVE  Watched(Failed(k))
<1>1. k \in Links /\ OneToken(k)
  BY DEF Popped
<1>2. PICK j : j = [k EXCEPT !.connected = FALSE]
  OBVIOUS
<1>3. /\ j \in Links /\ j.ready = k.ready /\ j.pending = k.pending /\ j.resolving = k.resolving
      /\ j.open = k.open /\ j.armed = k.armed /\ j.handshake_complete = k.handshake_complete
      /\ j.stopping = k.stopping /\ j.stopped = k.stopped
  BY <1>1, <1>2 DEF Links
<1>4. CASE k.stopped
  <2>1. Failed(k) = j
    BY <1>2, <1>3, <1>4 DEF Failed, ScheduleResolve, PostState
  <2>2. ~k.open /\ k.pending = {} /\ "reconnect" \notin k.armed
    BY <1>4 DEF Popped, Down
  <2>3. Watched(j)
    BY <1>3, <1>4, <2>2 DEF PoppedWatched, Watched, Going, Timed, Afresh, Heard
  <2>4. QED
    BY <2>1, <2>3
<1>5. CASE ~k.stopped
  <2>1. PICK c : c = CloseSocket(j)
    OBVIOUS
  <2>2. OneToken(j)
    BY <1>1, <1>3 DEF OneToken
  <2>3. /\ c \in Links /\ c.pending = {} /\ ~c.open /\ c.stopping = k.stopping
        /\ c.stopped = k.stopped
        /\ Among(k.ready, {"stop"}) => Among(c.ready, {"stop"})
    BY <1>3, <2>1, <2>2, ClosedFields
  <2>4. PICK r : r = [c EXCEPT !.connected = FALSE, !.armed = {"reconnect"},
                               !.handshake_complete = FALSE]
    OBVIOUS
  <2>5. Failed(k) = r
    BY <1>2, <1>3, <1>5, <2>1, <2>3, <2>4 DEF Failed, ScheduleResolve, PostState, Links
  <2>6. /\ r.ready = c.ready /\ r.pending = {} /\ ~r.open /\ r.armed = {"reconnect"}
        /\ ~r.handshake_complete /\ r.stopping = k.stopping /\ r.stopped = k.stopped
    BY <2>3, <2>4 DEF Links
  <2>7. Going(r) /\ Timed(r) /\ Afresh(r)
    BY <2>6 DEF Going, Timed, Afresh
  <2>8. Heard(r)
    BY <1>5, <2>3, <2>6 DEF PoppedWatched, Heard
  <2>9. QED
    BY <2>5, <2>7, <2>8 DEF Watched
<1>6. QED
  BY <1>4, <1>5

\* A handler that does nothing was not needed.
LEMMA KeptWatched ==
  ASSUME NEW k, NEW h, Popped(k, h), PoppedWatched(k, h), h.handler # "stop",
         h.handler \in Attempts => k.stopped,
         h.handler = "connectTimeout" => k.stopped \/ k.handshake_complete,
         h.handler = "readWatchdog" => k.stopped \/ ~k.handshake_complete
  PROVE  Watched(k)
<1>1. k.stopped => ~k.open /\ k.pending = {} /\ "reconnect" \notin k.armed
  BY DEF Popped, Down
<1>2. h.handler = "streamRead" => h.handler \in Attempts
  BY HandlerKinds
<1>3. Going(k) /\ Timed(k)
  BY <1>1 DEF PoppedWatched, Going, Timed
<1>4. Afresh(k) /\ Heard(k)
  BY <1>1, <1>2 DEF PoppedWatched, Afresh, Heard
<1>5. QED
  BY <1>3, <1>4 DEF Watched

\* The next operation is begun by g, which is k with other timers and another socket.
LEMMA BegunWatched ==
  ASSUME NEW k, NEW h, Popped(k, h), PoppedWatched(k, h), h.handler \in Attempts,
         NEW g \in Links, NEW op \in SocketOps,
         g.ready = k.ready, g.pending = {}, ~g.resolving,
         g.stopping = k.stopping, g.stopped = k.stopped,
         g.open /\ op \in Early =>
           /\ ~g.handshake_complete
           /\ "connectTimeout" \in g.armed \/ Among(g.ready, {"connectTimeout"}),
         g.open /\ op = "streamRead" => g.handshake_complete /\ "readWatchdog" \in g.armed,
         "reconnect" \in g.armed => ~g.open /\ (~g.handshake_complete \/ op = "streamRead")
  PROVE  Watched(Begin(g, op))
<1>1. g.ready \in Seq(Completions) /\ ~Among(g.ready, Attempts)
  BY DEF Popped, Links
<1>2. ~Among(g.ready, Openings) /\ ~Among(g.ready, Early) /\ ~Among(g.ready, {"streamRead"})
  BY <1>1, HandlerKinds DEF Among
<1>3. op \in Attempts /\ op \notin Openings /\ (op \in Early <=> op # "streamRead")
  BY HandlerKinds DEF Early
<1>4. h.handler # "stop"
  BY HandlerKinds
<1>5. /\ g.stopping /\ ~g.stopped => Among(g.ready, {"stop"})
      /\ g.stopped => g.stopping
  BY <1>4 DEF PoppedWatched
<1>6. CASE g.open
  <2>1. PICK r : r = [g EXCEPT !.pending = {op}]
    OBVIOUS
  <2>2. Begin(g, op) = r
    BY <1>6, <2>1 DEF Begin
  <2>3. /\ r.ready = g.ready /\ r.pending = {op} /\ r.resolving = g.resolving
        /\ r.armed = g.armed /\ r.handshake_complete = g.handshake_complete
        /\ r.stopping = g.stopping /\ r.stopped = g.stopped
    BY <2>1 DEF Links
  <2>4. Going(r) /\ Timed(r)
    BY <1>2, <1>3, <1>6, <2>3 DEF Going, Timed
  <2>5. Afresh(r) /\ Heard(r)
    BY <1>2, <1>5, <1>6, <2>3 DEF Afresh, Heard
  <2>6. QED
    BY <2>2, <2>4, <2>5 DEF Watched
<1>7. CASE ~g.open
  <2>1. PICK c \in Completions : c = Completion(op, FALSE) /\ c.handler = op
    BY CompletionType, HandlerKinds
  <2>2. PICK a : a = Append(g.ready, c)
    OBVIOUS
  <2>3. Longer(g.ready, a, op)
    BY <1>1, <2>1, <2>2, Enqueued
  <2>4. PICK r : r = [g EXCEPT !.ready = a]
    OBVIOUS
  <2>5. Begin(g, op) = r
    BY <1>7, <2>1, <2>2, <2>4 DEF Begin, Post
  <2>6. /\ r.ready = a /\ r.pending = {} /\ r.resolving = g.resolving /\ ~r.open
        /\ r.armed = g.armed /\ r.handshake_complete = g.handshake_complete
        /\ r.stopping = g.stopping /\ r.stopped = g.stopped
    BY <1>7, <2>4 DEF Links
  <2>7. Going(r) /\ Timed(r)
    BY <1>3, <2>3, <2>6 DEF Longer, Going, Timed
  <2>8. Afresh(r) /\ Heard(r)
    BY <1>2, <1>3, <1>5, <2>3, <2>6 DEF Longer, Afresh, Heard
  <2>9. QED
    BY <2>5, <2>7, <2>8 DEF Watched
<1>8. QED
  BY <1>6, <1>7

LEMMA StartWatched ==
  ASSUME NEW k, NEW h, Popped(k, h), PoppedWatched(k, h), h.handler = "start"
  PROVE  Watched(ScheduleResolve(k))
<1>1. k \in Links /\ k.connected = FALSE
  <2>1. ~Among(k.ready, {"streamRead"})
    BY HandlerKinds DEF Popped, Among, Openings
  <2>2. QED
    BY <2>1 DEF Popped, Links, Attempts, Openings
<1>2. PostState(k, FALSE) = k
  BY <1>1 DEF PostState, Links
<1>3. QED
  BY <1>2, FailedWatched DEF Failed

LEMMA ResolveWatched ==
  ASSUME NEW k, NEW h, Popped(k, h), PoppedWatched(k, h), h.handler = "reconnect"
  PROVE  Watched(DoResolve(k))
<1>1. /\ k \in Links /\ k.armed = {} /\ k.pending = {} /\ ~k.handshake_complete
      /\ h.handler \in Openings /\ h.handler \in Attempts /\ ~Among(k.ready, Attempts)
  BY DEF Popped, PoppedWatched, Attempts, Openings
<1>2. CASE k.stopped
  BY <1>2, KeptWatched DEF DoResolve
<1>3. CASE ~k.stopped
  <2>1. PICK r : r = [k EXCEPT !.connected = FALSE, !.resolving = TRUE]
    OBVIOUS
  <2>2. DoResolve(k) = r
    BY <1>1, <1>3, <2>1 DEF DoResolve, PostState, Links
  <2>3. /\ r.ready = k.ready /\ r.pending = {} /\ r.resolving /\ r.armed = {}
        /\ ~r.handshake_complete /\ r.stopping = k.stopping /\ r.stopped = k.stopped
    BY <1>1, <2>1 DEF Links
  <2>4. ~Among(k.ready, Early) /\ ~Among(k.ready, {"streamRead"})
    BY <1>1, HandlerKinds DEF Among
  <2>5. Going(r) /\ Timed(r)
    BY <2>3, <2>4 DEF Going, Timed
  <2>6. Afresh(r) /\ Heard(r)
    BY <2>3 DEF PoppedWatched, Afresh, Heard
  <2>7. QED
    BY <2>2, <2>5, <2>6 DEF Watched
<1>4. QED
  BY <1>2, <1>3

\* The deadline of the attempt is armed with its first operation.
LEMMA ConnectWatched ==
  ASSUME NEW k, NEW h, Popped(k, h), PoppedWatched(k, h), h.handler = "resolve"
  PROVE  Watched(DoConnect(k))
<1>1. /\ k \in Links /\ k.armed = {} /\ k.pending = {} /\ ~k.resolving
      /\ h.handler \in Attempts /\ ~k.handshake_complete
  BY DEF Popped, PoppedWatched, Attempts, Openings
<1>2. CASE k.stopped
  BY <1>2, KeptWatched DEF DoConnect
<1>3. CASE ~k.stopped
  <2>1. PICK g : g = [k EXCEPT !.connected = FALSE, !.armed = {"connectTimeout"}, !.open = TRUE]
    OBVIOUS
  <2>2. DoConnect(k) = Begin(g, "connect")
    BY <1>1, <1>3, <2>1 DEF DoConnect, PostState, Links
  <2>3. /\ g \in Links /\ g.ready = k.ready /\ g.pending = {} /\ g.resolving = FALSE
        /\ g.armed = {"connectTimeout"} /\ ~g.handshake_complete
        /\ g.stopping = k.stopping /\ g.stopped = k.stopped
    BY <1>1, <2>1 DEF Links, Timers
  <2>4. "connect" \in SocketOps /\ "connect" # "streamRead"
    BY DEF SocketOps
  <2>5. QED
    BY <1>1, <2>2, <2>3, <2>4, BegunWatched
<1>4. QED
  BY <1>2, <1>3

\* What PoppedWatched and Popped say to a handler of the attempt's first operations.
LEMMA EarlyWatched ==
  ASSUME NEW k, NEW h, Popped(k, h), PoppedWatched(k, h), h.handler \in Early
  PROVE  /\ k.open => /\ ~k.handshake_complete
                      /\ "connectTimeout" \in k.armed \/ Among(k.ready, {"connectTimeout"})
         /\ "reconnect" \in k.armed => ~k.handshake_complete
<1>1. h.handler # "streamRead" /\ h.handler # "connectTimeout"
  BY DEF Early
<1>2. ~Among(k.ready, {"streamRead"})
  BY HandlerKinds DEF Popped, Among
<1>3. QED
  BY <1>1, <1>2 DEF PoppedWatched

LEMMA ConnectedWatched ==
  ASSUME NEW k, NEW h, Popped(k, h), PoppedWatched(k, h), h.handler = "connect"
  PROVE  Watched(Connected(k, h))
<1>1. h.handler \in Early /\ h.handler \in Attempts
  BY DEF Attempts, SocketOps, Early
<1>2. CASE h.ok /\ k.open
  <2>1. PICK g : g = [k EXCEPT !.connected = FALSE]
    OBVIOUS
  <2>2. Connected(k, h) = Begin(g, "write")
    BY <1>2, <2>1 DEF Connected, DoHandshake, PostState
  <2>3. /\ g \in Links /\ g.ready = k.ready /\ g.pending = k.pending
        /\ g.resolving = k.resolving /\ g.open = k.open /\ g.armed = k.armed
        /\ g.handshake_complete = k.handshake_complete
        /\ g.stopping = k.stopping /\ g.stopped = k.stopped
    BY <2>1 DEF Links, Popped
  <2>4. "write" \in SocketOps /\ "write" # "streamRead"
    BY DEF SocketOps
  <2>5. QED
    BY <1>1, <2>2, <2>3, <2>4, EarlyFacts, EarlyWatched, BegunWatched
<1>3. CASE ~(h.ok /\ k.open)
  BY <1>3, FailedWatched DEF Connected
<1>4. QED
  BY <1>2, <1>3

LEMMA WrittenWatched ==
  ASSUME NEW k, NEW h, Popped(k, h), PoppedWatched(k, h), h.handler = "write"
  PROVE  Watched(Written(k, h))
<1>1. /\ h.handler \in Early /\ h.handler \in Attempts
      /\ "handshakeRead" \in SocketOps /\ "handshakeRead" # "streamRead"
  BY DEF Early, Attempts, SocketOps
<1>2. CASE h.ok
  BY <1>1, <1>2, EarlyFacts, EarlyWatched, BegunWatched DEF Written
<1>3. CASE ~h.ok
  BY <1>3, FailedWatched DEF Written
<1>4. QED
  BY <1>2, <1>3

\* The watchdog is armed before the deadline of the attempt is forgotten.
LEMMA HandshakeReadWatched ==
  ASSUME NEW k, NEW h, Popped(k, h), PoppedWatched(k, h), h.handler = "handshakeRead"
  PROVE  Watched(HandshakeRead(k, h))
<1>1. /\ h.handler \in Early /\ h.handler \in Attempts
      /\ "streamRead" \notin Early /\ "streamRead" \in SocketOps
  BY DEF Early, Attempts, SocketOps
<1> DEFINE armed == (k.armed \ {"connectTimeout"}) \cup {"readWatchdog"}
<1>2. /\ k \in Links /\ armed \in SUBSET Timers /\ k.pending = {} /\ ~k.resolving
      /\ "reconnect" \in k.armed => ~k.open
  BY <1>1, EarlyFacts DEF Links, Timers
<1>3. PICK g : g = [k EXCEPT !.handshake_complete = TRUE, !.connected = TRUE,
                      !.armed = armed, !.beat = ~@]
  OBVIOUS
<1>4. Established(k) = Begin(g, "streamRead")
  BY <1>2, <1>3 DEF Established, DoReadStream, StartReadWatchdog, PostState, Links
<1>5. /\ g \in Links /\ g.ready = k.ready /\ g.pending = k.pending /\ g.resolving = k.resolving
      /\ g.armed = armed /\ g.open = k.open /\ g.handshake_complete
      /\ g.stopping = k.stopping /\ g.stopped = k.stopped
  BY <1>2, <1>3 DEF Links
<1>6. Watched(Begin(g, "streamRead"))
  BY <1>1, <1>2, <1>5, BegunWatched
<1>7. QED
  BY <1>1, <1>4, <1>6, FailedWatched DEF HandshakeRead

LEMMA StreamReadWatched ==
  ASSUME NEW k, NEW h, Popped(k, h), PoppedWatched(k, h), h.handler = "streamRead"
  PROVE  Watched(StreamRead(k, h))
<1>1. /\ k \in Links /\ k.pending = {} /\ ~k.resolving /\ h.handler \in Attempts
      /\ "streamRead" \notin Early /\ "streamRead" \in SocketOps
      /\ "reconnect" \in k.armed => ~k.open
      /\ k.open => k.handshake_complete
  BY DEF Popped, PoppedWatched, Attempts, SocketOps, Early
<1>2. PICK g : g = [k EXCEPT !.armed = @ \cup {"readWatchdog"}, !.beat = ~@]
  OBVIOUS
<1>3. DoReadStream(StartReadWatchdog(k)) = Begin(g, "streamRead")
  BY <1>2 DEF DoReadStream, StartReadWatchdog
<1>4. /\ g \in Links /\ g.ready = k.ready /\ g.pending = {} /\ g.resolving = k.resolving
      /\ g.armed = k.armed \cup {"readWatchdog"} /\ g.open = k.open
      /\ g.handshake_complete = k.handshake_complete
      /\ g.stopping = k.stopping /\ g.stopped = k.stopped
  BY <1>1, <1>2 DEF Links, Timers
<1>5. Watched(Begin(g, "streamRead"))
  BY <1>1, <1>4, BegunWatched
<1>6. QED
  BY <1>3, <1>5, FailedWatched DEF StreamRead

LEMMA ConnectTimedOutWatched ==
  ASSUME NEW k, NEW h, Popped(k, h), PoppedWatched(k, h), h.handler = "connectTimeout"
  PROVE  Watched(ConnectTimedOut(k))
<1>1. h.handler \notin Attempts
  BY HandlerKinds DEF Timeouts
<1>2. CASE k.stopped \/ k.handshake_complete
  BY <1>1, <1>2, KeptWatched DEF ConnectTimedOut
<1>3. CASE ~(k.stopped \/ k.handshake_complete)
  <2>1. PICK j : j = PostState(k, FALSE)
    OBVIOUS
  <2>2. j \in Links /\ OneToken(j) /\ j.stopped = FALSE
    BY <1>3, <2>1 DEF Popped, OneToken, Links, PostState
  <2>3. PICK c : c = CloseSocket(j)
    OBVIOUS
  <2>4. c.open = FALSE /\ c.stopped = FALSE /\ [c EXCEPT !.open = FALSE] = c
    BY <2>2, <2>3, CloseFacts DEF Links
  <2>5. CloseSocket(c) = c
    BY <2>4 DEF CloseSocket
  <2>6. ScheduleResolve(c) = ScheduleResolve(j)
    BY <2>2, <2>3, <2>4, <2>5 DEF ScheduleResolve
  <2>7. QED
    BY <1>3, <2>1, <2>3, <2>6, FailedWatched DEF ConnectTimedOut, Failed
<1>4. QED
  BY <1>2, <1>3

LEMMA ReadTimedOutWatched ==
  ASSUME NEW k, NEW h, Popped(k, h), PoppedWatched(k, h), h.handler = "readWatchdog"
  PROVE  Watched(ReadTimedOut(k))
<1>1. h.handler \notin Attempts
  BY HandlerKinds DEF Timeouts
<1>2. QED
  BY <1>1, KeptWatched, FailedWatched DEF ReadTimedOut

LEMMA StopWatched ==
  ASSUME NEW k, NEW h, Popped(k, h), PoppedWatched(k, h), h.handler = "stop"
  PROVE  Watched(Stop(k))
<1>1. k \in Links /\ OneToken(k) /\ k.stopping
  BY DEF Popped
<1>2. PICK j : j = [k EXCEPT !.stopped = TRUE, !.armed = {}]
  OBVIOUS
<1>3. /\ j \in Links /\ j.ready = k.ready /\ j.pending = k.pending /\ j.resolving = k.resolving
      /\ j.open = k.open /\ j.armed = {} /\ j.handshake_complete = k.handshake_complete
      /\ j.stopping = k.stopping /\ j.stopped
  BY <1>1, <1>2 DEF Links
<1>4. OneToken(j)
  BY <1>1, <1>3 DEF OneToken
<1>5. PICK c : c = CloseSocket(j)
  OBVIOUS
<1>6. /\ c \in Links /\ c.pending = {} /\ ~c.open /\ c.armed = {} /\ c.stopping /\ c.stopped
      /\ c.resolving = k.resolving /\ c.handshake_complete = k.handshake_complete
      /\ Among(c.ready, Openings) => Among(k.ready, Openings)
  BY <1>1, <1>3, <1>4, <1>5, ClosedFields
<1>7. PICK r : r = [c EXCEPT !.connected = FALSE]
  OBVIOUS
<1>8. Stop(k) = r
  BY <1>2, <1>5, <1>7 DEF Stop, PostState
<1>9. /\ r.ready = c.ready /\ r.pending = {} /\ ~r.open /\ r.armed = {} /\ r.stopping
      /\ r.stopped /\ r.resolving = k.resolving /\ r.handshake_complete = k.handshake_complete
  BY <1>6, <1>7 DEF Links
<1>10. Going(r) /\ Timed(r) /\ Heard(r)
  BY <1>9 DEF Going, Timed, Heard
<1>11. Afresh(r)
  BY <1>6, <1>9 DEF PoppedWatched, Afresh
<1>12. QED
  BY <1>8, <1>10, <1>11 DEF Watched

LEMMA HandleWatched ==
  ASSUME NEW k, NEW h, Popped(k, h), PoppedWatched(k, h)
  PROVE  Watched(Handle(k, h))
<1>1. h.handler \in Handlers
  BY DEF Popped, Completions
<1>2. CASE h.handler = "start"
  BY <1>2, StartWatched DEF Handle
<1>3. CASE h.handler = "reconnect"
  BY <1>3, ResolveWatched DEF Handle
<1>4. CASE h.handler = "resolve"
  BY <1>4, ConnectWatched, FailedWatched DEF Handle
<1>5. CASE h.handler = "connect"
  BY <1>5, ConnectedWatched DEF Handle
<1>6. CASE h.handler = "write"
  BY <1>6, WrittenWatched DEF Handle
<1>7. CASE h.handler = "handshakeRead"
  BY <1>7, HandshakeReadWatched DEF Handle
<1>8. CASE h.handler = "streamRead"
  BY <1>8, StreamReadWatched DEF Handle
<1>9. CASE h.handler = "connectTimeout"
  BY <1>9, ConnectTimedOutWatched DEF Handle
<1>10. CASE h.handler = "readWatchdog"
  BY <1>10, ReadTimedOutWatched DEF Handle
<1>11. CASE h.handler = "stop"
  BY <1>11, StopWatched DEF Handle
<1>12. QED
  BY <1>1, <1>2, <1>3, <1>4, <1>5, <1>6, <1>7, <1>8, <1>9, <1>10, <1>11
     DEF Handlers, SocketOps, Timers

LEMMA RunWatched ==
  ASSUME Sound(link), Watched(link), Run
  PROVE  Watched(link')
<1>1. PICK k : k = [link EXCEPT !.ready = Tail(@)]
  OBVIOUS
<1>2. PICK h : h = Head(link.ready)
  OBVIOUS
<1>3. Popped(k, h) /\ PoppedWatched(k, h)
  BY <1>1, <1>2, SoundFields, PoppedFacts, PoppedWatchedFacts DEF Run
<1>4. link' = Handle(k, h)
  BY <1>1, <1>2 DEF Run
<1>5. QED
  BY <1>3, <1>4, HandleWatched

LEMMA ResolvedWatched ==
  ASSUME Sound(link), Watched(link), Resolved
  PROVE  Watched(link')
<1>1. PICK ok \in BOOLEAN :
        link' = Post([link EXCEPT !.resolving = FALSE], Completion("resolve", ok))
  BY DEF Resolved
<1>2. PICK c \in Completions : c = Completion("resolve", ok) /\ c.handler = "resolve"
  BY CompletionType DEF Handlers
<1>3. PICK a : a = Append(link.ready, c)
  OBVIOUS
<1>4. Longer(link.ready, a, "resolve")
  BY <1>2, <1>3, SoundFields, Enqueued
<1>5. PICK r : r = link'
  OBVIOUS
<1>6. r = [link EXCEPT !.resolving = FALSE, !.ready = a]
  BY <1>1, <1>2, <1>3, <1>5, SoundFields DEF Post, Links
<1>7. /\ r.ready = a /\ r.pending = link.pending /\ r.resolving = FALSE
      /\ r.open = link.open /\ r.armed = link.armed
      /\ r.handshake_complete = link.handshake_complete
      /\ r.stopping = link.stopping /\ r.stopped = link.stopped
  BY <1>6, SoundFields DEF Links
<1>8. link.resolving /\ "resolve" \in Attempts /\ "resolve" \notin Early
  BY DEF Resolved, Attempts, Openings, Early
<1>9. Going(r) /\ Timed(r)
  BY <1>4, <1>7, <1>8 DEF Longer, Watched, Going, Timed
<1>10. Afresh(r) /\ Heard(r)
  BY <1>4, <1>7, <1>8 DEF Longer, Watched, Afresh, Heard
<1>11. QED
  BY <1>5, <1>9, <1>10 DEF Watched

LEMMA TransferWatched ==
  ASSUME Sound(link), Watched(link), NEW op \in SocketOps, NEW ok \in BOOLEAN,
         NEW response \in Responses \cup {"none"}, Transfer(op, ok, response)
  PROVE  Watched(link')
<1>1. PICK c \in Completions :
        c = [handler |-> op, ok |-> ok, response |-> response] /\ c.handler = op
  <2>1. op \in Handlers
    BY DEF Handlers
  <2>2. PICK c : c = [handler |-> op, ok |-> ok, response |-> response]
    OBVIOUS
  <2>3. c \in Completions /\ c.handler = op
    BY <2>1, <2>2 DEF Completions
  <2>4. QED
    BY <2>2, <2>3
<1>2. link.pending = {op} /\ link.open
  BY DEF Transfer, Sound, OneToken
<1>3. PICK a : a = Append(link.ready, c)
  OBVIOUS
<1>4. Longer(link.ready, a, op)
  BY <1>1, <1>3, SoundFields, Enqueued
<1>5. PICK r : r = link'
  OBVIOUS
<1>6. r = [link EXCEPT !.pending = {}, !.ready = a]
  BY <1>1, <1>2, <1>3, <1>5, SoundFields DEF Transfer, Post, Links
<1>7. /\ r.ready = a /\ r.pending = {} /\ r.resolving = link.resolving
      /\ r.open = link.open /\ r.armed = link.armed
      /\ r.handshake_complete = link.handshake_complete
      /\ r.stopping = link.stopping /\ r.stopped = link.stopped
  BY <1>6, SoundFields DEF Links
<1>8. op \in Attempts /\ op \notin Openings /\ (op \in Early <=> op # "streamRead")
  BY HandlerKinds DEF Early
<1>9. Going(r)
  BY <1>4, <1>7, <1>8 DEF Longer, Going
<1>10. Timed(r)
  BY <1>2, <1>4, <1>7, <1>8 DEF Longer, Watched, Timed
<1>11. Afresh(r) /\ Heard(r)
  BY <1>4, <1>7, <1>8 DEF Longer, Watched, Afresh, Heard
<1>12. QED
  BY <1>5, <1>9, <1>10, <1>11 DEF Watched

LEMMA ExpireWatched ==
  ASSUME Sound(link), Watched(link), NEW timer \in Timers, Expire(timer)
  PROVE  Watched(link')
<1>1. PICK c \in Completions : c = Completion(timer, TRUE) /\ c.handler = timer
  BY CompletionType DEF Handlers
<1>2. PICK a : a = Append(link.ready, c)
  OBVIOUS
<1>3. Longer(link.ready, a, timer)
  BY <1>1, <1>2, SoundFields, Enqueued
<1>4. PICK r : r = link'
  OBVIOUS
<1>5. r = [link EXCEPT !.armed = @ \ {timer}, !.ready = a]
  BY <1>1, <1>2, <1>4, SoundFields DEF Expire, Post, Links
<1>6. /\ r.ready = a /\ r.pending = link.pending /\ r.resolving = link.resolving
      /\ r.open = link.open /\ r.armed = link.armed \ {timer}
      /\ r.handshake_complete = link.handshake_complete
      /\ r.stopping = link.stopping /\ r.stopped = link.stopped
  BY <1>5, SoundFields DEF Links
<1>7. timer \in link.armed /\ timer \notin SocketOps /\ timer \notin Early /\ timer # "streamRead"
  BY DEF Expire, Timers, SocketOps, Early
<1>8. Timed(r) /\ Heard(r)
  BY <1>3, <1>6, <1>7 DEF Longer, Watched, Timed, Heard
<1>9. CASE timer = "reconnect"
  <2>1. timer \in Attempts /\ timer \in Openings
    BY <1>9 DEF Attempts, Openings
  <2>2. ~Among(link.ready, {"streamRead"})
    BY <1>9 DEF Expire, Among
  <2>3. ~link.handshake_complete
    BY <1>7, <1>9, <2>2 DEF Watched, Afresh
  <2>4. Going(r) /\ Afresh(r)
    BY <1>3, <1>6, <1>9, <2>1, <2>3 DEF Longer, Going, Afresh
  <2>5. QED
    BY <1>4, <1>8, <2>4 DEF Watched
<1>10. CASE timer # "reconnect"
  <2>1. timer \notin Openings
    BY <1>10 DEF Timers, Openings
  <2>2. Going(r)
    BY <1>3, <1>6, <1>10 DEF Longer, Watched, Going
  <2>3. Afresh(r)
    BY <1>3, <1>6, <1>10, <2>1 DEF Longer, Watched, Afresh
  <2>4. QED
    BY <1>4, <1>8, <2>2, <2>3 DEF Watched
<1>11. QED
  BY <1>9, <1>10

LEMMA RequestStopWatched ==
  ASSUME Sound(link), Watched(link), RequestStop
  PROVE  Watched(link')
<1>1. PICK c \in Completions : c = Completion("stop", TRUE) /\ c.handler = "stop"
  BY CompletionType DEF Handlers
<1>2. PICK a : a = Append(link.ready, c)
  OBVIOUS
<1>3. Longer(link.ready, a, "stop")
  BY <1>1, <1>2, SoundFields, Enqueued
<1>4. PICK r : r = link'
  OBVIOUS
<1>5. r = [link EXCEPT !.stopping = TRUE, !.ready = a] /\ ~link.stopping
  BY <1>1, <1>2, <1>4, SoundFields DEF RequestStop, Post, Links
<1>6. /\ r.ready = a /\ r.pending = link.pending /\ r.resolving = link.resolving
      /\ r.open = link.open /\ r.armed = link.armed
      /\ r.handshake_complete = link.handshake_complete
      /\ r.stopping /\ r.stopped = link.stopped
  BY <1>5, SoundFields DEF Links
<1>7. "stop" \notin Openings /\ "stop" \notin Early
  BY DEF Openings, Early
<1>8. Going(r) /\ Timed(r)
  BY <1>3, <1>6, <1>7 DEF Longer, Watched, Going, Timed
<1>9. Afresh(r) /\ Heard(r)
  BY <1>3, <1>6, <1>7 DEF Longer, Watched, Afresh, Heard
<1>10. QED
  BY <1>4, <1>8, <1>9 DEF Watched

LEMMA JoinWatched ==
  ASSUME Sound(link), Watched(link), Join
  PROVE  Watched(link')
<1>1. PICK r : r = link'
  OBVIOUS
<1>2. /\ r.ready = link.ready /\ r.pending = link.pending /\ r.resolving = link.resolving
      /\ r.open = link.open /\ r.armed = link.armed
      /\ r.handshake_complete = link.handshake_complete
      /\ r.stopping = link.stopping /\ r.stopped = link.stopped
  BY <1>1, SoundFields DEF Join, Links
<1>3. Watched(r)
  BY <1>2 DEF Watched, Going, Timed, Afresh, Heard
<1>4. QED
  BY <1>1, <1>3

LEMMA InitWatched ==
  ASSUME Init
  PROVE  Watched(link)
<1>1. PICK c \in Completions : c = Completion("start", TRUE) /\ c.handler = "start"
  BY CompletionType DEF Handlers
<1>2. /\ link.ready = <<c>> /\ link.pending = {} /\ ~link.resolving /\ ~link.open
      /\ link.armed = {} /\ ~link.handshake_complete /\ ~link.stopping /\ ~link.stopped
  BY <1>1 DEF Init
<1>3. Among(link.ready, Attempts)
  <2>1. 1 \in DOMAIN <<c>> /\ <<c>>[1] = c
    OBVIOUS
  <2>2. "start" \in Attempts
    BY DEF Attempts, Openings
  <2>3. QED
    BY <1>1, <1>2, <2>1, <2>2 DEF Among
<1>4. QED
  BY <1>2, <1>3 DEF Watched, Going, Timed, Afresh, Heard

-----------------------------------------------------------------------------
(* The theorems. *)

\* Wherever the attempt is, it is there once, and what timers, aborted operations and stop() leave
\* in the queue around it is limited and harmless: the inductive invariant of the connection.
THEOREM NtripInvariance == Spec => []Sound(link)
<1>1. Init => Sound(link)
  BY InitSound
<1>2. Sound(link) /\ [Next]_link => Sound(link)'
  <2> SUFFICES ASSUME Sound(link), [Next]_link PROVE Sound(link')
    OBVIOUS
  <2>1. CASE Run
    BY <2>1, RunSound
  <2>2. CASE Resolved
    BY <2>2, ResolvedSound
  <2>3. ASSUME NEW op \in SocketOps, NEW ok \in BOOLEAN, NEW response \in Responses \cup {"none"},
               Transfer(op, ok, response)
        PROVE  Sound(link')
    BY <2>3, TransferSound
  <2>4. ASSUME NEW timer \in Timers, Expire(timer) PROVE Sound(link')
    BY <2>4, ExpireSound
  <2>5. CASE RequestStop
    BY <2>5, RequestStopSound
  <2>6. CASE Join
    BY <2>6, JoinSound
  <2>7. CASE UNCHANGED link
    BY <2>7
  <2>8. QED
    BY <2>1, <2>2, <2>3, <2>4, <2>5, <2>6, <2>7 DEF Next
<1>3. QED
  BY <1>1, <1>2, PTL DEF Spec

\* The state is typed, and four completions are all that the io_context ever has queued.
THEOREM NtripTypeCorrect == Spec => []TypeOK
<1>1. Sound(link) => TypeOK
  <2> SUFFICES ASSUME Sound(link) PROVE TypeOK
    OBVIOUS
  <2>1. link.ready \in Seq(Completions) /\ Len(link.ready) \in Nat
    BY SoundFields, LenProperties
  <2>2. Len(link.ready) <= 4
    BY <2>1, QueueBound DEF Sound, OneToken, FewTimeouts, Down
  <2>3. QED
    BY <2>1, <2>2, SoundFields, NtripAssumption DEF TypeOK
<1>2. QED
  BY <1>1, NtripInvariance, PTL

\* Whichever of deadline, watchdog, network error and stop() come together, the delay before an
\* attempt, its resolve and its operation on the socket are one at most.
THEOREM NtripOneAttempt == Spec => []OneAttempt
<1>1. Sound(link) => OneAttempt
  <2> SUFFICES ASSUME Sound(link) PROVE OneAttempt
    OBVIOUS
  <2> DEFINE waiting == link.armed \cap {"reconnect"}
  <2>1. link.pending = {} \/ \E o \in SocketOps : link.pending = {o}
    BY SoundFields DEF Sound, OneToken, Links
  <2>2. waiting = {} \/ waiting = {"reconnect"}
    OBVIOUS
  <2>3. Cardinality({}) = 0 /\ \A x : Cardinality({x}) = 1
    BY FS_EmptySet, FS_Singleton
  <2>4. waiting # {} => link.pending = {} /\ ~link.resolving
    BY DEF Sound, CleanStart
  <2>5. link.resolving => link.pending = {}
    BY DEF Sound, OneToken
  <2>6. Cardinality(link.pending) \in {0, 1} /\ (link.pending = {} => Cardinality(link.pending) = 0)
    BY <2>1, <2>3
  <2>7. Cardinality(waiting) \in {0, 1} /\ (waiting = {} => Cardinality(waiting) = 0)
    BY <2>2, <2>3
  <2> HIDE DEF waiting
  <2>8. Cardinality(link.pending) + Cardinality(waiting) + (IF link.resolving THEN 1 ELSE 0) <= 1
    BY <2>4, <2>5, <2>6, <2>7
  <2>9. QED
    BY <2>8 DEF OneAttempt, waiting
<1>2. QED
  BY <1>1, NtripInvariance, PTL

\* A connection that is said to stream is read or about to find out, and its silence is timed:
\* no expiry that was queued before the last bytes can leave it deaf.
THEOREM NtripConnectedLives == Spec => []ConnectedIsLive
<1>1. Sound(link) => ConnectedIsLive
  BY DEF Sound, Live, ConnectedIsLive, Among, Queued
<1>2. QED
  BY <1>1, NtripInvariance, PTL

\* After the handler of stop() no socket is open, nothing is begun on one and no attempt is
\* scheduled, whatever was queued behind it.
THEOREM NtripStoppedStaysDown == Spec => []StoppedStaysDown
<1>1. Sound(link) => StoppedStaysDown
  <2> SUFFICES ASSUME Sound(link) PROVE StoppedStaysDown
    OBVIOUS
  <2>1. link.joined => ~link.connected
    BY EmptyCounts DEF Sound, Down, Live
  <2>2. QED
    BY <2>1 DEF Sound, Down, StoppedStaysDown
<1>2. QED
  BY <1>1, NtripInvariance, PTL

\* The client is never left to wait for the caster alone.  Until it is stopped, an attempt is
\* under way or scheduled; an operation of the handshake is under the deadline and a read of the
\* stream under the watchdog, with handshake_complete as the handler of that timeout wants it; and
\* a stop that was requested is queued.  What KeepsTrying, SilenceNoticed and StopEnds need of
\* each state, so that fairness does the rest.
NeverHangs ==
  /\ \/ link.stopped \/ link.resolving \/ link.pending # {} \/ "reconnect" \in link.armed
     \/ \E handler \in {"start", "reconnect", "resolve"} \cup SocketOps : Queued(handler)
  /\ link.pending \cap {"connect", "write", "handshakeRead"} # {} =>
       /\ ~link.handshake_complete
       /\ "connectTimeout" \in link.armed \/ Queued("connectTimeout")
  /\ "streamRead" \in link.pending =>
       /\ link.handshake_complete
       /\ "readWatchdog" \in link.armed \/ Queued("readWatchdog")
  /\ link.stopping /\ ~link.stopped => Queued("stop")

\* No silence of the caster and no order of completions, expiries and stop() leaves the client
\* with nothing that moves it.
THEOREM NtripNeverHangs == Spec => []NeverHangs
<1>1. Init => Watched(link)
  BY InitWatched
<1>2. Sound(link) /\ Watched(link) /\ [Next]_link => Watched(link)'
  <2> SUFFICES ASSUME Sound(link), Watched(link), [Next]_link PROVE Watched(link')
    OBVIOUS
  <2>1. CASE Run
    BY <2>1, RunWatched
  <2>2. CASE Resolved
    BY <2>2, ResolvedWatched
  <2>3. ASSUME NEW op \in SocketOps, NEW ok \in BOOLEAN, NEW response \in Responses \cup {"none"},
               Transfer(op, ok, response)
        PROVE  Watched(link')
    BY <2>3, TransferWatched
  <2>4. ASSUME NEW timer \in Timers, Expire(timer) PROVE Watched(link')
    BY <2>4, ExpireWatched
  <2>5. CASE RequestStop
    BY <2>5, RequestStopWatched
  <2>6. CASE Join
    BY <2>6, JoinWatched
  <2>7. CASE UNCHANGED link
    BY <2>7
  <2>8. QED
    BY <2>1, <2>2, <2>3, <2>4, <2>5, <2>6, <2>7 DEF Next
<1>3. Watched(link) => NeverHangs
  <2> SUFFICES ASSUME Watched(link) PROVE NeverHangs
    OBVIOUS
  <2>1. \A H : Among(link.ready, H) <=> \E handler \in H : Queued(handler)
    BY DEF Among, Queued
  <2>2. Among(link.ready, Attempts)
          => \E handler \in {"start", "reconnect", "resolve"} \cup SocketOps : Queued(handler)
    BY <2>1 DEF Attempts, Openings
  <2>3. \A x : Among(link.ready, {x}) <=> Queued(x)
    BY DEF Among, Queued
  <2>4. QED
    BY <2>2, <2>3 DEF Watched, Going, Timed, Heard, NeverHangs, Early
<1>4. QED
  BY <1>1, <1>2, <1>3, NtripInvariance, PTL DEF Spec
=============================================================================
