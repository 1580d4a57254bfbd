---------------------------- MODULE BladeProofs ----------------------------
(***************************************************************************)
(* Proofs about BladeActuation: typing, the demand invariant, the truth of *)
(* satisfied() and the refinement of BladeInterlock.  Each method gets one *)
(* lemma per invariant; the theorems put them together action by action.   *)
(***************************************************************************)
EXTENDS BladeActuation, SequenceTheorems, TLAPS

-----------------------------------------------------------------------------
(* Typing of the methods. *)

LEMMA BladeConstants ==
  /\ NoFlight \in Flights
  /\ "Off" \in Directions /\ "Unknown" \in Directions
  /\ "Off" \in Demands /\ Demands = Directions \ {"Unknown"}
  /\ Rotations \subseteq Demands /\ Demands \subseteq Directions
  /\ BladeStates = {"OFF", "FWD", "REV", "TRANSITION_TO_OFF",
                    "WAIT_STOP_BEFORE_REVERSE", "FAILED"}
  /\ -1 \in -1..Coast /\ 0 \in -1..Coast
  /\ 0 \in 0..StopSamples /\ 1 \in 0..StopSamples
  /\ 0 \in 0..StopTimeout
  /\ 0 \in -1..(Freshness + 1) /\ -1 \in -1..(Freshness + 1)
  BY BladeTimingAssumption DEF NoFlight, Flights, Rotations, Demands, Directions, BladeStates

LEMMA NextRevisionType ==
  ASSUME NEW b \in BladeRecords
  PROVE  NextRevision(b) \in 0..(RevisionMod - 1)
  BY BladeIdAssumption DEF NextRevision, BladeRecords

LEMMA RevisedType ==
  ASSUME NEW b \in BladeRecords
  PROVE  Revised(b) \in BladeRecords
  BY NextRevisionType DEF Revised, BladeRecords

LEMMA ForceOffType ==
  ASSUME NEW b \in BladeRecords
  PROVE  ForceOff(b) \in BladeRecords
  BY NextRevisionType, BladeConstants DEF ForceOff, BladeRecords

LEMMA ServiceTimeoutType ==
  ASSUME NEW b \in BladeRecords
  PROVE  ServiceTimeout(b) \in BladeRecords
  BY ZenonT(60), ForceOffType, BladeConstants DEF ServiceTimeout, BladeRecords

LEMMA FailType ==
  ASSUME NEW b \in BladeRecords, NEW s \in BOOLEAN
  PROVE  Fail(b, s) \in BladeRecords
<1>1. PICK pending : pending = (InFlight(b) /\ b.in_flight.direction = "Off")
  OBVIOUS
<1>2. PICK flight \in Flights : flight = IF pending THEN b.in_flight ELSE NoFlight
  BY BladeConstants DEF BladeRecords
<1>3. PICK neutral \in BOOLEAN : neutral = (b.queued_neutral \/ (s /\ ~pending))
  OBVIOUS
<1>4. PICK revision \in 0..(RevisionMod - 1) : revision = NextRevision(b)
  BY NextRevisionType
<1>5. Fail(b, s) = [b EXCEPT !.in_flight = flight, !.revision = revision, !.fault = TRUE,
                             !.requested = "Off", !.state = "FAILED",
                             !.queued_neutral = neutral]
  BY <1>1, <1>2, <1>3, <1>4, Zenon DEF Fail
<1>6. PICK f : f = [b EXCEPT !.in_flight = flight, !.revision = revision]
  OBVIOUS
<1>7. f \in BladeRecords
  BY <1>6 DEF BladeRecords
<1>8. "Off" \in Demands /\ "FAILED" \in BladeStates
  BY BladeConstants
<1>9. [f EXCEPT !.fault = TRUE, !.requested = "Off", !.state = "FAILED",
                !.queued_neutral = neutral] \in BladeRecords
  BY <1>7, <1>8 DEF BladeRecords
<1>10. QED
  BY <1>5, <1>6, <1>9 DEF BladeRecords

LEMMA LandedType ==
  ASSUME NEW b \in BladeRecords
  PROVE  [b EXCEPT !.in_flight = NoFlight] \in BladeRecords
  BY BladeConstants DEF BladeRecords

LEMMA ConnectionType ==
  ASSUME NEW b \in BladeRecords, NEW c \in BOOLEAN
  PROVE  Connection(b, c) \in BladeRecords
<1> DEFINE r == [b EXCEPT !.connected = c, !.sample_source = -1, !.sample_receipt = -1]
<1>1. r \in BladeRecords
  BY BladeConstants DEF BladeRecords
<1>2. QED
  BY <1>1, ForceOffType DEF Connection

LEMMA PermissionType ==
  ASSUME NEW b \in BladeRecords, NEW a \in BOOLEAN
  PROVE  Permission(b, a) \in BladeRecords
<1> DEFINE r == IF b.allowed /\ ~a THEN ForceOff(b) ELSE b
<1>1. r \in BladeRecords
  BY ForceOffType
<1>2. [r EXCEPT !.allowed = a] \in BladeRecords
  BY <1>1 DEF BladeRecords
<1>3. QED
  BY <1>2 DEF Permission

LEMMA TakenType ==
  ASSUME NEW b \in BladeRecords, NEW d \in Demands
  PROVE  Taken(b, d) \in BladeRecords
<1> DEFINE r == IF FlyingOn(b) THEN ForceOff(b) ELSE b
<1>1. r \in BladeRecords
  BY ForceOffType
<1>2. ReverseThroughOff(b, d) \in BladeRecords
  <2>1. [r EXCEPT !.requested = d, !.queued_neutral = TRUE,
                  !.state = "TRANSITION_TO_OFF"] \in BladeRecords
    BY <1>1, BladeConstants DEF BladeRecords
  <2>2. QED
    BY <2>1 DEF ReverseThroughOff
<1>3. [b EXCEPT !.requested = d, !.state = "WAIT_STOP_BEFORE_REVERSE",
                !.wait_since = 0] \in BladeRecords
  BY BladeConstants DEF BladeRecords
<1>4. QED
  BY <1>2, <1>3, ForceOffType DEF Taken

LEMMA RequestedType ==
  ASSUME NEW b \in BladeRecords, NEW d \in Directions
  PROVE  Requested(b, d) \in BladeRecords
<1> SUFFICES ASSUME d \in Demands PROVE Requested(b, d) \in BladeRecords
  BY BladeConstants DEF Requested, RequestRejected
<1>1. QED
  BY RevisedType, TakenType DEF Requested

LEMMA SampledType ==
  ASSUME NEW b \in BladeRecords, NEW s \in Observations
  PROVE  Sampled(b, s) \in BladeRecords
<1> DEFINE restart == b.sample_source # s.source \/ b.sample_receipt > Freshness
           proves  == s.zero /\ b.confirmed = "Off"
           since   == IF ~proves THEN -1
                      ELSE IF restart \/ b.stop_since < 0 THEN 0 ELSE b.stop_since
           count   == IF ~proves THEN 0
                      ELSE IF restart THEN 1
                      ELSE IF b.stop_samples < StopSamples
                           THEN b.stop_samples + 1 ELSE StopSamples
<1>1. since \in -1..Coast
  BY BladeConstants DEF BladeRecords
<1>2. count \in 0..StopSamples
  BY BladeTimingAssumption DEF BladeRecords
<1>3. s.source \in {-1, 1, 2} /\ s.zero \in BOOLEAN
  BY DEF Observations
<1> HIDE DEF since, count
<1>4. [b EXCEPT !.sample_source = s.source, !.sample_receipt = 0, !.sample_zero = s.zero,
                !.stop_since = since, !.stop_samples = count] \in BladeRecords
  BY <1>1, <1>2, <1>3, BladeConstants DEF BladeRecords
<1>5. QED
  BY <1>4 DEF Sampled, OneMore, since, count

LEMMA TickedType ==
  ASSUME NEW b \in BladeRecords
  PROVE  /\ AckTick(b) \in BladeRecords
         /\ StaleTick(AckTick(b)) \in BladeRecords
         /\ Ticked(b) \in BladeRecords
<1>1. AckTick(b) \in BladeRecords
  <2>1. (b.in_flight.direction # "Off") \in BOOLEAN
    OBVIOUS
  <2>2. QED
    BY <2>1, LandedType, FailType DEF AckTick
<1>2. StaleTick(AckTick(b)) \in BladeRecords
  BY <1>1, FailType DEF StaleTick
<1>3. StopTick(StaleTick(AckTick(b))) \in BladeRecords
  BY <1>2, FailType DEF StopTick
<1>4. QED
  BY <1>1, <1>2, <1>3 DEF Ticked

LEMMA NextDirectionType ==
  ASSUME NEW b \in BladeRecords
  PROVE  NextDirection(b) \in Directions
  BY BladeConstants DEF NextDirection, MayStart, BladeRecords

LEMMA DispatchedType ==
  ASSUME NEW b \in BladeRecords, NEW t \in Tokens
  PROVE  Dispatched(b, t) \in BladeRecords
<1> DEFINE k == Ticked(b)
           d == NextDirection(k)
<1>1. k \in BladeRecords /\ d \in Directions
  BY TickedType, NextDirectionType
<1> HIDE DEF k, d
<1>2. [token |-> t, direction |-> d, age |-> 0] \in Flights
  BY <1>1, BladeTimingAssumption DEF Flights
<1>3. [k EXCEPT !.queued_neutral = FALSE,
                !.in_flight = [token |-> t, direction |-> d, age |-> 0]] \in BladeRecords
  BY <1>1, <1>2 DEF BladeRecords
<1>4. Dispatched(b, t) =
        IF d = "Unknown" THEN k
        ELSE [k EXCEPT !.queued_neutral = FALSE,
                       !.in_flight = [token |-> t, direction |-> d, age |-> 0]]
  BY DEF Dispatched, k, d
<1>5. QED
  BY <1>1, <1>3, <1>4

LEMMA CompletedType ==
  ASSUME NEW b \in BladeRecords, NEW t, NEW a \in BOOLEAN
  PROVE  Completed(b, t, a) \in BladeRecords
<1>1. b.in_flight.direction \in Directions
  BY DEF BladeRecords, Flights
<1>2. Accepted(b, b.in_flight.direction) \in BladeRecords
  BY ZenonT(60), <1>1, BladeConstants DEF Accepted, BladeRecords
<1>3. (b.in_flight.direction # "Off") \in BOOLEAN
  OBVIOUS
<1>4. QED
  BY <1>2, <1>3, LandedType, FailType DEF Completed

LEMMA OutputSeenType ==
  ASSUME NEW b \in BladeRecords, NEW p \in Directions
  PROVE  OutputSeen(b, p) \in BladeRecords
  BY ForceOffType DEF OutputSeen

LEMMA AgedType ==
  ASSUME NEW b \in BladeRecords
  PROVE  Aged(b) \in BladeRecords
<1> DEFINE f == IF InFlight(b)
                THEN [b.in_flight EXCEPT !.age = Older(b.in_flight.age, AckTimeout)]
                ELSE b.in_flight
           w == Older(b.wait_since, StopTimeout)
           s == IF b.stop_since < 0 THEN b.stop_since ELSE Older(b.stop_since, Coast)
           r == IF b.sample_receipt < 0 THEN b.sample_receipt
                ELSE Older(b.sample_receipt, Freshness + 1)
<1>1. f \in Flights
  BY BladeTimingAssumption DEF BladeRecords, Flights, Older
<1>2. w \in 0..StopTimeout /\ s \in -1..Coast /\ r \in -1..(Freshness + 1)
  BY BladeTimingAssumption DEF BladeRecords, Older
<1> HIDE DEF f, w, s, r
<1>3. [b EXCEPT !.in_flight = f, !.wait_since = w, !.stop_since = s,
                !.sample_receipt = r] \in BladeRecords
  BY <1>1, <1>2 DEF BladeRecords
<1>4. Aged(b) = [b EXCEPT !.in_flight = f, !.wait_since = w, !.stop_since = s,
                          !.sample_receipt = r]
  BY DEF Aged, f, w, s, r
<1>5. QED
  BY <1>3, <1>4
-----------------------------------------------------------------------------
(* The demand invariant. *)

LEMMA DirectionCases ==
  /\ Rotations = {"Forward", "Reverse"} /\ Demands = {"Forward", "Reverse", "Off"}
  /\ Directions = {"Forward", "Reverse", "Off", "Unknown"}
  BY DEF Rotations, Demands, Directions

LEMMA ForceOffDemand ==
  ASSUME NEW b \in BladeRecords, NEW i \in Directions
  PROVE  DemandInv(ForceOff(b), i)
  BY DEF DemandInv, ForceOff, BladeRecords, InFlight, FlyingOn, NoFlight

LEMMA ServiceTimeoutDemand ==
  ASSUME NEW b \in BladeRecords, NEW i \in Directions
  PROVE  DemandInv(ServiceTimeout(b), i)
<1>1. ForceOff(b) \in BladeRecords /\ DemandInv(ForceOff(b), i)
  BY ForceOffType, ForceOffDemand
<1>2. ForceOff(b).queued_neutral /\ ~InFlight(ForceOff(b))
  BY DEF ForceOff, BladeRecords, InFlight, NoFlight
<1>3. QED
  BY <1>1, <1>2 DEF DemandInv, ServiceTimeout, BladeRecords, InFlight, FlyingOn

\* fail() keeps the invariant where its callers use it: it queues a neutral, or no
\* ON is out.
LEMMA FailDemand ==
  ASSUME NEW b \in BladeRecords, NEW i \in Directions, NEW s \in BOOLEAN,
         InFlight(b) => b.in_flight.direction = i /\ i # "Unknown",
         s \/ i \notin Rotations \/ b.queued_neutral
  PROVE  DemandInv(Fail(b, s), i)
<1>1. Fail(b, s).fault = TRUE /\ Fail(b, s).requested = "Off"
  BY DEF Fail, BladeRecords
<1>2. i \in Rotations => Fail(b, s).queued_neutral
  BY DEF Fail, BladeRecords, Rotations
<1>3. /\ InFlight(Fail(b, s)) => Fail(b, s).in_flight = b.in_flight /\ InFlight(b)
      /\ ~FlyingOn(Fail(b, s))
  BY DEF Fail, BladeRecords, InFlight, FlyingOn, NoFlight
<1>4. QED
  BY <1>1, <1>2, <1>3 DEF DemandInv

LEMMA ConnectionDemand ==
  ASSUME NEW b \in BladeRecords, NEW i \in Directions, NEW c \in BOOLEAN, DemandInv(b, i)
  PROVE  DemandInv(Connection(b, c), i)
<1> DEFINE r == [b EXCEPT !.connected = c, !.sample_source = -1, !.sample_receipt = -1]
<1>1. r \in BladeRecords
  BY BladeConstants DEF BladeRecords
<1>2. QED
  BY <1>1, ForceOffDemand DEF Connection

LEMMA PermissionDemand ==
  ASSUME NEW b \in BladeRecords, NEW i \in Directions, NEW a \in BOOLEAN, DemandInv(b, i)
  PROVE  DemandInv(Permission(b, a), i)
<1>1. CASE b.allowed /\ ~a
  <2>1. ForceOff(b) \in BladeRecords /\ DemandInv(ForceOff(b), i)
    BY ForceOffType, ForceOffDemand
  <2>2. ForceOff(b).queued_neutral
    BY DEF ForceOff, BladeRecords
  <2>3. Permission(b, a) = [ForceOff(b) EXCEPT !.allowed = a]
    BY <1>1 DEF Permission
  <2>4. QED
    BY <2>1, <2>2, <2>3 DEF DemandInv, BladeRecords, InFlight, FlyingOn
<1>2. CASE ~(b.allowed /\ ~a)
  <2>1. Permission(b, a) = [b EXCEPT !.allowed = a]
    BY <1>2 DEF Permission
  <2>2. QED
    BY <2>1, <1>2 DEF DemandInv, BladeRecords, InFlight, FlyingOn
<1>3. QED
  BY <1>1, <1>2

LEMMA TakenDemand ==
  ASSUME NEW b \in BladeRecords, NEW i \in Directions, NEW d \in Directions, DemandInv(b, i)
  PROVE  DemandInv(Taken(b, d), i)
<1> DEFINE r == IF FlyingOn(b) THEN ForceOff(b) ELSE b
           settled == [b EXCEPT !.requested = d,
                                !.state = "WAIT_STOP_BEFORE_REVERSE", !.wait_since = 0]
<1>1. DemandInv(ReverseThroughOff(b, d), i)
  <2>1. r \in BladeRecords /\ DemandInv(r, i) /\ ~FlyingOn(r)
    BY ZenonT(40), ForceOffType, ForceOffDemand DEF ForceOff, FlyingOn, InFlight, NoFlight, BladeRecords
  <2>2. ReverseThroughOff(b, d) =
          [r EXCEPT !.requested = d, !.queued_neutral = TRUE,
                    !.state = "TRANSITION_TO_OFF"]
    BY DEF ReverseThroughOff
  <2> HIDE DEF r
  <2>3. QED
    BY <2>1, <2>2 DEF DemandInv, BladeRecords, InFlight, FlyingOn
<1>2. ASSUME b.confirmed = "Off", ~InFlight(b), ~b.queued_neutral
      PROVE  DemandInv(settled, i)
  BY <1>2 DEF DemandInv, BladeRecords, InFlight, FlyingOn, Rotations
<1>3. QED
  BY <1>1, <1>2, ForceOffDemand DEF Taken

LEMMA RequestedDemand ==
  ASSUME NEW b \in BladeRecords, NEW i \in Directions, NEW d \in Directions, DemandInv(b, i)
  PROVE  DemandInv(Requested(b, d), i)
<1>1. DemandInv(Revised(b), i)
  BY DEF Revised, DemandInv, BladeRecords, InFlight, FlyingOn
<1>2. QED
  BY <1>1, RevisedType, TakenDemand DEF Requested

LEMMA SampledDemand ==
  ASSUME NEW b \in BladeRecords, NEW i \in Directions, NEW s, DemandInv(b, i)
  PROVE  DemandInv(Sampled(b, s), i)
<1>1. LET c == Sampled(b, s) IN
        /\ c.in_flight = b.in_flight /\ c.queued_neutral = b.queued_neutral
        /\ c.requested = b.requested /\ c.confirmed = b.confirmed
        /\ c.connected = b.connected /\ c.allowed = b.allowed
        /\ c.fault = b.fault /\ c.state = b.state
  BY DEF Sampled, OneMore, BladeRecords
<1>2. QED
  BY <1>1 DEF DemandInv, InFlight, FlyingOn

LEMMA TickedDemand ==
  ASSUME NEW b \in BladeRecords, NEW i \in Directions, DemandInv(b, i)
  PROVE  DemandInv(Ticked(b), i)
<1>1. DemandInv(AckTick(b), i)
  <2>1. CASE InFlight(b) /\ b.in_flight.age >= AckTimeout
    <3> DEFINE r == [b EXCEPT !.in_flight = NoFlight]
    <3>1. r \in BladeRecords /\ ~InFlight(r)
      BY LandedType DEF InFlight, NoFlight, BladeRecords
    <3>2. (b.in_flight.direction # "Off") \in BOOLEAN
      OBVIOUS
    <3>3. b.in_flight.direction # "Off" \/ i \notin Rotations
      BY <2>1 DEF DemandInv, Rotations
    <3> HIDE DEF r
    <3>4. DemandInv(Fail(r, b.in_flight.direction # "Off"), i)
      BY <3>1, <3>2, <3>3, FailDemand
    <3>5. QED
      BY <3>4, <2>1 DEF AckTick, r
  <2>2. QED
    BY <2>1 DEF AckTick
<1>2. DemandInv(StaleTick(AckTick(b)), i)
  <2> DEFINE r == AckTick(b)
  <2>1. r \in BladeRecords /\ DemandInv(r, i)
    BY <1>1, TickedType
  <2> HIDE DEF r
  <2>2. DemandInv(Fail(r, TRUE), i)
    BY <2>1, FailDemand DEF DemandInv
  <2>3. QED
    BY <2>1, <2>2 DEF StaleTick, r
<1>3. DemandInv(StopTick(StaleTick(AckTick(b))), i)
  <2> DEFINE r == StaleTick(AckTick(b))
  <2>1. r \in BladeRecords /\ DemandInv(r, i)
    BY <1>2, TickedType
  <2> HIDE DEF r
  <2>2. ASSUME r.state = "WAIT_STOP_BEFORE_REVERSE", ~InFlight(r)
        PROVE  DemandInv(Fail(r, FALSE), i)
    <3>1. i \notin Rotations \/ r.queued_neutral
      BY <2>1, <2>2 DEF DemandInv
    <3>2. QED
      BY <2>1, <2>2, <3>1, FailDemand
  <2>3. QED
    BY <2>1, <2>2 DEF StopTick, r
<1>4. QED
  BY <1>3 DEF Ticked

LEMMA OutputSeenDemand ==
  ASSUME NEW b \in BladeRecords, NEW i \in Directions, NEW p, DemandInv(b, i)
  PROVE  DemandInv(OutputSeen(b, p), i)
  BY ForceOffDemand DEF OutputSeen

LEMMA AgedDemand ==
  ASSUME NEW b \in BladeRecords, NEW i \in Directions, DemandInv(b, i)
  PROVE  DemandInv(Aged(b), i)
<1>1. LET c == Aged(b) IN
        /\ c.in_flight.token = b.in_flight.token
        /\ c.in_flight.direction = b.in_flight.direction
        /\ c.queued_neutral = b.queued_neutral
        /\ c.requested = b.requested /\ c.confirmed = b.confirmed
        /\ c.connected = b.connected /\ c.allowed = b.allowed
        /\ c.fault = b.fault /\ c.state = b.state
  BY DEF Aged, BladeRecords, Flights
<1>2. QED
  BY <1>1 DEF DemandInv, InFlight, FlyingOn

\* What next() hands out keeps the invariant, with the command as the last issued.
LEMMA DispatchedDemand ==
  ASSUME NEW b \in BladeRecords, NEW i \in Directions, NEW t \in Tokens, DemandInv(b, i)
  PROVE  DemandInv(Dispatched(b, t),
                   IF NextDirection(Ticked(b)) = "Unknown" THEN i
                   ELSE NextDirection(Ticked(b)))
<1> DEFINE k == Ticked(b)
           d == NextDirection(k)
           sent == [k EXCEPT !.queued_neutral = FALSE,
                             !.in_flight = [token |-> t, direction |-> d, age |-> 0]]
<1>1. k \in BladeRecords /\ DemandInv(k, i) /\ d \in Directions
  BY TickedType, TickedDemand, NextDirectionType
<1>2. Dispatched(b, t) = IF d = "Unknown" THEN k ELSE sent
  BY DEF Dispatched
<1>3. ASSUME d # "Unknown" PROVE DemandInv(sent, d)
  <2>1. ~InFlight(k) /\ (d # "Off" => /\ ~k.queued_neutral /\ ~k.fault /\ k.connected
                                      /\ k.allowed /\ k.requested = d /\ k.confirmed = "Off")
    BY <1>3 DEF NextDirection, MayStart
  <2> HIDE DEF k, d
  <2>2. /\ sent.in_flight = [token |-> t, direction |-> d, age |-> 0]
        /\ sent.queued_neutral = FALSE
        /\ sent.fault = k.fault /\ sent.connected = k.connected
        /\ sent.allowed = k.allowed /\ sent.requested = k.requested
        /\ sent.confirmed = k.confirmed
    BY <1>1 DEF BladeRecords
  <2>3. t # 0
    BY BladeIdAssumption
  <2>4. InFlight(sent)
    BY <2>2, <2>3 DEF InFlight
  <2> HIDE DEF sent
  <2>5. QED
    BY <2>1, <2>2, <2>4, <1>3 DEF DemandInv, FlyingOn, Rotations
<1>4. QED
  BY <1>1, <1>2, <1>3

LEMMA CompletedDemand ==
  ASSUME NEW b \in BladeRecords, NEW i \in Directions, NEW t, NEW a \in BOOLEAN,
         DemandInv(b, i)
  PROVE  DemandInv(Completed(b, t, a), i)
<1> DEFINE d == b.in_flight.direction
           r == [b EXCEPT !.in_flight = NoFlight]
<1>1. CASE ~Current(b, t)
  BY <1>1 DEF Completed
<1>2. CASE Current(b, t) /\ a
  <2>1. d = i /\ i # "Unknown" /\ InFlight(b)
    BY <1>2 DEF DemandInv, Current
  <2>2. Completed(b, t, a) = Accepted(b, i)
    BY <1>2, <2>1 DEF Completed
  <2>3. CASE i = "Off"
    BY <2>2, <2>3 DEF Accepted, DemandInv, BladeRecords, InFlight, FlyingOn, NoFlight, Rotations
  <2>4. CASE i # "Off"
    <3>1. FlyingOn(b) /\ i \in Rotations
      BY <2>1, <2>4, DirectionCases DEF FlyingOn
    <3>2. b.requested = i /\ b.connected /\ b.allowed /\ ~b.fault /\ ~b.queued_neutral
      BY <3>1 DEF DemandInv
    <3>3. LET c == Accepted(b, i) IN
            /\ c.in_flight = NoFlight /\ c.confirmed = i
            /\ c.state \in {"FWD", "REV"}
            /\ c.requested = i /\ c.connected /\ c.allowed /\ ~c.fault
      BY <2>4, <3>2 DEF Accepted, BladeRecords
    <3>4. QED
      BY <2>2, <3>3 DEF DemandInv, InFlight, FlyingOn, NoFlight
  <2>5. QED
    BY <2>3, <2>4
<1>3. CASE Current(b, t) /\ ~a
  <2>1. r \in BladeRecords /\ ~InFlight(r)
    BY LandedType DEF InFlight, NoFlight, BladeRecords
  <2>2. d = i /\ (d # "Off") \in BOOLEAN
    BY <1>3 DEF DemandInv, Current
  <2>3. Completed(b, t, a) = Fail(r, d # "Off")
    BY <1>3 DEF Completed
  <2>4. d # "Off" \/ i \notin Rotations
    BY <2>2 DEF Rotations
  <2> HIDE DEF r, d
  <2>5. QED
    BY <2>1, <2>2, <2>3, <2>4, FailDemand
<1>4. QED
  BY <1>1, <1>2, <1>3
-----------------------------------------------------------------------------
(* The steps of the specification. *)

LEMMA FreeToken ==
  ASSUME FreeTokens # {}
  PROVE  (CHOOSE t \in FreeTokens : TRUE) \in FreeTokens
  OBVIOUS

\* Every call but Dispatch and Complete only changes blade.
LEMMA CallersStep ==
  ASSUME TypeOK, Callers
  PROVE  /\ blade' \in BladeRecords
         /\ DemandInv(blade, issued) => DemandInv(blade', issued)
         /\ UNCHANGED <<transport, plant>>
<1>0. blade \in BladeRecords /\ issued \in Directions
  BY DEF TypeOK
<1>1. ASSUME NEW c \in BOOLEAN, SetConnection(c)
      PROVE  blade' = Connection(blade, c) /\ UNCHANGED <<transport, plant>>
  BY <1>1 DEF SetConnection, Call
<1>2. ASSUME NEW a \in BOOLEAN, SetPermission(a)
      PROVE  blade' = Permission(blade, a) /\ UNCHANGED <<transport, plant>>
  BY <1>2 DEF SetPermission, Call
<1>3. ASSUME NEW d \in Directions, Request(d)
      PROVE  blade' = Requested(blade, d) /\ UNCHANGED <<transport, plant>>
  BY <1>3 DEF Request, Call
<1>4. ASSUME NEW s \in Observations, Observe(s)
      PROVE  blade' = Sampled(blade, s) /\ UNCHANGED <<transport, plant>>
  BY <1>4 DEF Observe, Call
<1>5. ASSUME NEW p \in Directions, Output(p)
      PROVE  blade' = OutputSeen(blade, p) /\ UNCHANGED <<transport, plant>>
  BY <1>5 DEF Output, Call
<1>6. CASE ForcedOff
  BY <1>0, <1>6, ForceOffType, ForceOffDemand DEF ForcedOff, Call
<1>7. CASE ReplyDeadline
  BY <1>0, <1>7, ServiceTimeoutType, ServiceTimeoutDemand DEF ReplyDeadline, Call
<1>8. CASE TickOnly
  BY <1>0, <1>8, TickedType, TickedDemand DEF TickOnly, Call
<1>9. QED
  BY <1>0, <1>1, <1>2, <1>3, <1>4, <1>5, <1>6, <1>7, <1>8,
     ConnectionType, ConnectionDemand, PermissionType, PermissionDemand,
     RequestedType, RequestedDemand, SampledType, SampledDemand,
     OutputSeenType, OutputSeenDemand
  DEF Callers

LEMMA InitTypeOK == Init => TypeOK
<1> SUFFICES ASSUME Init PROVE TypeOK
  OBVIOUS
<1>1. blade \in BladeRecords
  BY BladeConstants, BladeIdAssumption, BladeTimingAssumption
     DEF Init, BladeInitial, BladeRecords
<1>2. QED
  BY <1>1 DEF Init, TypeOK, Directions, Demands

LEMMA NextTypeOK == TypeOK /\ [Next]_vars => TypeOK'
<1> SUFFICES ASSUME TypeOK, [Next]_vars PROVE TypeOK'
  OBVIOUS
<1> USE DEF TypeOK
<1>1. CASE Callers
  BY <1>1, CallersStep DEF transport, plant
<1>2. CASE Dispatch
  <2> DEFINE d == NextDirection(Ticked(blade))
             t == CHOOSE u \in FreeTokens : TRUE
  <2>1. t \in FreeTokens /\ t \in Tokens /\ d \in Directions
    BY <1>2, FreeToken, TickedType, NextDirectionType DEF Dispatch, FreeTokens
  <2>2. blade' = Dispatched(blade, t) /\ UNCHANGED plant /\ UNCHANGED replies
    BY <1>2 DEF Dispatch, transport
  <2>3. \/ UNCHANGED <<issued, wire>>
        \/ d # "Unknown" /\ issued' = d /\ wire' = Append(wire, [token |-> t, direction |-> d])
    BY <1>2 DEF Dispatch, transport
  <2> HIDE DEF d, t
  <2>4. blade' \in BladeRecords
    BY <2>1, <2>2, DispatchedType
  <2>5. d # "Unknown" => d \in Demands
    BY <2>1, DirectionCases
  <2>6. issued' \in Directions /\ wire' \in Seq(Emitted)
    <3>1. CASE UNCHANGED <<issued, wire>>
      BY <3>1
    <3>2. CASE /\ d # "Unknown" /\ issued' = d
               /\ wire' = Append(wire, [token |-> t, direction |-> d])
      <4>1. [token |-> t, direction |-> d] \in Emitted
        BY <2>1, <2>5, <3>2 DEF Emitted
      <4>2. QED
        BY <2>1, <3>2, <4>1, AppendProperties
    <3>3. QED
      BY <2>3, <3>1, <3>2
  <2>7. QED
    BY <2>2, <2>4, <2>6 DEF plant
<1>3. ASSUME NEW r \in replies, Complete(r) PROVE TypeOK'
  BY <1>3, CompletedType DEF Complete, plant
<1>4. CASE FcuApplies
  <2>1. Head(wire) \in Emitted /\ Tail(wire) \in Seq(Emitted)
    BY <1>4, HeadTailProperties DEF FcuApplies
  <2>2. Head(wire).token \in Tokens /\ Head(wire).direction \in Demands
    BY <2>1 DEF Emitted
  <2>3. replies' \subseteq [token : Tokens, accepted : BOOLEAN]
    BY <1>4, <2>2 DEF FcuApplies, Answer
  <2>4. QED
    BY <1>4, <2>1, <2>2, <2>3 DEF FcuApplies
<1>5. CASE WireLoses
  <2>1. Head(wire) \in Emitted /\ Tail(wire) \in Seq(Emitted)
    BY <1>5, HeadTailProperties DEF WireLoses
  <2>2. Head(wire).token \in Tokens /\ Head(wire).direction \in Demands
    BY <2>1 DEF Emitted
  <2>3. replies' \subseteq [token : Tokens, accepted : BOOLEAN]
    <3>1. \/ replies' = replies
          \/ replies' = replies \cup {[token |-> Head(wire).token, accepted |-> FALSE]}
      BY <1>5, Zenon DEF WireLoses, Answer
    <3>2. [token |-> Head(wire).token, accepted |-> FALSE] \in [token : Tokens, accepted : BOOLEAN]
      BY <2>2
    <3>3. QED
      BY <3>1, <3>2, Zenon
  <2>4. wire' = Tail(wire) /\ UNCHANGED <<blade, issued, servo, rotation>>
    BY <1>5 DEF WireLoses, plant
  <2>5. QED
    BY <2>1, <2>3, <2>4
<1>6. CASE Spin
  BY <1>6, BladeConstants DEF Spin, transport
<1>7. CASE ClockTick
  BY <1>7, AgedType DEF ClockTick, transport, plant
<1>8. CASE UNCHANGED vars
  BY <1>8 DEF vars
<1>9. QED
  BY <1>1, <1>2, <1>3, <1>4, <1>5, <1>6, <1>7, <1>8 DEF Next, Environment

\* Every reachable state of the controller, the transport and the machine is typed:
\* no method leaves a state, direction or age outside the declared ranges.
THEOREM TypeCorrect == Spec => []TypeOK
  BY InitTypeOK, NextTypeOK, PTL DEF Spec

LEMMA DemandInvariance == Spec => []DemandInvariant
<1>1. Init => DemandInvariant
  BY DEF Init, BladeInitial, DemandInvariant, DemandInv, InFlight, FlyingOn, NoFlight, Rotations
<1>2. TypeOK /\ DemandInvariant /\ [Next]_vars => DemandInvariant'
  <2> SUFFICES ASSUME TypeOK, DemandInvariant, [Next]_vars PROVE DemandInvariant'
    OBVIOUS
  <2>0. blade \in BladeRecords /\ issued \in Directions /\ DemandInv(blade, issued)
    BY DEF TypeOK, DemandInvariant
  <2>1. CASE Callers
    BY <2>0, <2>1, CallersStep DEF DemandInvariant, transport
  <2>2. CASE Dispatch
    <3> DEFINE d == NextDirection(Ticked(blade))
               t == CHOOSE u \in FreeTokens : TRUE
    <3>1. t \in Tokens
      BY <2>2, FreeToken DEF Dispatch, FreeTokens
    <3>2. blade' = Dispatched(blade, t) /\ issued' = IF d = "Unknown" THEN issued ELSE d
      BY <2>2 DEF Dispatch, transport
    <3>3. DemandInv(Dispatched(blade, t), IF d = "Unknown" THEN issued ELSE d)
      BY <2>0, <3>1, DispatchedDemand
    <3>4. QED
      BY <3>2, <3>3 DEF DemandInvariant
  <2>3. ASSUME NEW r \in replies, Complete(r) PROVE DemandInvariant'
    BY <2>0, <2>3, CompletedDemand DEF Complete, DemandInvariant, TypeOK
  <2>4. CASE FcuApplies \/ WireLoses \/ Spin
    BY <2>4 DEF FcuApplies, WireLoses, Spin, DemandInvariant, transport
  <2>5. CASE ClockTick
    BY <2>0, <2>5, AgedDemand DEF ClockTick, DemandInvariant, transport
  <2>6. CASE UNCHANGED vars
    BY <2>6 DEF vars, DemandInvariant
  <2>7. QED
    BY <2>1, <2>2, <2>3, <2>4, <2>5, <2>6 DEF Next, Environment
<1>3. QED
  BY <1>1, <1>2, TypeCorrect, PTL DEF Spec

\* An ON given to the transport is still wanted, or a neutral is queued behind it,
\* for every choice of the timeouts, of the stop proof and of the command identities.
THEOREM IssuedStaysWanted == Spec => []IssuedWanted
<1>1. DemandInvariant => IssuedWanted
  BY DEF DemandInvariant, DemandInv, IssuedWanted
<1>2. QED
  BY <1>1, DemandInvariance, PTL

-----------------------------------------------------------------------------
(* The controller and the machine together: satisfied() tells the truth    *)
(* about the servo, and the machine keeps BladeInterlock.  Both follow     *)
(* from PlantInv, inductive relative to TypeOK.                            *)

\* What every call but Dispatch, Complete and Observe does to the facts PlantInv
\* speaks of: it may drop the command in flight and it may unsettle the controller.
Quiet(b, c) ==
  /\ InFlight(c) => /\ InFlight(b)
                    /\ c.in_flight.token = b.in_flight.token
                    /\ c.in_flight.direction = b.in_flight.direction
  /\ Settled(c) => /\ Settled(b)
                   /\ c.confirmed = b.confirmed
                   /\ c.stop_samples = b.stop_samples

LEMMA QuietRefl == ASSUME NEW b PROVE Quiet(b, b)
  BY DEF Quiet

LEMMA QuietTrans ==
  ASSUME NEW a, NEW b, NEW c, Quiet(a, b), Quiet(b, c)
  PROVE  Quiet(a, c)
  BY DEF Quiet

LEMMA ForceOffQuiet ==
  ASSUME NEW b \in BladeRecords
  PROVE  \A a : Quiet(a, ForceOff(b))
<1>1. ~InFlight(ForceOff(b)) /\ ForceOff(b).queued_neutral
  BY DEF ForceOff, BladeRecords, InFlight, NoFlight
<1>2. QED
  BY <1>1 DEF Quiet, Settled

LEMMA FailQuiet ==
  ASSUME NEW b \in BladeRecords, NEW s \in BOOLEAN
  PROVE  Quiet(b, Fail(b, s))
<1>1. Fail(b, s).fault
  BY DEF Fail, BladeRecords
<1>2. Fail(b, s).in_flight = b.in_flight \/ Fail(b, s).in_flight = NoFlight
  BY DEF Fail, BladeRecords
<1>3. QED
  BY <1>1, <1>2 DEF Quiet, Settled, InFlight, NoFlight

\* The failure of a command that left: its token is dropped first.
LEMMA LandedFailQuiet ==
  ASSUME NEW b \in BladeRecords, NEW s \in BOOLEAN
  PROVE  Quiet(b, Fail([b EXCEPT !.in_flight = NoFlight], s))
<1> DEFINE r == [b EXCEPT !.in_flight = NoFlight]
<1>1. r \in BladeRecords /\ ~InFlight(r)
  BY LandedType DEF InFlight, NoFlight, BladeRecords
<1> HIDE DEF r
<1>2. Fail(r, s).fault
  BY <1>1 DEF Fail, BladeRecords
<1>3. ~InFlight(Fail(r, s))
  BY <1>1 DEF Fail, BladeRecords, InFlight, NoFlight
<1>4. QED
  BY <1>2, <1>3 DEF Quiet, Settled, r

LEMMA ServiceTimeoutQuiet ==
  ASSUME NEW b \in BladeRecords
  PROVE  Quiet(b, ServiceTimeout(b))
<1>1. ForceOff(b) \in BladeRecords /\ ~InFlight(ForceOff(b)) /\ ForceOff(b).queued_neutral
  BY ForceOffType DEF ForceOff, BladeRecords, InFlight, NoFlight
<1>2. QED
  BY <1>1 DEF ServiceTimeout, BladeRecords, InFlight, Quiet, Settled

LEMMA ConnectionQuiet ==
  ASSUME NEW b \in BladeRecords, NEW c \in BOOLEAN
  PROVE  Quiet(b, Connection(b, c))
<1> DEFINE r == [b EXCEPT !.connected = c, !.sample_source = -1, !.sample_receipt = -1]
<1>1. r \in BladeRecords
  BY BladeConstants DEF BladeRecords
<1>2. Quiet(b, ForceOff(r))
  BY <1>1, ForceOffQuiet
<1>3. QED
  BY <1>2, QuietRefl DEF Connection

LEMMA PermissionQuiet ==
  ASSUME NEW b \in BladeRecords, NEW a \in BOOLEAN
  PROVE  Quiet(b, Permission(b, a))
<1> DEFINE r == IF b.allowed /\ ~a THEN ForceOff(b) ELSE b
<1>1. r \in BladeRecords /\ Quiet(b, r)
  BY ForceOffType, ForceOffQuiet, QuietRefl
<1>2. Permission(b, a) = [r EXCEPT !.allowed = a]
  BY DEF Permission
<1> HIDE DEF r
<1>3. LET c == Permission(b, a) IN
        /\ c.in_flight = r.in_flight /\ c.queued_neutral = r.queued_neutral
        /\ c.fault = r.fault /\ c.confirmed = r.confirmed
        /\ c.stop_samples = r.stop_samples
  BY <1>1, <1>2 DEF BladeRecords
<1>4. QED
  BY <1>1, <1>3 DEF Quiet, Settled, InFlight

LEMMA TakenQuiet ==
  ASSUME NEW b \in BladeRecords, NEW d \in Directions
  PROVE  Quiet(b, Taken(b, d))
<1> DEFINE r == IF FlyingOn(b) THEN ForceOff(b) ELSE b
           settled == [b EXCEPT !.requested = d,
                                !.state = "WAIT_STOP_BEFORE_REVERSE", !.wait_since = 0]
<1>1. Quiet(b, ReverseThroughOff(b, d))
  <2>1. r \in BladeRecords /\ Quiet(b, r)
    BY ForceOffType, ForceOffQuiet, QuietRefl
  <2>2. ReverseThroughOff(b, d) =
          [r EXCEPT !.requested = d, !.queued_neutral = TRUE,
                    !.state = "TRANSITION_TO_OFF"]
    BY DEF ReverseThroughOff
  <2> HIDE DEF r
  <2>3. /\ ReverseThroughOff(b, d).in_flight = r.in_flight
        /\ ReverseThroughOff(b, d).queued_neutral
    BY <2>1, <2>2 DEF BladeRecords
  <2>4. QED
    BY <2>1, <2>3 DEF Quiet, Settled, InFlight
<1>2. Quiet(b, settled)
  BY DEF Quiet, Settled, InFlight, BladeRecords
<1>3. Quiet(b, ForceOff(b))
  BY ForceOffQuiet
<1>4. QED
  BY <1>1, <1>2, <1>3 DEF Taken

LEMMA RequestedQuiet ==
  ASSUME NEW b \in BladeRecords, NEW d \in Directions
  PROVE  Quiet(b, Requested(b, d))
<1>1. Quiet(b, Revised(b))
  BY DEF Revised, Quiet, Settled, InFlight, BladeRecords
<1>2. QED
  BY <1>1, RevisedType, TakenQuiet, QuietRefl, QuietTrans DEF Requested

LEMMA TickedQuiet ==
  ASSUME NEW b \in BladeRecords
  PROVE  Quiet(b, Ticked(b))
<1>1. Quiet(b, AckTick(b))
  <2>1. (b.in_flight.direction # "Off") \in BOOLEAN
    OBVIOUS
  <2>2. QED
    BY <2>1, LandedFailQuiet, QuietRefl DEF AckTick
<1>2. Quiet(AckTick(b), StaleTick(AckTick(b)))
  BY TickedType, FailQuiet, QuietRefl DEF StaleTick
<1>3. Quiet(StaleTick(AckTick(b)), StopTick(StaleTick(AckTick(b))))
  BY TickedType, FailQuiet, QuietRefl DEF StopTick
<1>4. QED
  BY <1>1, <1>2, <1>3, QuietTrans DEF Ticked

LEMMA OutputSeenQuiet ==
  ASSUME NEW b \in BladeRecords, NEW p
  PROVE  Quiet(b, OutputSeen(b, p))
  BY ForceOffQuiet, QuietRefl DEF OutputSeen

LEMMA AgedQuiet ==
  ASSUME NEW b \in BladeRecords
  PROVE  Quiet(b, Aged(b))
<1>1. LET c == Aged(b) IN
        /\ c.in_flight.token = b.in_flight.token
        /\ c.in_flight.direction = b.in_flight.direction
        /\ c.queued_neutral = b.queued_neutral
        /\ c.fault = b.fault /\ c.confirmed = b.confirmed
        /\ c.stop_samples = b.stop_samples
  BY DEF Aged, BladeRecords, Flights
<1>2. QED
  BY <1>1 DEF Quiet, Settled, InFlight
-----------------------------------------------------------------------------
(* The invariant, action by action. *)

LEMMA TokensPositive ==
  ASSUME TypeOK
  PROVE  /\ \A i \in 1..Len(wire) : wire[i].token # 0
         /\ \A r \in replies : r.token # 0
<1>1. 0 \notin Tokens
  BY BladeIdAssumption
<1>2. \A i \in 1..Len(wire) : wire[i] \in Emitted
  BY ElementOfSeq DEF TypeOK
<1>3. \A i \in 1..Len(wire) : wire[i].token \in Tokens
  BY <1>2 DEF Emitted
<1>4. \A r \in replies : r.token \in Tokens
  BY DEF TypeOK
<1>5. QED
  BY <1>1, <1>3, <1>4

LEMMA QuietPlant ==
  ASSUME TypeOK, PlantInv, Quiet(blade, blade'), UNCHANGED <<transport, plant>>
  PROVE  PlantInv'
<1>1. UNCHANGED <<wire, replies, servo, rotation>>
  BY DEF transport, plant
<1>2. /\ \A i \in 1..Len(wire) : wire[i].token # 0
      /\ \A r \in replies : r.token # 0
  BY TokensPositive
<1>3. blade'.in_flight.token = 0
      \/ (/\ blade'.in_flight.token = blade.in_flight.token
          /\ blade'.in_flight.direction = blade.in_flight.direction)
  BY DEF Quiet, InFlight
<1>4. Settled(blade)' => /\ Settled(blade)
                         /\ blade'.confirmed = blade.confirmed
                         /\ blade'.stop_samples = blade.stop_samples
  BY DEF Quiet, Settled, InFlight
<1>5. QED
  BY <1>1, <1>2, <1>3, <1>4 DEF PlantInv

LEMMA ObservePlant ==
  ASSUME TypeOK, PlantInv, NEW s \in Observations, Observe(s)
  PROVE  PlantInv'
<1>1. /\ blade' = Sampled(blade, s) /\ UNCHANGED <<wire, replies, servo, rotation>>
      /\ s.zero <=> rotation = "Off"
      /\ blade \in BladeRecords
  BY DEF Observe, Call, transport, plant, TypeOK
<1>2. /\ blade'.in_flight = blade.in_flight
      /\ blade'.queued_neutral = blade.queued_neutral
      /\ blade'.fault = blade.fault /\ blade'.confirmed = blade.confirmed
  BY <1>1 DEF Sampled, OneMore, BladeRecords
<1>3. blade'.stop_samples > 0 => blade.stop_samples > 0 \/ s.zero
  BY <1>1 DEF Sampled, OneMore, BladeRecords
<1>4. Settled(blade)' <=> Settled(blade)
  BY <1>2 DEF Settled, InFlight
<1>5. QED
  BY <1>1, <1>2, <1>3, <1>4 DEF PlantInv

LEMMA DispatchPlant ==
  ASSUME TypeOK, PlantInv, Dispatch
  PROVE  PlantInv'
<1> DEFINE k == Ticked(blade)
           d == NextDirection(k)
           t == CHOOSE u \in FreeTokens : TRUE
           e == [token |-> t, direction |-> d]
<1>1. blade \in BladeRecords /\ k \in BladeRecords /\ Quiet(blade, k)
  BY TickedType, TickedQuiet DEF TypeOK
<1>2. t \in Tokens /\ t \notin Outstanding
  BY FreeToken DEF Dispatch, FreeTokens
<1>3. CASE d = "Unknown"
  <2>1. blade' = k /\ UNCHANGED <<transport, plant>>
    BY <1>3 DEF Dispatch, Dispatched
  <2>2. QED
    BY <1>1, <2>1, QuietPlant
<1>4. CASE d # "Unknown"
  <2>1. /\ wire' = Append(wire, e) /\ UNCHANGED <<replies, servo, rotation>>
        /\ blade' = Dispatched(blade, t)
    BY <1>4 DEF Dispatch, plant
  <2>2. blade'.in_flight.token = t /\ blade'.in_flight.direction = d
    <3>1. blade' = [k EXCEPT !.queued_neutral = FALSE,
                             !.in_flight = [token |-> t, direction |-> d, age |-> 0]]
      BY <2>1, <1>4 DEF Dispatched
    <3> HIDE DEF k, d, t
    <3>2. QED
      BY <3>1, <1>1 DEF BladeRecords
  <2>3. d \in Rotations => wire = <<>> /\ servo = "Off" /\ rotation = "Off"
    <3>1. SUFFICES ASSUME d \in Rotations
                   PROVE  wire = <<>> /\ servo = "Off" /\ rotation = "Off"
      OBVIOUS
    <3>2. Settled(k) /\ k.confirmed = "Off" /\ k.stop_samples >= StopSamples
      BY <3>1 DEF NextDirection, MayStart, Settled, Stopped, Rotations
    <3>3. Settled(blade) /\ blade.confirmed = "Off" /\ blade.stop_samples > 0
      BY <1>1, <3>2, BladeTimingAssumption DEF Quiet, BladeRecords
    <3>4. QED
      BY <3>3 DEF PlantInv
  <2> HIDE DEF k, d, t
  <2>4. wire \in Seq(Emitted) /\ Len(wire) \in Nat
    BY DEF TypeOK
  <2>5. /\ Len(wire') = Len(wire) + 1
        /\ \A i \in 1..Len(wire) : wire'[i] = wire[i]
        /\ wire'[Len(wire) + 1] = e
    BY <2>1, <2>4
  <2>6. /\ \A i \in 1..Len(wire) : wire[i].token # t
        /\ \A r \in replies : r.token # t
    BY <1>2 DEF Outstanding
  <2>7. ~Settled(blade)'
    BY <1>2, <2>2, BladeIdAssumption DEF Settled, InFlight
  <2>8. \A i \in 1..Len(wire)' : wire[i]'.token = t =>
          i = Len(wire)' /\ wire[i]'.direction = d
    BY <2>4, <2>5, <2>6
  <2>9. \A i \in 1..Len(wire)' : wire[i]'.direction \in Rotations =>
          i = 1 /\ servo = "Off" /\ rotation = "Off"
    <3>1. \A i \in 1..Len(wire) : wire[i].direction \in Rotations =>
            i = 1 /\ servo = "Off" /\ rotation = "Off"
      BY DEF PlantInv
    <3>2. d \in Rotations => Len(wire) = 0
      BY <2>3
    <3>3. QED
      BY <2>3, <2>4, <2>5, <3>1, <3>2
  <2>10. QED
    BY <2>1, <2>2, <2>6, <2>7, <2>8, <2>9 DEF PlantInv
<1>5. QED
  BY <1>3, <1>4

LEMMA CompletePlant ==
  ASSUME TypeOK, PlantInv, NEW r \in replies, Complete(r)
  PROVE  PlantInv'
<1> DEFINE landed == [blade EXCEPT !.in_flight = NoFlight]
           d == blade.in_flight.direction
<1>1. /\ blade' = Completed(blade, r.token, r.accepted) /\ replies' = replies \ {r}
      /\ UNCHANGED <<wire, servo, rotation>>
      /\ blade \in BladeRecords
  BY DEF Complete, plant, TypeOK
<1>2. /\ \A i \in 1..Len(wire) : wire[i].token # 0
      /\ \A q \in replies : q.token # 0
  BY TokensPositive
<1>3. CASE ~Current(blade, r.token)
  <2>1. blade' = blade
    BY <1>1, <1>3 DEF Completed
  <2>2. QED
    BY <1>1, <2>1 DEF PlantInv, Settled, InFlight
<1>4. CASE Current(blade, r.token) /\ r.accepted
  <2>1. wire = <<>> /\ servo = d
    BY <1>4 DEF PlantInv, Current
  <2>2. blade' = Accepted(blade, d)
    BY <1>1, <1>4 DEF Completed
  <2>3. /\ blade'.in_flight = NoFlight /\ blade'.confirmed = d
        /\ d = "Off" => blade'.stop_samples = 0
    BY <1>1, <2>2 DEF Accepted, BladeRecords
  <2> HIDE DEF d
  <2>4. blade'.in_flight.token = 0
    BY <2>3 DEF NoFlight
  <2>5. Len(wire) = 0
    BY <2>1
  <2>6. QED
    BY <1>1, <1>2, <2>1, <2>3, <2>4, <2>5 DEF PlantInv
<1>5. CASE Current(blade, r.token) /\ ~r.accepted
  <2>1. (d # "Off") \in BOOLEAN
    OBVIOUS
  <2>2. blade' = Fail(landed, d # "Off")
    BY <1>1, <1>5 DEF Completed
  <2>3. landed \in BladeRecords /\ landed.in_flight = NoFlight
    BY <1>1, LandedType DEF BladeRecords
  <2> HIDE DEF landed, d
  <2>4. blade'.fault /\ blade'.in_flight = NoFlight
    BY <2>1, <2>2, <2>3 DEF Fail, BladeRecords, InFlight, NoFlight
  <2>5. ~Settled(blade)' /\ blade'.in_flight.token = 0
    BY <2>4 DEF Settled, NoFlight
  <2>6. QED
    BY <1>1, <1>2, <2>5 DEF PlantInv
<1>6. QED
  BY <1>3, <1>4, <1>5

\* The head of the wire leaves it, applied or lost.
LEMMA WireStep ==
  ASSUME TypeOK, PlantInv, wire # <<>>
  PROVE  /\ ~(Settled(blade) /\ blade.confirmed # "Unknown")
         /\ \A r \in replies : r.token # blade.in_flight.token
         /\ \A i \in 1..Len(Tail(wire)) :
              /\ wire[i + 1].token = blade.in_flight.token =>
                   i = Len(Tail(wire)) /\ Tail(wire)[i].direction = blade.in_flight.direction
              /\ Tail(wire)[i] = wire[i + 1]
              /\ Tail(wire)[i].direction \notin Rotations
         /\ Head(wire).token = blade.in_flight.token =>
              Tail(wire) = <<>> /\ Head(wire).direction = blade.in_flight.direction
<1>1. /\ Len(Tail(wire)) = Len(wire) - 1 /\ Len(wire) \in Nat \ {0}
      /\ \A i \in 1..Len(Tail(wire)) : Tail(wire)[i] = wire[i + 1] /\ i + 1 \in 1..Len(wire)
      /\ Head(wire) = wire[1] /\ 1 \in 1..Len(wire)
      /\ Tail(wire) \in Seq(Emitted)
  BY HeadTailProperties, EmptySeq DEF TypeOK
<1>2. Len(wire) = 1 => Tail(wire) = <<>>
  BY SMTT(30), <1>1, EmptySeq
<1>3. \A i \in 1..Len(wire) : wire[i].token = blade.in_flight.token =>
        i = Len(wire) /\ wire[i].direction = blade.in_flight.direction
  BY DEF PlantInv
<1>4. \A i \in 1..Len(wire) : wire[i].direction \in Rotations => i = 1
  BY DEF PlantInv
<1>5. /\ ~(Settled(blade) /\ blade.confirmed # "Unknown")
      /\ \A r \in replies : r.token # blade.in_flight.token
  BY DEF PlantInv
<1>6. \A i \in 1..Len(Tail(wire)) : i + 1 # 1
  BY <1>1
<1>7. ASSUME NEW i \in 1..Len(Tail(wire))
      PROVE  /\ wire[i + 1].token = blade.in_flight.token =>
                  i = Len(Tail(wire)) /\ Tail(wire)[i].direction = blade.in_flight.direction
             /\ Tail(wire)[i] = wire[i + 1]
             /\ Tail(wire)[i].direction \notin Rotations
  <2>1. Tail(wire)[i] = wire[i + 1] /\ i + 1 \in 1..Len(wire) /\ i + 1 # 1
    BY <1>1, <1>6
  <2>2. wire[i + 1].token = blade.in_flight.token =>
          i + 1 = Len(wire) /\ wire[i + 1].direction = blade.in_flight.direction
    BY <2>1, <1>3
  <2>3. i + 1 = Len(wire) => i = Len(Tail(wire))
    <3> DEFINE m == Len(Tail(wire))
               n == Len(wire)
    <3>1. i \in 1..m /\ n \in Nat /\ m = n - 1
      BY <1>1
    <3> HIDE DEF m, n
    <3>2. i + 1 = n => i = m
      BY <3>1
    <3>3. QED
      BY <3>2 DEF m, n
  <2>4. wire[i + 1].direction \notin Rotations
    BY <2>1, <1>4
  <2>5. QED
    BY <2>1, <2>2, <2>3, <2>4
<1>8. Head(wire).token = blade.in_flight.token =>
        Tail(wire) = <<>> /\ Head(wire).direction = blade.in_flight.direction
  BY <1>1, <1>2, <1>3
<1>9. QED
  BY <1>5, <1>7, <1>8

LEMMA FcuAppliesPlant ==
  ASSUME TypeOK, PlantInv, FcuApplies
  PROVE  PlantInv'
<1>1. /\ wire # <<>> /\ wire' = Tail(wire) /\ servo' = Head(wire).direction
      /\ UNCHANGED <<blade, rotation>>
  BY DEF FcuApplies
<1>2. \A r \in replies' : r \in replies \/ r.token = Head(wire).token
  BY DEF FcuApplies, Answer
<1>3. Settled(blade)' <=> Settled(blade)
  BY <1>1 DEF Settled, InFlight
<1>4. PlantInv!4
  BY DEF PlantInv
<1>5. QED
  BY <1>1, <1>2, <1>3, <1>4, WireStep DEF PlantInv

LEMMA WireLosesPlant ==
  ASSUME TypeOK, PlantInv, WireLoses
  PROVE  PlantInv'
<1>1. wire # <<>> /\ wire' = Tail(wire) /\ UNCHANGED <<blade, servo, rotation>>
  BY DEF WireLoses, plant
<1>2. \A r \in replies' : r \in replies \/ (r.token = Head(wire).token /\ r.accepted = FALSE)
  BY DEF WireLoses, Answer
<1>3. Settled(blade)' <=> Settled(blade)
  BY <1>1 DEF Settled, InFlight
<1>4. PlantInv!4
  BY DEF PlantInv
<1>5. QED
  BY <1>1, <1>2, <1>3, <1>4, WireStep DEF PlantInv

LEMMA SpinPlant ==
  ASSUME TypeOK, PlantInv, Spin
  PROVE  PlantInv'
  BY DEF Spin, transport, PlantInv, Settled, InFlight

LEMMA PlantInvariance == Spec => []PlantInv
<1>1. Init => PlantInv
  BY DEF Init, BladeInitial, PlantInv, Settled, InFlight, NoFlight
<1>2. TypeOK /\ PlantInv /\ [Next]_vars => PlantInv'
  <2> SUFFICES ASSUME TypeOK, PlantInv, [Next]_vars PROVE PlantInv'
    OBVIOUS
  <2>0. blade \in BladeRecords
    BY DEF TypeOK
  <2>1. CASE Callers
    <3>1. ASSUME NEW c \in BOOLEAN, SetConnection(c) PROVE PlantInv'
      BY <2>0, <3>1, ConnectionQuiet, QuietPlant DEF SetConnection, Call
    <3>2. ASSUME NEW a \in BOOLEAN, SetPermission(a) PROVE PlantInv'
      BY <2>0, <3>2, PermissionQuiet, QuietPlant DEF SetPermission, Call
    <3>3. ASSUME NEW d \in Directions, Request(d) PROVE PlantInv'
      BY <2>0, <3>3, RequestedQuiet, QuietPlant DEF Request, Call
    <3>4. CASE ForcedOff
      BY <2>0, <3>4, ForceOffQuiet, QuietPlant DEF ForcedOff, Call
    <3>5. CASE ReplyDeadline
      BY <2>0, <3>5, ServiceTimeoutQuiet, QuietPlant DEF ReplyDeadline, Call
    <3>6. ASSUME NEW p \in Directions, Output(p) PROVE PlantInv'
      BY <2>0, <3>6, OutputSeenQuiet, QuietPlant DEF Output, Call
    <3>7. CASE TickOnly
      BY <2>0, <3>7, TickedQuiet, QuietPlant DEF TickOnly, Call
    <3>8. QED
      BY <2>1, <3>1, <3>2, <3>3, <3>4, <3>5, <3>6, <3>7, ObservePlant DEF Callers
  <2>2. CASE ClockTick
    BY <2>0, <2>2, AgedQuiet, QuietPlant DEF ClockTick
  <2>3. CASE UNCHANGED vars
    BY <2>3 DEF vars, PlantInv, Settled, InFlight
  <2>4. QED
    BY <2>1, <2>2, <2>3, DispatchPlant, CompletePlant, FcuAppliesPlant,
       WireLosesPlant, SpinPlant
    DEF Next, Environment
<1>3. QED
  BY <1>1, <1>2, TypeCorrect, PTL DEF Spec

\* A satisfied controller speaks the truth: nothing is left on the wire and the
\* servo stands at confirmed_, so a reply "success" and mow_enabled are facts.
THEOREM SatisfiedTellsTruth == Spec => []SatisfiedIsTrue
<1>1. TypeOK /\ PlantInv /\ DemandInvariant => SatisfiedIsTrue
  <2> SUFFICES ASSUME TypeOK, PlantInv, Satisfied(blade)
               PROVE  wire = <<>> /\ servo = blade.confirmed
    BY DEF SatisfiedIsTrue
  <2>1. Settled(blade)
    BY DEF Satisfied, Settled
  <2>2. blade.requested # "Unknown"
    BY BladeConstants DEF TypeOK, BladeRecords
  <2>3. QED
    BY <2>1, <2>2 DEF PlantInv, Satisfied
<1>2. QED
  BY <1>1, TypeCorrect, PlantInvariance, DemandInvariance, PTL

\* The controller with its lossy transport implements the interlock of the machine:
\* each step of it starts the servo from neutral at rest, neutralises it, turns the
\* blade, or leaves the machine alone.
THEOREM ImplementsInterlock == Spec => KeepsInterlock
<1>1. Init => Interlock!Init
  BY DEF Init, Interlock!Init, Rotations, Demands
<1>2. TypeOK /\ PlantInv /\ [Next]_vars => [Interlock!Next]_<<servo, rotation>>
  <2> SUFFICES ASSUME TypeOK, PlantInv, [Next]_vars, ~UNCHANGED <<servo, rotation>>
               PROVE  Interlock!Next
    OBVIOUS
  <2>1. CASE FcuApplies
    <3>1. /\ Head(wire) = wire[1] /\ 1 \in 1..Len(wire)
          /\ Head(wire) \in Emitted
          /\ servo' = Head(wire).direction /\ UNCHANGED rotation
      BY <2>1, HeadTailProperties, EmptySeq DEF FcuApplies, TypeOK
    <3>2. CASE Head(wire).direction = "Off"
      BY <3>1, <3>2 DEF Interlock!Next, Interlock!Neutralise
    <3>3. CASE Head(wire).direction \in Rotations
      <4>1. servo = "Off" /\ rotation = "Off"
        BY <3>1, <3>3 DEF PlantInv
      <4>2. QED
        BY <3>1, <3>3, <4>1 DEF Interlock!Next, Interlock!Start, Rotations
    <3>4. Head(wire).direction \in Rotations \/ Head(wire).direction = "Off"
      BY <3>1, DirectionCases DEF Emitted
    <3>5. QED
      BY <3>2, <3>3, <3>4
  <2>2. CASE Spin
    BY <2>2 DEF Spin, Interlock!Next, Interlock!Turn
  <2>3. ~Callers
    BY CallersStep DEF plant
  <2>4. ~Dispatch /\ (\A r \in replies : ~Complete(r)) /\ ~WireLoses /\ ~ClockTick
    BY DEF Dispatch, Complete, WireLoses, ClockTick, plant
  <2>5. QED
    BY <2>1, <2>2, <2>3, <2>4 DEF Next, Environment, vars
<1>3. QED
  BY <1>1, <1>2, TypeCorrect, PlantInvariance, PTL
     DEF KeepsInterlock, Spec, Interlock!Spec
=============================================================================
