---------------------------- MODULE BladeControl ----------------------------
(***************************************************************************)
(* The blade actuator state machine (class BladeControl of                 *)
(* mowgli_mavros_bridge/blade_control.hpp) as one record and one operator  *)
(* per method: an operator takes the record before the call and returns    *)
(* the record after it, so that a handler that makes several calls is one  *)
(* atomic expression.                                                      *)
(*                                                                         *)
(* Time.  The code stores absolute monotonic milliseconds and only ever    *)
(* compares "now - stamp" with a configured limit.  The record stores that *)
(* difference, an age that Aged advances and that stops at the limit it is *)
(* compared with.  "now >= neutral_since_" is true of every sample because *)
(* the clock is monotonic, so neutral_since_ is not kept.                  *)
(*                                                                         *)
(* Tokens.  ++token_ makes an identifier nobody else holds.  The caller of *)
(* Dispatched supplies such an identifier; a token only ever serves to be  *)
(* compared for equality.                                                  *)
(*                                                                         *)
(* An operator that stands just before another and carries its name with a *)
(* suffix (CurrentAny, PermissionFlagOnly, ...) is a mistake one could     *)
(* make there; nothing uses it but the experiments README.md describes.    *)
(***************************************************************************)
EXTENDS Integers

CONSTANTS
  AckTimeout,    \* Config::ack_timeout_ms, in ticks of the model's clock
  StopTimeout,   \* Config::stop_timeout_ms
  Freshness,     \* Config::freshness_ms
  Coast,         \* Config::coast_ms
  StopSamples,   \* the 5 of stopped()
  Tokens,        \* identifiers of emitted commands
  RevisionMod    \* revision_ is a uint64_t: 2^64 in the code

ASSUME BladeTimingAssumption ==
  /\ AckTimeout \in Nat \ {0}
  /\ Freshness \in Nat \ {0}
  /\ Coast \in Nat \ {0}
  /\ StopTimeout \in Nat /\ StopTimeout > Coast
  /\ StopSamples \in Nat \ {0}

ASSUME BladeIdAssumption ==
  /\ Tokens \subseteq Nat \ {0}
  /\ RevisionMod \in Nat \ {0}

Rotations  == {"Forward", "Reverse"}
Demands    == Rotations \cup {"Off"}
Directions == Demands \cup {"Unknown"}
BladeStates == {"OFF", "FWD", "REV", "TRANSITION_TO_OFF",
                "WAIT_STOP_BEFORE_REVERSE", "FAILED"}

\* std::optional<Command> in_flight_ (with sent_at_ as an age): token 0 is nullopt.
Flights  == [token : Tokens \cup {0}, direction : Directions, age : 0..AckTimeout]
NoFlight == [token |-> 0, direction |-> "Unknown", age |-> 0]

BladeRecords ==
  [state : BladeStates, requested : Demands, confirmed : Directions,
   connected : BOOLEAN, allowed : BOOLEAN, fault : BOOLEAN,
   queued_neutral : BOOLEAN, in_flight : Flights,
   revision : 0..(RevisionMod - 1),
   wait_since : 0..StopTimeout,
   stop_since : -1..Coast, stop_samples : 0..StopSamples,
   sample_source : {-1, 1, 2}, sample_receipt : -1..(Freshness + 1),
   sample_zero : BOOLEAN]

BladeInitial ==
  [state |-> "TRANSITION_TO_OFF", requested |-> "Off", confirmed |-> "Unknown",
   connected |-> FALSE, allowed |-> FALSE, fault |-> FALSE,
   queued_neutral |-> TRUE, in_flight |-> NoFlight, revision |-> 0,
   wait_since |-> StopTimeout, stop_since |-> -1, stop_samples |-> 0,
   sample_source |-> -1, sample_receipt |-> -1, sample_zero |-> FALSE]

(***************************************************************************)
(* Observers.                                                              *)
(***************************************************************************)
InFlight(b) == b.in_flight.token # 0

CurrentAny(b, token) == InFlight(b)

Current(b, token) == InFlight(b) /\ b.in_flight.token = token

FlyingOn(b) == InFlight(b) /\ b.in_flight.direction # "Off"

Satisfied(b) ==
  /\ ~b.fault
  /\ ~InFlight(b)
  /\ ~b.queued_neutral
  /\ b.confirmed = b.requested

Enabled(b) == b.allowed /\ Satisfied(b) /\ b.confirmed # "Off"

FreshSample(b) == b.sample_receipt \in 0..Freshness

StoppedAtOneZero(b) == b.sample_zero /\ FreshSample(b)

Stopped(b) ==
  /\ b.sample_zero
  /\ FreshSample(b)
  /\ b.stop_since >= Coast
  /\ b.stop_samples >= StopSamples

(***************************************************************************)
(* Methods.                                                                *)
(***************************************************************************)
NextRevision(b) == (b.revision + 1) % RevisionMod

Revised(b) == [b EXCEPT !.revision = NextRevision(b)]

ForceOff(b) ==
  [b EXCEPT !.revision = NextRevision(b), !.requested = "Off",
            !.confirmed = "Unknown", !.in_flight = NoFlight,
            !.queued_neutral = TRUE, !.fault = FALSE,
            !.stop_since = -1, !.stop_samples = 0,
            !.state = "TRANSITION_TO_OFF"]

ServiceTimeout(b) ==
  [ForceOff(b) EXCEPT !.fault = TRUE, !.state = "FAILED"]

\* A neutral already handed to the transport is neither dropped nor repeated.
Fail(b, send_neutral) ==
  LET neutral_pending == InFlight(b) /\ b.in_flight.direction = "Off" IN
  [b EXCEPT !.in_flight = IF neutral_pending THEN b.in_flight ELSE NoFlight,
            !.revision = NextRevision(b), !.fault = TRUE,
            !.requested = "Off", !.state = "FAILED",
            !.queued_neutral = @ \/ (send_neutral /\ ~neutral_pending)]

\* sample_stamp_ = 0: whether a later stamp is new is an input of Sampled.
Connection(b, connected) ==
  IF connected = b.connected THEN b
  ELSE ForceOff([b EXCEPT !.connected = connected,
                          !.sample_source = -1, !.sample_receipt = -1])

PermissionFlagOnly(b, allowed) == [b EXCEPT !.allowed = allowed]

Permission(b, allowed) ==
  [(IF b.allowed /\ ~allowed THEN ForceOff(b) ELSE b) EXCEPT !.allowed = allowed]

RequestRejected(b, d) ==
  \/ ~b.connected
  \/ d = "Unknown"
  \/ d # "Off" /\ (~b.allowed \/ ~FreshSample(b))
  \/ b.fault

RequestResult(b, d) ==
  IF RequestRejected(b, d) THEN "Rejected"
  ELSE IF d = b.requested /\ Satisfied(b) THEN "Confirmed" ELSE "Pending"

\* A new direction while anything but a settled neutral is known: neutral first.
ReverseThroughOff(b, d) ==
  [(IF FlyingOn(b) THEN ForceOff(b) ELSE b) EXCEPT
     !.requested = d, !.queued_neutral = TRUE,
     !.state = "TRANSITION_TO_OFF"]

Taken(b, d) ==
  IF d = "Off" THEN ForceOff(b)
  ELSE IF b.confirmed # "Off" \/ InFlight(b) \/ b.queued_neutral
       THEN ReverseThroughOff(b, d)
  ELSE [b EXCEPT !.requested = d, !.state = "WAIT_STOP_BEFORE_REVERSE", !.wait_since = 0]

Requested(b, d) ==
  IF RequestRejected(b, d) \/ d = b.requested THEN b ELSE Taken(Revised(b), d)

\* An ESC observation: usable and newer than the last stamp or not, its source,
\* whether its counter moved (only source 2 counts), and zero RPM or not.
Observations ==
  [usable : BOOLEAN, newer : BOOLEAN, source : {1, 2},
   counted : BOOLEAN, zero : BOOLEAN]

\* stop_samples_ stops at the number stopped() compares it with.
OneMoreUnbounded(n) == n + 1

OneMore(n) == IF n < StopSamples THEN n + 1 ELSE StopSamples

SampleRejected(b, s) ==
  \/ ~s.usable
  \/ ~s.newer
  \/ s.source = 2 /\ b.sample_source = 2 /\ ~s.counted

Sampled(b, s) ==
  IF SampleRejected(b, s) THEN b
  ELSE
    LET restart == b.sample_source # s.source \/ b.sample_receipt > Freshness
        proves  == s.zero /\ b.confirmed = "Off"
    IN [b EXCEPT
          !.sample_source = s.source, !.sample_receipt = 0, !.sample_zero = s.zero,
          !.stop_since = IF ~proves THEN -1
                         ELSE IF restart \/ b.stop_since < 0 THEN 0 ELSE b.stop_since,
          !.stop_samples = IF ~proves THEN 0
                           ELSE IF restart THEN 1
                           ELSE OneMore(b.stop_samples)]

AckTickNever(b) == b

AckTick(b) ==
  IF InFlight(b) /\ b.in_flight.age >= AckTimeout
  THEN Fail([b EXCEPT !.in_flight = NoFlight], b.in_flight.direction # "Off")
  ELSE b

StaleTick(b) ==
  IF b.requested # "Off" /\ ~FreshSample(b) THEN Fail(b, TRUE) ELSE b

StopTick(b) ==
  IF /\ b.state = "WAIT_STOP_BEFORE_REVERSE"
     /\ ~InFlight(b)
     /\ b.wait_since >= StopTimeout
  THEN Fail(b, FALSE) ELSE b

Ticked(b) == StopTick(StaleTick(AckTick(b)))

MayStart(b) ==
  /\ ~b.fault /\ b.connected /\ b.allowed
  /\ b.requested # "Off" /\ b.confirmed = "Off" /\ Stopped(b)

\* What next() hands to the transport after its tick; "Unknown" is nullopt.
NextDirectionHealthyOnly(b) ==
  IF InFlight(b) \/ b.fault THEN "Unknown"
  ELSE IF b.queued_neutral THEN "Off"
  ELSE IF MayStart(b) THEN b.requested
  ELSE "Unknown"

NextDirection(b) ==
  IF InFlight(b) THEN "Unknown"
  ELSE IF b.queued_neutral THEN "Off"
  ELSE IF MayStart(b) THEN b.requested
  ELSE "Unknown"

Dispatched(b, token) ==
  LET d == NextDirection(Ticked(b)) IN
  IF d = "Unknown" THEN Ticked(b)
  ELSE [Ticked(b) EXCEPT
          !.queued_neutral = FALSE,
          !.in_flight = [token |-> token, direction |-> d, age |-> 0]]

Accepted(b, d) ==
  IF d = "Off"
  THEN [b EXCEPT !.in_flight = NoFlight, !.confirmed = "Off",
                 !.stop_since = -1, !.stop_samples = 0, !.wait_since = 0,
                 !.state = IF b.fault THEN "FAILED"
                           ELSE IF b.requested = "Off" THEN "OFF"
                           ELSE "WAIT_STOP_BEFORE_REVERSE"]
  ELSE [b EXCEPT !.in_flight = NoFlight, !.confirmed = d,
                 !.state = IF b.requested # d \/ b.queued_neutral THEN @
                           ELSE IF d = "Forward" THEN "FWD" ELSE "REV"]

Completed(b, token, accepted) ==
  IF ~Current(b, token) THEN b
  ELSE IF accepted THEN Accepted(b, b.in_flight.direction)
  ELSE Fail([b EXCEPT !.in_flight = NoFlight], b.in_flight.direction # "Off")

\* The observed channel, as the direction its PWM stands for ("Unknown": none).
OutputSeen(b, pwm) ==
  IF InFlight(b) \/ b.queued_neutral \/ b.confirmed = "Unknown" \/ pwm = b.confirmed
  THEN b ELSE ForceOff(b)

\* One tick of the clock.
Older(age, limit) == IF age < limit THEN age + 1 ELSE age

Aged(b) ==
  [b EXCEPT
     !.in_flight = IF InFlight(b)
                   THEN [b.in_flight EXCEPT !.age = Older(b.in_flight.age, AckTimeout)]
                   ELSE b.in_flight,
     !.wait_since = Older(@, StopTimeout),
     !.stop_since = IF @ < 0 THEN @ ELSE Older(@, Coast),
     !.sample_receipt = IF @ < 0 THEN @ ELSE Older(@, Freshness + 1)]
=============================================================================
