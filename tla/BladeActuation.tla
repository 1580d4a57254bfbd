--------------------------- MODULE BladeActuation ---------------------------
(***************************************************************************)
(* The blade controller driving a real actuator: BladeControl calls its    *)
(* methods in any order its callers may produce, and its commands reach    *)
(* the servo of the flight controller through MAVROS.                      *)
(*                                                                         *)
(* The transport keeps the order of the commands it delivers but may lose  *)
(* one, may lose an answer, and may answer "failed" for a command that was *)
(* applied (a lost MAVLink COMMAND_ACK).  An answer may arrive long after  *)
(* the controller stopped waiting for it.  The blade follows the servo     *)
(* with an arbitrary delay, and the ESC reports zero RPM exactly when it   *)
(* does not turn.  The process may start while the blade is turning.       *)
(***************************************************************************)
EXTENDS BladeControl, Sequences, FiniteSets

CONSTANT MaxOutstanding   \* bound: commands on the wire plus late answers

ASSUME MaxOutstandingAssumption == MaxOutstanding \in Nat \ {0}

VARIABLES
  blade,      \* the BladeControl object
  issued,     \* history: direction of the last command handed to MAVROS
  wire,       \* commands MAVROS emitted that the FCU has not processed
  replies,    \* CommandLong answers not delivered yet
  servo,      \* the direction the FCU's servo output stands at
  rotation    \* how the blade turns

vars == <<blade, issued, wire, replies, servo, rotation>>
transport == <<issued, wire, replies>>
plant == <<servo, rotation>>

Emitted == [token : Tokens, direction : Demands]

Outstanding == {wire[i].token : i \in 1..Len(wire)} \cup {r.token : r \in replies}

FreeTokens == Tokens \ (Outstanding \cup {blade.in_flight.token})

Init ==
  /\ blade = BladeInitial
  /\ issued = "Unknown"
  /\ wire = <<>>
  /\ replies = {}
  /\ servo \in Demands
  /\ rotation = servo

-----------------------------------------------------------------------------
(* Calls of the bridge's handlers. *)

Call(after) == blade' = after /\ UNCHANGED <<transport, plant>>

SetConnection(c) == c # blade.connected /\ Call(Connection(blade, c))

SetPermission(a) == a # blade.allowed /\ Call(Permission(blade, a))

Request(d) == Call(Requested(blade, d))

\* on_high_level_status, request_safety_disarm, a foreign command on the wire,
\* a changed ESC slot.
ForcedOff == Call(ForceOff(blade))

ReplyDeadline == ~Satisfied(blade) /\ Call(ServiceTimeout(blade))

Observe(s) == (s.zero <=> rotation = "Off") /\ Call(Sampled(blade, s))

Output(pwm) == Call(OutputSeen(blade, pwm))

TickOnly == Call(Ticked(blade))

\* drive_blade_locked with the CommandLong service ready.
Dispatch ==
  LET d == NextDirection(Ticked(blade))
      token == CHOOSE t \in FreeTokens : TRUE IN
  /\ FreeTokens # {}
  /\ Cardinality(Outstanding) < MaxOutstanding
  /\ blade' = Dispatched(blade, token)
  /\ IF d = "Unknown" THEN UNCHANGED transport
     ELSE /\ issued' = d
          /\ wire' = Append(wire, [token |-> token, direction |-> d])
          /\ UNCHANGED replies
  /\ UNCHANGED plant

Complete(r) ==
  /\ replies' = replies \ {r}
  /\ blade' = Completed(blade, r.token, r.accepted)
  /\ UNCHANGED <<issued, wire, plant>>

-----------------------------------------------------------------------------
(* The environment. *)

Answer(token, answers) ==
  \/ UNCHANGED replies
  \/ \E accepted \in answers :
       replies' = replies \cup {[token |-> token, accepted |-> accepted]}

FcuApplies ==
  /\ wire # <<>>
  /\ servo' = Head(wire).direction
  /\ wire' = Tail(wire)
  /\ Answer(Head(wire).token, BOOLEAN)
  /\ UNCHANGED <<blade, issued, rotation>>

WireLoses ==
  /\ wire # <<>>
  /\ wire' = Tail(wire)
  /\ Answer(Head(wire).token, {FALSE})
  /\ UNCHANGED <<blade, issued, plant>>

\* The blade spins up from rest and down to rest; it does not jump.
Spin ==
  /\ rotation # servo
  /\ rotation' = IF rotation = "Off" THEN servo ELSE "Off"
  /\ UNCHANGED <<blade, transport, servo>>

ClockTick ==
  /\ blade' = Aged(blade)
  /\ UNCHANGED <<transport, plant>>

Callers ==
  \/ \E c \in BOOLEAN : SetConnection(c)
  \/ \E a \in BOOLEAN : SetPermission(a)
  \/ \E d \in Directions : Request(d)
  \/ ForcedOff
  \/ ReplyDeadline
  \/ \E s \in Observations : Observe(s)
  \/ \E pwm \in Directions : Output(pwm)
  \/ TickOnly

Environment == FcuApplies \/ WireLoses \/ Spin \/ ClockTick

Next == Callers \/ Dispatch \/ (\E r \in replies : Complete(r)) \/ Environment

Spec == Init /\ [][Next]_vars

(***************************************************************************)
(* Fairness: the 50 ms timer of the bridge runs drive_blade_locked again   *)
(* and again and time passes; MAVROS disposes of every command it was      *)
(* given and rclcpp of every answer.  Nothing is assumed of the callers.   *)
(***************************************************************************)
FairSpec ==
  /\ Spec
  /\ WF_vars(Dispatch)
  /\ WF_vars(ClockTick)
  /\ WF_vars(FcuApplies \/ WireLoses)
  /\ WF_vars(\E r \in replies : Complete(r))

-----------------------------------------------------------------------------
(* Properties. *)

TypeOK ==
  /\ blade \in BladeRecords
  /\ issued \in Directions
  /\ wire \in Seq(Emitted)
  /\ replies \subseteq [token : Tokens, accepted : BOOLEAN]
  /\ servo \in Demands
  /\ rotation \in Demands

\* An ON that was handed to the transport, and may be on its way, is still the
\* current demand of a connected, permitted, healthy controller, or a neutral is
\* queued behind it.  The code relies on every path that withdraws the demand
\* (force_off, fail, a reversal) to queue the neutral.
IssuedWanted ==
  issued \in Rotations =>
    \/ blade.queued_neutral
    \/ /\ blade.requested = issued
       /\ blade.connected /\ blade.allowed /\ ~blade.fault

\* The inductive form of IssuedWanted: what is in flight is what was issued last,
\* an ON leaves only a settled neutral, and an answered ON is not waiting for a stop.
DemandInv(b, i) ==
  /\ InFlight(b) => b.in_flight.direction = i /\ i # "Unknown"
  /\ FlyingOn(b) => b.confirmed = "Off" /\ ~b.queued_neutral
  /\ i \in Rotations /\ ~b.queued_neutral =>
       b.requested = i /\ b.connected /\ b.allowed /\ ~b.fault
  /\ i \in Rotations /\ ~b.queued_neutral /\ ~InFlight(b) =>
       b.confirmed = i /\ b.state # "WAIT_STOP_BEFORE_REVERSE"

DemandInvariant == DemandInv(blade, issued)

\* When satisfied() lets the bridge report success to a caller, or enabled() makes
\* it publish mow_enabled, the servo really stands where confirmed_ says: late
\* answers of fenced commands never speak for a newer one.
SatisfiedIsTrue ==
  Satisfied(blade) => wire = <<>> /\ servo = blade.confirmed

\* "Inversions first send neutral and require fresh, distinct zero-RPM
\* observations": on the machine, the servo leaves neutral only while the blade is
\* at rest, whatever was lost, refused late or fenced before.
Interlock == INSTANCE BladeInterlock
KeepsInterlock == Interlock!Spec

\* Their inductive form.  The command in flight is the last on the wire and its
\* answer comes after it was processed; a settled controller knows the servo, and its
\* zero samples are of a blade at rest; an ON travels alone, ahead of any neutral.
Settled(b) == ~InFlight(b) /\ ~b.queued_neutral /\ ~b.fault

PlantInv ==
  /\ \A i \in 1..Len(wire) : wire[i].token = blade.in_flight.token =>
       i = Len(wire) /\ wire[i].direction = blade.in_flight.direction
  /\ \A r \in replies : r.token = blade.in_flight.token =>
       wire = <<>> /\ (r.accepted => servo = blade.in_flight.direction)
  /\ Settled(blade) /\ blade.confirmed # "Unknown" =>
       wire = <<>> /\ servo = blade.confirmed
  /\ Settled(blade) /\ blade.confirmed = "Off" /\ blade.stop_samples > 0 =>
       rotation = "Off"
  /\ \A i \in 1..Len(wire) : wire[i].direction \in Rotations =>
       i = 1 /\ servo = "Off" /\ rotation = "Off"

\* A neutral the controller owes (an unwanted ON, a withdrawn demand, a start of
\* the process) is handed to the transport, whatever its callers do meanwhile.
NeutralGetsOut == blade.queued_neutral ~> issued = "Off"

\* Once nobody calls any more (ESC samples may stop, keep coming or repeat), the
\* controller reaches its demand or reports the failure; no transition hangs.
Interference ==
  \/ \E c \in BOOLEAN : SetConnection(c)
  \/ \E a \in BOOLEAN : SetPermission(a)
  \/ \E d \in Directions : Request(d)
  \/ ForcedOff
  \/ ReplyDeadline
  \/ \E pwm \in Directions : Output(pwm)

TransitionEnds ==
  <>[][~Interference]_vars =>
    <>[](Satisfied(blade) \/ (blade.fault /\ ~blade.queued_neutral))
=============================================================================
