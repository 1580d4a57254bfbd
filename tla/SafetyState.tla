----------------------------- MODULE SafetyState -----------------------------
(***************************************************************************)
(* The safety inputs of the bridge (class SafetyState of                   *)
(* mowgli_mavros_bridge/safety_state.hpp): hardware switch, emergency      *)
(* service, tilt and wheel lift, with their latches, and what they project *)
(* to.  One record, one operator per method.                               *)
(*                                                                         *)
(* The receipt times and the duration of a lift are only published and are *)
(* left out; a button state is the pair of its two wheel bits.             *)
(***************************************************************************)

HardwareStates == {"Unknown", "Released", "Engaged"}

SafetyRecords ==
  [hardware : HardwareStates, hardware_latched : BOOLEAN,
   service : BOOLEAN, service_latched : BOOLEAN,
   tilt : BOOLEAN, tilt_latched : BOOLEAN,
   lift_valid : BOOLEAN, left : BOOLEAN, right : BOOLEAN]

SafetyInitial ==
  [hardware |-> "Unknown", hardware_latched |-> FALSE,
   service |-> FALSE, service_latched |-> FALSE,
   tilt |-> FALSE, tilt_latched |-> FALSE,
   lift_valid |-> FALSE, left |-> FALSE, right |-> FALSE]

-----------------------------------------------------------------------------
(* Inputs. *)

ObserveMotorOutputs(s, present, enabled) ==
  [s EXCEPT !.hardware = IF ~present THEN "Unknown"
                         ELSE IF enabled THEN "Released" ELSE "Engaged",
            !.hardware_latched = present /\ ~enabled]

ObserveButtons(s, left, right) ==
  [s EXCEPT !.lift_valid = TRUE, !.left = left, !.right = right]

SetServiceEmergency(s, active) ==
  [s EXCEPT !.service = active, !.service_latched = active]

ObserveTilt(s, active) == [s EXCEPT !.tilt = active, !.tilt_latched = @ \/ active]

\* The operator's release; a tilt that is still there stays latched.
ClearReleasedLatchesAll(s) == [s EXCEPT !.service_latched = FALSE, !.tilt_latched = FALSE]

ClearReleasedLatches(s) ==
  [s EXCEPT !.service_latched = FALSE, !.tilt_latched = @ /\ s.tilt]

\* What came over the link is unknown without it.
Disconnected(s) ==
  [s EXCEPT !.hardware = "Unknown", !.hardware_latched = FALSE, !.lift_valid = FALSE]

-----------------------------------------------------------------------------
(* project() *)

BothLifted(s) == s.lift_valid /\ s.left /\ s.right

Lifted(s) == s.lift_valid /\ (s.left \/ s.right)

\* The first that applies.
Reason(s) ==
  CASE s.hardware = "Engaged" -> "HARDWARE_SAFETY_SWITCH"
    [] s.hardware # "Engaged" /\ s.service -> "SERVICE_EMERGENCY_STOP"
    [] s.hardware # "Engaged" /\ ~s.service /\ s.tilt -> "TILT"
    [] s.hardware # "Engaged" /\ ~s.service /\ ~s.tilt /\ Lifted(s) -> "WHEEL_LIFT"
    [] OTHER -> ""

Active(s) == s.hardware = "Engaged" \/ s.service \/ s.tilt \/ BothLifted(s)

Latched(s) ==
  s.hardware = "Engaged" \/ s.hardware_latched \/ s.service_latched \/ s.tilt_latched

Emergency(s) == Active(s) \/ Latched(s)
=============================================================================
