---------------------------- MODULE SensorChain -----------------------------
(***************************************************************************)
(* From the sensors to the readiness the bridge reports: the GNSS adapter  *)
(* and the battery observer, two plugins of MAVROS that keep a state of    *)
(* their own and publish from it, and ReadinessState in the bridge, which  *)
(* keeps the age of what they publish.  Neither plugin hears of the link   *)
(* to the FCU; the bridge forgets everything when it changes.              *)
(*                                                                         *)
(* A message reaches the bridge in the tick it was sent, or is lost.  The  *)
(* source of the positions may say anything in any order, restarts and     *)
(* late or repeated sequences included.  The three clocks advance alike.   *)
(***************************************************************************)
EXTENDS GnssAdapter, PowerState, ReadinessState

CONSTANTS
  OtherStreams,      \* which of "imu" and "wheel" are received
  DockVoltages    \* which voltages the dock battery shows

ASSUME ChainAssumption ==
  OtherStreams \subseteq {"imu", "wheel"} /\ DockVoltages \subseteq Voltages

VARIABLES
  adapter, power, readiness,
  position_age,   \* history: since the adapter accepted a new position
  traction_age    \* history: since the observer got a sample of the traction battery

vars == <<adapter, power, readiness, position_age, traction_age>>

PositionBound == AdapterTimeout + ReadinessTimeout
TractionBound == ObserverTimeout + ReadinessTimeout

Init ==
  /\ adapter = AdapterInitial
  /\ power = PowerInitial
  /\ readiness = Unheard(FALSE)
  /\ position_age = PositionBound + 1
  /\ traction_age = TractionBound + 1

-----------------------------------------------------------------------------
(* Handlers. *)

\* on_gnss_status of what the adapter publishes, if it arrives.
Report(after, arrives) ==
  /\ adapter' = after
  /\ readiness' = IF arrives
                  THEN Gnss(readiness, StatusMessage(after).sequence, StatusMessage(after).valid)
                  ELSE readiness

\* A status of Universal GNSS.
GnssStatus(status, arrives) ==
  /\ Report(ObserveStatus(adapter, status), arrives)
  /\ position_age' = IF ObserveStatus(adapter, status).age = 0
                        /\ Identified(adapter, status.incarnation).sequence < status.sequence
                     THEN 0 ELSE position_age
  /\ UNCHANGED <<power, traction_age>>

\* The 20 ms timer of the adapter.
AdapterTimer(arrives) ==
  /\ Expires(adapter)
  /\ Report(Invalidate(adapter), arrives)
  /\ UNCHANGED <<power, position_age, traction_age>>

\* BATTERY_STATUS, which MAVROS hands over only of a connected FCU, then on_power.
BatteryStatus(battery, voltage, arrives) ==
  /\ readiness.connected
  /\ power' = Observed(power, battery, voltage)
  /\ readiness' = IF arrives THEN Traction(readiness, PowerMessage(power').v_battery)
                  ELSE readiness
  /\ traction_age' = IF battery = "traction" THEN 0 ELSE traction_age
  /\ UNCHANGED <<adapter, position_age>>

\* on_mavros_imu, on_wheel_odom
StreamReceived(stream) ==
  /\ readiness' = Received(readiness, stream)
  /\ UNCHANGED <<adapter, power, position_age, traction_age>>

\* on_mavros_state
LinkChanges ==
  /\ readiness' = Connection(readiness, ~readiness.connected)
  /\ UNCHANGED <<adapter, power, position_age, traction_age>>

Tick ==
  /\ ~Expires(adapter)
  /\ adapter' = AdapterAged(adapter)
  /\ power' = PowerAged(power)
  /\ readiness' = ReadinessAged(readiness)
  /\ position_age' = IF position_age <= PositionBound THEN position_age + 1 ELSE position_age
  /\ traction_age' = IF traction_age <= TractionBound THEN traction_age + 1 ELSE traction_age

Next ==
  \/ \E status \in Statuses, arrives \in BOOLEAN : GnssStatus(status, arrives)
  \/ \E arrives \in BOOLEAN : AdapterTimer(arrives)
  \/ \E voltage \in {"none", "high"}, arrives \in BOOLEAN :
       BatteryStatus("traction", voltage, arrives)
  \/ \E voltage \in DockVoltages, arrives \in BOOLEAN : BatteryStatus("dock", voltage, arrives)
  \/ \E stream \in OtherStreams : StreamReceived(stream)
  \/ LinkChanges
  \/ Tick

Spec == Init /\ [][Next]_vars

FairSpec == Spec /\ WF_vars(Tick) /\ WF_vars(\E arrives \in BOOLEAN : AdapterTimer(arrives))

-----------------------------------------------------------------------------
(* Properties. *)

TypeOK ==
  /\ adapter \in Adapters
  /\ power \in Powers
  /\ readiness \in Readiness
  /\ position_age \in 0..PositionBound + 1
  /\ traction_age \in 0..TractionBound + 1

\* Ready with GNSS means a position that the source gave within the two timeouts, however its
\* statuses were repeated, lost or restarted: what only refreshes a status keeps nothing alive.
ReadyPositionRecent ==
  Ready(readiness) /\ gnss_required => position_age <= PositionBound

\* Ready means a sample of the traction battery within the two timeouts, although every sample
\* of the dock battery publishes the voltage of the traction battery anew.
ReadyTractionRecent == Ready(readiness) => traction_age <= TractionBound

StatusArrives == \E status \in Statuses : GnssStatus(status, TRUE)

\* The restart of a source whose sequence begins again does not lock it out: with a link, an
\* adapter whose position stays valid and statuses that arrive, GNSS is accepted as valid again
\* and again.
GnssRecovers ==
  <>[]readiness.connected /\ <>[]adapter.fix_valid /\ []<><<StatusArrives>>_vars
    => []<>(StreamFresh(readiness, "gnss") /\ readiness.gnss_valid)
=============================================================================
