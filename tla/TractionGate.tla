---------------------------- MODULE TractionGate ----------------------------
(***************************************************************************)
(* The bridge between the movement MowgliNext asks for and the traction    *)
(* outputs of the FCU: which velocities on_cmd_vel lets through, when both *)
(* outputs are neutralised, and which emergency asks for what.             *)
(*                                                                         *)
(* node is the bridge object, with SafetyState and FcuSession as they are. *)
(* The FCU and its services are an environment that may report or answer   *)
(* anything: their delays and losses are the subject of                    *)
(* FcuSessionActuation.  Of the blade only the isolated test is kept       *)
(* (MowerControl has the rest): a drive of the blade may end it, and does  *)
(* so in an emergency, which takes the permission and every waiting caller.*)
(*                                                                         *)
(* mavros_state_ is what the session observed.  An output is what was      *)
(* published last.                                                         *)
(***************************************************************************)
EXTENDS SafetyState, FcuSession

CONSTANTS
  GuidedVelocity,   \* guided_velocity_implemented() of the provider
  Causes,           \* which safety inputs change: "switch", "service", "tilt", "lift"
  Services,         \* what a drive may find of the two MAVROS services
  Reports,          \* what MAVROS may say of the FCU: <<connected, armed, mode>>
  TiltTicks         \* tilt_emergency_ms_ in ticks of the clock

ASSUME TractionGateAssumption ==
  /\ GuidedVelocity \in BOOLEAN
  /\ "MANUAL" \in Modes
  /\ GuidedVelocity => "GUIDED" \in Modes
  /\ Services \subseteq [mode : BOOLEAN, arm : BOOLEAN, throw : BOOLEAN]
  /\ TiltTicks \in Nat
  /\ 1 \in Serials

VARIABLE node   \* the bridge, with what its last handler did (drove, asked, sent)

Movements == {"Autonomous", "Manual"}    \* RECORDING and MANUAL_MOWING are treated alike
HighLevel == Movements \cup {"Idle"}
Outputs == [manual : BOOLEAN, guided : BOOLEAN]    \* TRUE is a velocity
Neutral == [manual |-> FALSE, guided |-> FALSE]

Nodes ==
  [state : HighLevel, safety : SafetyRecords, session : SessionRecords, test : BOOLEAN,
   was_ready : BOOLEAN, lift_sent : BOOLEAN, tilt_sent : BOOLEAN,
   tilted : BOOLEAN, tilt_age : 0..TiltTicks, output : Outputs,
   drove : BOOLEAN, asked : BOOLEAN, sent : SUBSET Commands]

Init ==
  node = [state |-> "Idle", safety |-> SafetyInitial, session |-> SessionInitial,
          test |-> FALSE, was_ready |-> FALSE, lift_sent |-> FALSE, tilt_sent |-> FALSE,
          tilted |-> FALSE, tilt_age |-> 0, output |-> Neutral,
          drove |-> FALSE, asked |-> FALSE, sent |-> {}]

\* A new handler has done nothing yet.
Fresh == [node EXCEPT !.drove = FALSE, !.asked = FALSE, !.sent = {}]

-----------------------------------------------------------------------------
(* Methods of the bridge. *)

Moving(n) == n.state \in Movements

Guided(n) == n.state = "Autonomous" /\ GuidedVelocity

HoldEmergency(n) == Reason(n.safety) \in {"HARDWARE_SAFETY_SWITCH", "SERVICE_EMERGENCY_STOP"}

RequestedModeHold(n) ==
  IF Emergency(n.safety) \/ ~Moving(n) THEN "HOLD" ELSE IF Guided(n) THEN "GUIDED" ELSE "MANUAL"

\* Tilt and double lift leave the mode alone.
RequestedMode(n) ==
  IF Emergency(n.safety) /\ ~HoldEmergency(n) THEN n.session.mode
  ELSE IF Emergency(n.safety) \/ ~Moving(n) THEN "HOLD"
  ELSE IF Guided(n) THEN "GUIDED" ELSE "MANUAL"

EndFailedBladeTest(n) ==
  IF ~n.test \/ Moving(n) THEN n
  ELSE [n EXCEPT !.test = FALSE, !.output = Neutral,
                 !.session = Demand(@, "HOLD", FALSE, Emergency(n.safety))]

Demanded(n) ==
  [n EXCEPT !.session = Ticked(Demand(@, RequestedMode(n),
                                      ~Emergency(n.safety) /\ (Moving(n) \/ n.test),
                                      Emergency(n.safety)))]

TractionReady(n) ==
  Moving(n) /\ ~Emergency(n.safety) /\ Ready(n.session) /\ n.session.wanted_arm

\* Traction that is no longer ready is neutralised, once.
GatedLate(n) == [n EXCEPT !.was_ready = TractionReady(n)]

GatedManualOnly(n) ==
  [n EXCEPT !.was_ready = TractionReady(n),
            !.output.manual = @ /\ (TractionReady(n) \/ ~n.was_ready)]

Gated(n) ==
  [n EXCEPT !.was_ready = TractionReady(n),
            !.output = IF n.was_ready /\ ~TractionReady(n) THEN Neutral ELSE @]

\* Both outputs are neutral before an ARM; a send that throws is completed as refused.
Sent(n, command, throw) ==
  LET emitted == Emitted(n.session, command, 1)
  IN [n EXCEPT !.sent = @ \cup {command},
               !.output = IF command = "ARM" THEN Neutral ELSE @,
               !.session = IF throw THEN Completed(emitted, 1, FALSE) ELSE emitted]

Alive(n) == IF Failed(n.session) THEN EndFailedBladeTest(n) ELSE n

Commanded(n, svc) ==
  LET command == NextCommand(n.session, svc.mode, svc.arm,
                             ~Emergency(n.safety) /\ n.safety.hardware = "Released")
  IN [(IF command = "none" THEN n ELSE Sent(n, command, svc.throw)) EXCEPT !.drove = TRUE]

DriveSession(n, svc) == Commanded(Alive(Gated(Demanded(n))), svc)

DriveBlade(n, ends) ==
  IF \/ Failed(n.session) \/ ~n.session.connected
     \/ Emergency(n.safety) \/ ends
  THEN EndFailedBladeTest(n) ELSE n

SafetyDisarm(n, hold, svc) ==
  LET off == [n EXCEPT !.asked = TRUE, !.test = FALSE, !.output = Neutral,
                       !.session = Demand(@, IF hold THEN "HOLD" ELSE @.mode, FALSE, TRUE)]
  IN DriveSession(DriveBlade(off, TRUE), svc)

-----------------------------------------------------------------------------
(* Handlers. *)

\* The 50 ms timer, and the answer to a command that is no longer pending.
\* (Stage by stage, because TLC also looks for steps of this fair action, and the singletons
\* make it evaluate each stage once.)
Timer(svc) ==
  \E demanded \in {Demanded(Fresh)} :
  \E gated \in {Gated(demanded)} :
  \E alive \in {Alive(gated)} :
  \E driven \in {Commanded(alive, svc)} :
  \E ends \in BOOLEAN :
    node' = DriveBlade(driven, ends)

SessionAnswer(accepted, svc, ends) ==
  /\ Pending(node.session)
  /\ node' = DriveBlade(DriveSession(
               [Fresh EXCEPT !.session = Completed(@, @.pending.serial, accepted)], svc), ends)

\* Only a velocity that finds the session ready passes.
Forwarded(n) ==
  IF ~TractionReady(n) THEN [n EXCEPT !.output = Neutral]
  ELSE IF Guided(n) THEN [n EXCEPT !.output.guided = TRUE]
  ELSE [n EXCEPT !.output.manual = TRUE]

CommandVelocity(finite, svc) ==
  \E driven \in {DriveSession(Fresh, svc)} : node' = IF finite THEN Forwarded(driven) ELSE driven

HighLevelStatus(state, svc, ends) ==
  LET status == [Fresh EXCEPT !.state = state]
      left == IF Moving(node) /\ ~Moving(status)
              THEN DriveBlade([status EXCEPT !.test = FALSE, !.output = Neutral], ends)
              ELSE status
  IN node' = DriveBlade(DriveSession(left, svc), ends)

MavrosState(connected, armed, mode, svc, ends) ==
  LET state == [Fresh EXCEPT
                  !.safety = IF connected THEN @ ELSE Disconnected(@),
                  !.session = Observe(@, connected, armed, mode)]
  IN node' = DriveBlade(DriveSession(state, svc), ends)

EngagesReleased(before, after) == before.hardware = "Released" /\ after.hardware = "Engaged"

Engages(before, after) == before.hardware # "Engaged" /\ after.hardware = "Engaged"

\* SYS_STATUS tells the hardware switch, and only counts on a live link.
SysStatus(present, enabled, svc) ==
  LET safety == ObserveMotorOutputs(node.safety, present, enabled)
      seen == [Fresh EXCEPT !.safety = safety]
  IN /\ node.session.connected
     /\ node' = IF Engages(node.safety, safety) THEN SafetyDisarm(seen, TRUE, svc) ELSE seen

\* BUTTON_CHANGE tells the wheels.
ButtonChange(left, right, svc) ==
  LET safety == ObserveButtons(node.safety, left, right)
      seen == [Fresh EXCEPT !.safety = safety, !.lift_sent = left /\ right]
  IN /\ node.session.connected
     /\ node' = IF left /\ right /\ ~node.lift_sent THEN SafetyDisarm(seen, FALSE, svc) ELSE seen

\* Inclined for as long as configured.
Imu(tilted, svc) ==
  LET active == tilted /\ node.tilt_age >= TiltTicks
      seen == [Fresh EXCEPT !.tilted = tilted, !.tilt_age = IF tilted THEN @ ELSE 0,
                            !.safety = ObserveTilt(@, active), !.tilt_sent = active]
  IN node' = IF active /\ ~node.tilt_sent THEN SafetyDisarm(seen, FALSE, svc) ELSE seen

EmergencyStop(svc) ==
  node' = SafetyDisarm([Fresh EXCEPT !.safety = SetServiceEmergency(@, TRUE)], TRUE, svc)

EmergencyRelease(svc, ends) ==
  node' = DriveBlade(DriveSession(
            [Fresh EXCEPT !.safety = ClearReleasedLatches(SetServiceEmergency(@, FALSE))],
            svc), ends)

MowerOff(svc, ends) ==
  LET off == [Fresh EXCEPT
                !.test = FALSE,
                !.session = IF Moving(node) THEN @
                            ELSE Demand(@, "HOLD", FALSE, Emergency(node.safety))]
  IN node' = DriveSession(DriveBlade(off, ends), svc)

\* usable: the other reasons to refuse at once.
MowerOn(usable, svc, ends) ==
  LET driven == DriveBlade(DriveSession(Fresh, svc), ends)
      refused == \/ ~usable \/ ~driven.session.connected
                 \/ Emergency(driven.safety) \/ driven.safety.hardware # "Released"
      opened == DriveSession(IF Moving(driven) THEN driven
                             ELSE [driven EXCEPT !.test = TRUE, !.output = Neutral], svc)
  IN node' = IF refused THEN driven
             ELSE IF Failed(opened.session) \/ ~(Moving(opened) \/ opened.test)
             THEN EndFailedBladeTest(opened)
             ELSE IF Ready(opened.session) THEN DriveBlade(opened, ends) ELSE opened

\* Answers, samples and outputs of the blade.
BladeEvent(ends) == node' = DriveBlade(Fresh, ends)

ClockTick ==
  node' = [Fresh EXCEPT
             !.session = Aged(@),
             !.tilt_age = IF node.tilted /\ @ < TiltTicks THEN @ + 1 ELSE @]

Next ==
  \/ ClockTick
  \/ \E e \in BOOLEAN : BladeEvent(e)
  \/ \E svc \in Services :
       \/ Timer(svc)
       \/ \E f \in BOOLEAN : CommandVelocity(f, svc)
       \/ \E e \in BOOLEAN :
            \/ MowerOff(svc, e)
            \/ \E a \in BOOLEAN : SessionAnswer(a, svc, e) \/ MowerOn(a, svc, e)
            \/ \E h \in HighLevel : HighLevelStatus(h, svc, e)
            \/ \E c, a \in BOOLEAN, m \in Modes :
                 <<c, a, m>> \in Reports /\ MavrosState(c, a, m, svc, e)
       \/ "switch" \in Causes /\ \E p, e \in BOOLEAN : SysStatus(p, e, svc)
       \/ "lift" \in Causes /\ \E l, r \in BOOLEAN : ButtonChange(l, r, svc)
       \/ "tilt" \in Causes /\ \E t \in BOOLEAN : Imu(t, svc)
       \/ "service" \in Causes /\ EmergencyStop(svc)
       \/ {"service", "tilt"} \cap Causes # {} /\ \E e \in BOOLEAN : EmergencyRelease(svc, e)

Spec == Init /\ [][Next]_node

Velocity(n) == n.output # Neutral

\* The wall timer runs for ever; only its steps that find a velocity on the outputs matter.
FairSpec ==
  Spec /\ WF_node(Velocity(node) /\ \E svc \in Services : Timer(svc))

-----------------------------------------------------------------------------
(* Properties. *)

TypeOK == node \in Nodes

\* After any handler that drove the session, a velocity stands on the outputs only under a
\* connected FCU seen armed in the mode the movement asks for, with nothing pending and no
\* emergency.
GateHolds ==
  node.drove /\ Velocity(node) =>
    /\ Moving(node) /\ ~Emergency(node.safety)
    /\ node.session.connected /\ node.session.armed /\ ~Pending(node.session)
    /\ node.session.mode = IF Guided(node) THEN "GUIDED" ELSE "MANUAL"

\* A velocity only stands on the output of the current movement: changing from one transport
\* to the other leaves none behind.
OneTransport ==
  /\ node.output.guided => Guided(node)
  /\ node.output.manual => Moving(node) /\ ~Guided(node)

\* docs/architecture/fcu-session-controller.md, input table: tilt and double lift retain the mode of the FCU, whatever HOLD was asked for
\* before; also when a blade test ends, a command fails or a pilot changes the mode.
RetainsMode ==
  Emergency(node.safety) /\ ~HoldEmergency(node) => node.sent \subseteq {"DISARM"}

\* What is left of it: tilt and its latch retain the mode, as long as the wheels are not lifted
\* as well.
TiltRetainsMode ==
  Emergency(node.safety) /\ ~HoldEmergency(node) /\ ~BothLifted(node.safety)
    => node.sent \subseteq {"DISARM"}

\* A cause that is there is latched as well, so that its end alone does not end the emergency.
\* Wheels are not latched.
LatchCovers ==
  Active(node.safety) /\ ~BothLifted(node.safety) => Latched(node.safety)

\* Without movement or link, or in an emergency, the outputs get neutral.  A lift of both wheels
\* whose onset was not announced, see RetainsMode, may pass between two steps of the timer.
TractionStops ==
  \/ ~Moving(node) \/ ~node.session.connected
  \/ Emergency(node.safety) /\ ~BothLifted(node.safety)
  ~> ~Velocity(node)

\* The step that makes an emergency also asks for the neutral and the DISARM: the flags that
\* keep it from asking twice never swallow the first time.  (For the wheels they do, after a
\* reconnection: see RetainsMode.)
OnsetAnnounced ==
  [][~Emergency(node.safety) /\ Emergency(node'.safety) /\ ~BothLifted(node'.safety)
       => node'.asked]_node
=============================================================================
