------------------------ MODULE FcuSessionActuation ------------------------
(***************************************************************************)
(* The MODE/ARM sequencer as the bridge drives it, against a flight        *)
(* controller.  Every handler of mavros_hardware_bridge_node.cpp that      *)
(* touches the sequencer ends in drive_session_locked, so it is one step:  *)
(* its own call, the demand the bridge derives from what MowgliNext and    *)
(* the safety inputs want, and at most one command.                        *)
(*                                                                         *)
(* The commands reach the FCU through two MAVROS services that may lose,   *)
(* delay or reorder them.  An arming answer comes after the FCU processed  *)
(* the command and may be a false failure; a mode answer only says that    *)
(* the mode was sent; either may never come.  The FCU's state is observed  *)
(* late, a pilot or a failsafe may change it, and the link may drop.       *)
(***************************************************************************)
EXTENDS FcuSession, FiniteSets

CONSTANTS
  Services,   \* what a drive may find: which service is up, switch released or not
  MaxOnWire   \* bound: commands MAVROS holds when another may be emitted

Everything == [mode |-> TRUE, arm |-> TRUE, released |-> TRUE]

ASSUME SessionPlantAssumption ==
  /\ {"Idle", "BladeTest", "HoldStop", "TiltStop"} \cap Modes = {}
  /\ Services \subseteq [mode : BOOLEAN, arm : BOOLEAN, released : BOOLEAN]
  /\ Everything \in Services
  /\ MaxOnWire \in Nat \ {0}

VARIABLES
  session,   \* the FcuSessionController object
  intent,    \* what the bridge's inputs call for
  spent,     \* history: how often each command was emitted since a change
  asked,     \* history: the last mode command and the last arm command
  calls,     \* commands given to MAVROS that the FCU has not processed
  answer,    \* response to the pending command, not delivered yet
  fcu,       \* the FCU's own state
  heartbeat  \* the last state it reported

vars == <<session, intent, spent, asked, calls, answer, fcu, heartbeat>>
bridge == <<session, intent, spent, asked>>
vehicle == <<fcu, heartbeat>>

FcuModes == Modes \ {""}
FcuStates == [armed : BOOLEAN, mode : FcuModes]
Calls == [serial : Serials, command : FcuModes \cup ArmCommands]

\* Movement sessions by the mode they ask for; a blade test arms in HOLD; the two
\* kinds of emergency differ in the mode.
Emergencies == {"HoldStop", "TiltStop"}
Intents == {"Idle", "BladeTest"} \cup Emergencies \cup (FcuModes \ {"HOLD"})

Arming(i) == i \notin Emergencies \cup {"Idle"}
Testing(i) == i = "BladeTest"

DemandWith(s, i) ==
  Demand(s,
         IF i = "TiltStop" THEN s.mode ELSE IF i \in FcuModes THEN i ELSE "HOLD",
         Arming(i), i \in Emergencies)

TestFails(s, i) == Testing(i) /\ Failed(s)

TargetOf(s) == [mode |-> s.wanted_mode, arm |-> s.wanted_arm, safety |-> s.safety_disarm]
ObservedOf(s) == [connected |-> s.connected, armed |-> s.armed, mode |-> s.mode]

\* The last mode command and the last arm command, after one more.
AskedNow(as, command) ==
  {command} \cup {c \in as : (c \in ArmCommands) # (command \in ArmCommands)}

FreeSerials == Serials \ ({c.serial : c \in calls} \cup {session.pending.serial})

Init ==
  /\ session = SessionInitial
  /\ intent = "Idle"
  /\ spent = [c \in Commands |-> 0]
  /\ asked = {}
  /\ calls = {}
  /\ answer = "none"
  /\ fcu \in FcuStates
  /\ heartbeat = fcu

-----------------------------------------------------------------------------
(* Handlers. *)

\* The command goes out, or the send throws and is completed as refused.
Emit(s, command, kept) ==
  LET serial == CHOOSE n \in FreeSerials : TRUE
      sent == Emitted(s, command, serial) IN
  /\ FreeSerials # {} /\ Cardinality(calls) < MaxOnWire
  /\ spent' = [kept EXCEPT ![command] = @ + 1]
  /\ asked' = AskedNow(asked, command)
  /\ \/ /\ session' = sent
        /\ calls' = calls \cup {[serial |-> serial, command |-> command]}
     \/ session' = Completed(sent, serial, FALSE) /\ UNCHANGED calls

\* drive_session_locked on the session a handler left: a blade test whose demand has
\* failed is ended at once, and responses to retired commands are dropped.  (What is
\* bound by \E to a single value is evaluated once.)
Drive(left, i, again, services) ==
  \E driven \in {Ticked(DemandWith(left, i))} :
  LET ended == TestFails(driven, i) IN
  /\ intent' = IF ended THEN "Idle" ELSE i
  /\ \E s \in {IF ended THEN DemandWith(driven, "Idle") ELSE driven} :
     \E command \in {NextCommand(s, services.mode, services.arm,
                                 services.released /\ i \notin Emergencies)} :
       LET kept == IF ~again /\ TargetOf(s) = TargetOf(session)
                             /\ ObservedOf(s) = ObservedOf(session)
                   THEN spent ELSE [c \in Commands |-> 0] IN
       IF command = "none"
       THEN session' = s /\ spent' = kept /\ UNCHANGED <<asked, calls>>
       ELSE Emit(s, command, kept)

KeepAnswer ==
  answer' = IF session'.pending.serial = session.pending.serial THEN answer ELSE "none"

\* on_high_level_status, on_mower_control, release of an emergency, ...  An ON of
\* on_mower_control drives the old demand first, which expires what is due.
SetIntent(i, services) ==
  /\ i # intent
  /\ Testing(i) => ~Expired(session)
  /\ Drive(session, i, FALSE, services) /\ KeepAnswer
  /\ UNCHANGED vehicle

\* request_safety_disarm demands before the projection of the inputs does.
SafetyRequest(hold, i, services) ==
  /\ i \in Emergencies /\ (hold => i = "HoldStop")
  /\ Drive(Demand(session, IF hold THEN "HOLD" ELSE session.mode, FALSE, TRUE),
           i, TRUE, services)
  /\ KeepAnswer
  /\ UNCHANGED vehicle

\* end_failed_blade_test_locked from drive_blade_locked, which follows the drives of
\* the session: the blade refuses or its request expires, the session failed in a send,
\* or the link is down.
BladeTestEnds ==
  /\ Testing(intent)
  /\ session' = DemandWith(session, "Idle")
  /\ intent' = "Idle"
  /\ spent' = [c \in Commands |-> 0]
  /\ UNCHANGED <<asked, calls, answer, vehicle>>

Timer(services) ==
  /\ Drive(session, intent, FALSE, services) /\ KeepAnswer
  /\ UNCHANGED vehicle

\* on_mavros_state
Heard(services) ==
  /\ Drive(Observe(session, TRUE, heartbeat.armed, heartbeat.mode),
           intent, FALSE, services)
  /\ KeepAnswer
  /\ UNCHANGED vehicle

\* MAVROS reports the loss with the last state or with a blank one; the safety
\* inputs are forgotten, so the intent may change with it.  Nothing can be emitted.
LinkLost(blank, i) ==
  /\ Drive(IF blank THEN Observe(session, FALSE, FALSE, "")
           ELSE Observe(session, FALSE, session.armed, session.mode),
           i, FALSE, Everything)
  /\ KeepAnswer
  /\ UNCHANGED vehicle

Complete(services) ==
  /\ answer # "none"
  /\ Drive(Completed(session, session.pending.serial, answer = "accepted"),
           intent, FALSE, services)
  /\ answer' = "none"
  /\ UNCHANGED vehicle

-----------------------------------------------------------------------------
(* The environment. *)

Awaited(c) == Current(session, c.serial) /\ ~session.acked /\ answer = "none"

Answer(c, outcomes) ==
  \/ UNCHANGED answer
  \/ Awaited(c) /\ answer' \in outcomes

FcuApplies(c) ==
  /\ fcu' = IF c.command \in ArmCommands
            THEN [fcu EXCEPT !.armed = (c.command = "ARM")]
            ELSE [fcu EXCEPT !.mode = c.command]
  /\ calls' = calls \ {c}
  /\ Answer(c, {"accepted", "refused"})
  /\ UNCHANGED <<bridge, heartbeat>>

\* Refused by the FCU, or lost on the way.
CommandFails(c) ==
  /\ calls' = calls \ {c}
  /\ Answer(c, {"refused"})
  /\ UNCHANGED <<bridge, vehicle>>

ModeSent(c) ==
  /\ c.command \notin ArmCommands /\ Awaited(c)
  /\ answer' = "accepted"
  /\ UNCHANGED <<bridge, calls, vehicle>>

FcuReports ==
  /\ heartbeat' = fcu
  /\ UNCHANGED <<bridge, calls, answer, fcu>>

Pilot ==
  /\ fcu' \in FcuStates
  /\ UNCHANGED <<bridge, calls, answer, heartbeat>>

ClockTick ==
  /\ session' = Aged(session)
  /\ UNCHANGED <<intent, spent, asked, calls, answer, vehicle>>

-----------------------------------------------------------------------------
InputChanges ==
  \/ BladeTestEnds
  \/ \E blank \in BOOLEAN, i \in Intents : LinkLost(blank, i)
  \/ \E services \in Services :
       \/ \E i \in Intents : SetIntent(i, services)
       \/ \E hold \in BOOLEAN, i \in Emergencies : SafetyRequest(hold, i, services)

FcuProcesses == \E c \in calls : FcuApplies(c) \/ CommandFails(c)

NextAlone ==
  \/ InputChanges
  \/ \E services \in Services : Timer(services) \/ Heard(services) \/ Complete(services)
  \/ FcuProcesses \/ (\E c \in calls : ModeSent(c))
  \/ FcuReports \/ ClockTick

Next == NextAlone \/ Pilot

Spec == Init /\ [][Next]_vars

(***************************************************************************)
(* Fairness: the 50 ms timer drives the session again and again, with both *)
(* services discovered and the hardware switch released; time passes,      *)
(* MAVROS disposes of what it was given, and the FCU's reports keep        *)
(* coming.  Nothing is assumed of MowgliNext, of the operator or a pilot.  *)
(***************************************************************************)
Fairness ==
  /\ WF_vars(Timer(Everything)) /\ WF_vars(ClockTick)
  /\ WF_vars(FcuProcesses) /\ WF_vars(Complete(Everything))
  /\ WF_vars(FcuReports) /\ WF_vars(Heard(Everything))

FairSpec == Spec /\ Fairness

\* Only the bridge commands the vehicle.
AloneSpec == Init /\ [][NextAlone]_vars /\ Fairness

-----------------------------------------------------------------------------
(* Properties. *)

TypeOK ==
  /\ session \in SessionRecords
  /\ intent \in Intents
  /\ spent \in [Commands -> Nat]
  /\ asked \subseteq Commands
  /\ calls \subseteq Calls
  /\ answer \in {"none", "accepted", "refused"}
  /\ fcu \in FcuStates
  /\ heartbeat \in FcuStates

\* "The failed operation is not retried for the unchanged target" and "stable
\* repeated state does not cause a retry storm": the sequencer implements the
\* contract, whose commands are called for and never repeated without a change.
Contract == INSTANCE FcuSessionContract
  WITH target <- TargetOf(session), observed <- ObservedOf(session)
KeepsContract == Contract!Spec

\* "An obsolete request's refusal cannot block the new target": a latched failure
\* is that of the command the current target calls for.
FailureIsOwn ==
  /\ session.mode_failed => session.wanted_mode \in asked
  /\ session.arm_failed => ArmCommand(session.wanted_arm) \in asked

\* "Safety DISARM supersedes any pending MODE/ARM immediately": from the first step
\* of an emergency to its last, no ARM is pending whose answer could still count.
EmergencyRetiresArm ==
  session.safety_disarm => ~(Pending(session) /\ session.pending.command = "ARM")

\* What makes them hold.  Nothing is pending without a link, and what is pending was
\* asked for; a command that is spent is pending, or it failed and is latched, or the
\* FCU was seen to obey it, and then no corrective DISARM is owed.
Explained(s, w) ==
  /\ w = IF w \in ArmCommands THEN ArmCommand(s.wanted_arm) ELSE s.wanted_mode
  /\ \/ Pending(s) /\ s.pending.command = w
     \/ IF w \in ArmCommands THEN s.arm_failed ELSE s.mode_failed
     \/ Confirms(s, w)

SessionInv(s, sp, as) ==
  /\ Pending(s) => s.connected /\ s.pending.command \in as
  /\ s.safety_disarm => ~s.wanted_arm /\ ~(Pending(s) /\ s.pending.command = "ARM")
  /\ s.mode_failed => s.wanted_mode \in as
  /\ s.arm_failed => ArmCommand(s.wanted_arm) \in as
  /\ \A w \in Commands : sp[w] > 0 => Explained(s, w)
  /\ s.safety_disarm /\ sp["DISARM"] > 0 => ~s.force_disarm

\* ... and ARM is asked for in a blade test and in a movement session only.
SessionInvariant ==
  /\ SessionInv(session, spent, asked)
  /\ session.wanted_arm <=> Arming(intent)

\* A vehicle seen armed during an emergency is disarmed, or the refusal is latched
\* for the operator, whatever was pending when the emergency came.
EmergencyDisarms ==
  (session.safety_disarm /\ session.connected /\ session.armed)
    ~> (\/ ~session.safety_disarm \/ ~session.connected \/ ~session.armed
        \/ session.arm_failed)

\* Once the demand stands still and nobody else touches the vehicle, the session is
\* ready, or it failed and says so, or the link is down: it never hangs.
SessionSettles ==
  <>[][~InputChanges /\ ~Pilot]_vars =>
    <>[](Ready(session) \/ Failed(session) \/ ~session.connected)

\* "A late observed ARM during the existing emergency leads to one corrective
\* DISARM": also when it is observed while the first DISARM, which the FCU has
\* accepted, still waits for its confirmation.
LateArmCorrected ==
  (/\ session.safety_disarm /\ session.connected
   /\ session.armed /\ session.force_disarm
   /\ DisarmPending(session) /\ session.acked)
    ~> (\/ ~session.safety_disarm \/ ~session.connected
        \/ ~session.armed \/ ~session.force_disarm)
=============================================================================
