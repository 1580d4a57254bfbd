------------------------- MODULE TractionGateProofs -------------------------
(***************************************************************************)
(* Proofs about TractionGate: typing, and the gate.  Every handler makes a *)
(* record, drives the session, drives the blade: Before says what a record *)
(* must satisfy for the drive of the session to leave a gated one.         *)
(***************************************************************************)
EXTENDS TractionGate, FcuSessionTypes, TLAPS

ServiceStates == [mode : BOOLEAN, arm : BOOLEAN, throw : BOOLEAN]

-----------------------------------------------------------------------------
(* Typing. *)

LEMMA SafetyTypes ==
  ASSUME NEW s \in SafetyRecords, NEW a \in BOOLEAN, NEW b \in BOOLEAN
  PROVE  /\ ObserveMotorOutputs(s, a, b) \in SafetyRecords
         /\ ObserveButtons(s, a, b) \in SafetyRecords
         /\ SetServiceEmergency(s, a) \in SafetyRecords
         /\ ObserveTilt(s, a) \in SafetyRecords
         /\ ClearReleasedLatches(s) \in SafetyRecords
         /\ Disconnected(s) \in SafetyRecords
<1>1. ObserveMotorOutputs(s, a, b) \in SafetyRecords
  <2>1. (a /\ ~b) \in BOOLEAN
    OBVIOUS
  <2>2. (IF ~a THEN "Unknown" ELSE IF b THEN "Released" ELSE "Engaged") \in HardwareStates
    BY DEF HardwareStates
  <2>3. QED
    BY <2>1, <2>2 DEF ObserveMotorOutputs, SafetyRecords
<1>2. ObserveButtons(s, a, b) \in SafetyRecords
  BY DEF ObserveButtons, SafetyRecords
<1>3. SetServiceEmergency(s, a) \in SafetyRecords
  BY DEF SetServiceEmergency, SafetyRecords
<1>4. ObserveTilt(s, a) \in SafetyRecords
  <2>1. (s.tilt_latched \/ a) \in BOOLEAN
    OBVIOUS
  <2>2. QED
    BY <2>1 DEF ObserveTilt, SafetyRecords
<1>5. ClearReleasedLatches(s) \in SafetyRecords
  <2>1. (s.tilt_latched /\ s.tilt) \in BOOLEAN
    OBVIOUS
  <2>2. QED
    BY <2>1 DEF ClearReleasedLatches, SafetyRecords
<1>6. Disconnected(s) \in SafetyRecords
  BY DEF Disconnected, SafetyRecords, HardwareStates
<1>7. QED
  BY <1>1, <1>2, <1>3, <1>4, <1>5, <1>6

LEMMA GateConstants ==
  /\ "MANUAL" \in Modes /\ "HOLD" \in Modes /\ (GuidedVelocity => "GUIDED" \in Modes)
  /\ Services \subseteq ServiceStates /\ 1 \in Serials /\ TiltTicks \in Nat
  /\ Neutral \in Outputs
<1>1. Neutral \in Outputs
  BY DEF Neutral, Outputs
<1>2. QED
  BY <1>1, TractionGateAssumption, SessionConstants DEF ServiceStates

LEMMA RequestedModeType ==
  ASSUME NEW n \in Nodes
  PROVE  RequestedMode(n) \in Modes
<1>1. n.session.mode \in Modes
  BY DEF Nodes, SessionRecords
<1>2. Guided(n) => "GUIDED" \in Modes
  BY GateConstants DEF Guided
<1>3. QED
  BY <1>1, <1>2, GateConstants DEF RequestedMode

\* A node with another session, other outputs, another end of the test, is a node.
LEMMA NodeWith ==
  ASSUME NEW n \in Nodes, NEW session \in SessionRecords, NEW output \in Outputs
  PROVE  /\ [n EXCEPT !.session = session] \in Nodes
         /\ [n EXCEPT !.output = output] \in Nodes
         /\ [n EXCEPT !.test = FALSE] \in Nodes
         /\ [n EXCEPT !.test = TRUE] \in Nodes
         /\ [n EXCEPT !.drove = TRUE] \in Nodes
  BY DEF Nodes

\* What of a node no drive changes.
Same(n, d) ==
  /\ d \in Nodes
  /\ d.state = n.state /\ d.safety = n.safety
  /\ d.session.connected = n.session.connected /\ d.session.mode = n.session.mode
  /\ d.session.armed = n.session.armed

LEMMA SameMeans ==
  ASSUME NEW n \in Nodes, NEW d, Same(n, d)
  PROVE  /\ Moving(d) = Moving(n) /\ Guided(d) = Guided(n)
         /\ Emergency(d.safety) = Emergency(n.safety)
         /\ RequestedMode(d) = RequestedMode(n)
  BY DEF Same, Moving, Guided, RequestedMode, HoldEmergency

\* Methods that leave target and observation alone.
SameTarget(s, t) ==
  /\ t \in SessionRecords
  /\ t.wanted_mode = s.wanted_mode /\ t.wanted_arm = s.wanted_arm
  /\ t.safety_disarm = s.safety_disarm
  /\ t.connected = s.connected /\ t.mode = s.mode /\ t.armed = s.armed

LEMMA EmittedFields ==
  ASSUME NEW s \in SessionRecords, NEW c \in Commands, NEW t, t = Emitted(s, c, 1)
  PROVE  SameTarget(s, t)
<1>1. t \in SessionRecords
  BY EmittedType, TractionGateAssumption
<1>2. QED
  BY <1>1 DEF SameTarget, Emitted, SessionRecords

LEMMA FailFields ==
  ASSUME NEW s \in SessionRecords, NEW t, t = Fail(s)
  PROVE  SameTarget(s, t)
<1>1. t \in SessionRecords
  BY FailType
<1>2. QED
  BY <1>1 DEF SameTarget, Fail, SessionRecords

LEMMA SettleFields ==
  ASSUME NEW s \in SessionRecords, NEW t, t = Settle(s)
  PROVE  SameTarget(s, t)
<1>1. t \in SessionRecords
  BY SettleType
<1>2. QED
  BY <1>1 DEF SameTarget, Settle, SessionRecords

LEMMA TickedFields ==
  ASSUME NEW s \in SessionRecords, NEW t, t = Ticked(s)
  PROVE  SameTarget(s, t)
<1>1. CASE t = s
  BY <1>1 DEF SameTarget
<1>2. CASE t = Fail(s)
  BY <1>2, FailFields
<1>3. QED
  BY <1>1, <1>2 DEF Ticked

LEMMA CompletedFields ==
  ASSUME NEW s \in SessionRecords, NEW serial, NEW accepted \in BOOLEAN,
         NEW t, t = Completed(s, serial, accepted)
  PROVE  SameTarget(s, t)
<1>1. PICK u : u = Ticked(s)
  OBVIOUS
<1>2. SameTarget(s, u)
  BY <1>1, TickedFields
<1>3. PICK a : a = [u EXCEPT !.acked = TRUE]
  OBVIOUS
<1>4. SameTarget(u, a)
  BY <1>2, <1>3 DEF SameTarget, SessionRecords
<1>5. t \in {u, Fail(u), Settle(a)}
  BY <1>1, <1>3 DEF Completed
<1>6. SameTarget(u, Fail(u)) /\ SameTarget(a, Settle(a))
  BY <1>2, <1>4, FailFields, SettleFields DEF SameTarget
<1>7. QED
  BY <1>2, <1>4, <1>5, <1>6 DEF SameTarget

LEMMA AgedFields ==
  ASSUME NEW s \in SessionRecords, NEW t, t = Aged(s)
  PROVE  SameTarget(s, t)
<1>1. t \in SessionRecords
  BY AgedType
<1>2. QED
  BY <1>1 DEF SameTarget, Aged, SessionRecords

\* What demand() leaves behind.
LEMMA DemandFields ==
  ASSUME NEW s \in SessionRecords, NEW mode \in Modes,
         NEW arm \in BOOLEAN, NEW safety \in BOOLEAN,
         NEW d, d = Demand(s, mode, arm, safety)
  PROVE  /\ d \in SessionRecords
         /\ d.wanted_mode = mode /\ d.wanted_arm = arm /\ d.safety_disarm = safety
         /\ d.connected = s.connected /\ d.mode = s.mode /\ d.armed = s.armed
<1>1. d \in SessionRecords
  BY DemandType
<1>2. CASE <<mode, arm, safety>> = <<s.wanted_mode, s.wanted_arm, s.safety_disarm>>
  BY <1>1, <1>2 DEF Demand
<1>3. CASE <<mode, arm, safety>> # <<s.wanted_mode, s.wanted_arm, s.safety_disarm>>
  BY <1>1, <1>3 DEF Demand, SessionRecords
<1>4. QED
  BY <1>1, <1>2, <1>3

-----------------------------------------------------------------------------
(* The gate. *)

MoveMode(n) == IF Guided(n) THEN "GUIDED" ELSE "MANUAL"

\* A velocity is that of the current movement.
Placed(n) == (n.output.guided => Guided(n)) /\ (n.output.manual => Moving(n) /\ ~Guided(n))

\* What holds between handlers.
Stands(n) ==
  Velocity(n) =>
    /\ n.was_ready /\ Moving(n) /\ n.session.mode = MoveMode(n) /\ Placed(n)
    /\ n.drove => TractionReady(n)

Good(n) == n \in Nodes /\ Stands(n)

\* What is enough for a drive of the session.
Before(n) ==
  /\ n \in Nodes
  /\ Velocity(n) => n.was_ready
  /\ Velocity(n) /\ Moving(n) /\ n.session.mode = MoveMode(n) => Placed(n)

\* What each stage of the drive keeps once the gate was passed.
Tied(n) ==
  Moving(n) /\ ~Emergency(n.safety) =>
    /\ n.session.wanted_mode = MoveMode(n) /\ ~n.session.safety_disarm
    /\ TractionReady(n) => n.was_ready

Strong(n) ==
  /\ n \in Nodes /\ Tied(n)
  /\ Velocity(n) => TractionReady(n) /\ Placed(n)

LEMMA GoodBefore ==
  ASSUME NEW n, Good(n)
  PROVE  Before(n)
  BY DEF Good, Stands, Before

LEMMA StrongGood ==
  ASSUME NEW n, Strong(n)
  PROVE  Good(n)
  BY DEF Strong, Tied, Good, Stands, TractionReady, Ready

LEMMA NeutralGood ==
  ASSUME NEW n \in Nodes, n.output = Neutral
  PROVE  Good(n) /\ Before(n)
  BY DEF Good, Stands, Before, Velocity

\* Without movement nothing ties.
LEMMA IdleStrong ==
  ASSUME NEW n \in Nodes, n.output = Neutral, ~Moving(n)
  PROVE  Strong(n)
  BY DEF Strong, Tied, Velocity

\* Another session on a node, as far as the gate reads it.
LEMMA DemandedFields ==
  ASSUME NEW n \in Nodes, NEW d, d = Demanded(n)
  PROVE  /\ Same(n, d) /\ d.output = n.output /\ d.was_ready = n.was_ready
         /\ d.session.wanted_mode = RequestedMode(n)
         /\ d.session.safety_disarm = Emergency(n.safety)
<1> DEFINE arm == ~Emergency(n.safety) /\ (Moving(n) \/ n.test)
           emergency == Emergency(n.safety)
           mode == RequestedMode(n)
<1>1. arm \in BOOLEAN /\ emergency \in BOOLEAN /\ mode \in Modes /\ n.session \in SessionRecords
  BY RequestedModeType DEF Nodes, Emergency
<1> HIDE DEF arm, emergency, mode
<1>2. PICK s : s = Demand(n.session, mode, arm, emergency)
  OBVIOUS
<1>3. /\ s \in SessionRecords
      /\ s.wanted_mode = mode /\ s.wanted_arm = arm /\ s.safety_disarm = emergency
      /\ s.connected = n.session.connected /\ s.mode = n.session.mode
      /\ s.armed = n.session.armed
  BY <1>1, <1>2, DemandFields
<1>4. PICK t : t = Ticked(s)
  OBVIOUS
<1>5. /\ t \in SessionRecords
      /\ t.wanted_mode = mode /\ t.safety_disarm = emergency
      /\ t.connected = n.session.connected /\ t.mode = n.session.mode
      /\ t.armed = n.session.armed
  BY <1>3, <1>4, TickedFields DEF SameTarget
<1>6. d = [n EXCEPT !.session = t]
  BY <1>2, <1>4 DEF Demanded, arm, emergency, mode
<1>7. d \in Nodes /\ d.session = t /\ d.state = n.state /\ d.safety = n.safety
      /\ d.output = n.output /\ d.was_ready = n.was_ready
  BY <1>5, <1>6 DEF Nodes
<1>8. QED
  BY <1>5, <1>7 DEF Same, emergency, mode

LEMMA GatedStrong ==
  ASSUME NEW n, Before(n), NEW d, d = Gated(Demanded(n))
  PROVE  Strong(d) /\ d.state = n.state /\ d.safety = n.safety
<1>1. PICK m : m = Demanded(n)
  OBVIOUS
<1>2. /\ Same(n, m) /\ m.output = n.output /\ m.was_ready = n.was_ready
      /\ m.session.wanted_mode = RequestedMode(n)
      /\ m.session.safety_disarm = Emergency(n.safety)
  BY <1>1, DemandedFields DEF Before
<1>3. m \in Nodes /\ n \in Nodes
  BY <1>2 DEF Same, Before
<1>4. PICK ready \in BOOLEAN : ready = TractionReady(m)
  BY DEF TractionReady
<1> DEFINE output == IF m.was_ready /\ ~ready THEN Neutral ELSE m.output
<1>5. output \in Outputs
  BY <1>3, GateConstants DEF Nodes
<1>6. d = [m EXCEPT !.was_ready = ready, !.output = output]
  BY <1>1, <1>4 DEF Gated
<1> HIDE DEF output
<1>7. /\ d \in Nodes /\ d.was_ready = ready /\ d.output = output /\ d.session = m.session
      /\ d.state = m.state /\ d.safety = m.safety
  BY <1>3, <1>5, <1>6 DEF Nodes
<1>8. TractionReady(d) = TractionReady(m) /\ Guided(d) = Guided(n) /\ Moving(d) = Moving(n)
  BY <1>2, <1>7 DEF Same, TractionReady, Guided, Moving
<1>9. Tied(d)
  <2>1. Moving(n) /\ ~Emergency(n.safety) => RequestedMode(n) = MoveMode(n)
    BY DEF RequestedMode, MoveMode
  <2>2. MoveMode(d) = MoveMode(n) /\ Emergency(d.safety) = Emergency(n.safety)
    BY <1>2, <1>7, <1>8 DEF MoveMode, Same
  <2>3. TractionReady(d) => d.was_ready
    BY <1>4, <1>7, <1>8
  <2>4. d.session.wanted_mode = RequestedMode(n) /\ d.session.safety_disarm = Emergency(n.safety)
    BY <1>2, <1>7
  <2>5. QED
    BY <1>8, <2>1, <2>2, <2>3, <2>4 DEF Tied
<1>10. ASSUME Velocity(d)
       PROVE  TractionReady(d) /\ Placed(d)
  <2>1. d.output = n.output /\ ready
    BY <1>2, <1>7, <1>10, Zenon DEF output, Velocity, Before
  <2>2. TractionReady(d)
    BY <1>4, <1>8, <2>1
  <2>3. Moving(d) /\ ~Emergency(d.safety) /\ Ready(d.session)
    BY <2>2 DEF TractionReady
  <2>4. d.session.mode = MoveMode(d)
    BY <1>9, <2>3 DEF Tied, Ready
  <2>5. n.session.mode = MoveMode(n) /\ Moving(n) /\ Velocity(n)
    BY <1>2, <1>7, <1>8, <1>10, <2>1, <2>3, <2>4 DEF Same, MoveMode, Velocity
  <2>6. Placed(n)
    BY <2>5 DEF Before
  <2>7. QED
    BY <1>8, <2>1, <2>2, <2>6 DEF Placed
<1>11. QED
  BY <1>2, <1>7, <1>9, <1>10 DEF Strong, Same

\* The end of a test leaves the node as it is, or its outputs neutral.
LEMMA EndTestFields ==
  ASSUME NEW n \in Nodes, NEW d, d = EndFailedBladeTest(n)
  PROVE  \/ d = n
         \/ /\ d \in Nodes /\ d.output = Neutral /\ d.state = n.state /\ d.safety = n.safety
            /\ ~Moving(d)
<1>1. CASE ~n.test \/ Moving(n)
  BY <1>1 DEF EndFailedBladeTest
<1>2. CASE ~(~n.test \/ Moving(n))
  <2>1. PICK hold \in Modes : hold = "HOLD"
    BY GateConstants
  <2>2. PICK emergency \in BOOLEAN : emergency = Emergency(n.safety)
    BY DEF Emergency
  <2>3. PICK s \in SessionRecords : s = Demand(n.session, hold, FALSE, emergency)
    <3>1. n.session \in SessionRecords
      BY DEF Nodes
    <3>2. QED
      BY <3>1, DemandType
  <2>4. d = [n EXCEPT !.test = FALSE, !.output = Neutral, !.session = s]
    BY <1>2, <2>1, <2>2, <2>3 DEF EndFailedBladeTest
  <2>5. /\ d \in Nodes /\ d.output = Neutral /\ d.state = n.state /\ d.safety = n.safety
    BY <2>3, <2>4, GateConstants DEF Nodes
  <2>6. ~Moving(d)
    BY <1>2, <2>5 DEF Moving
  <2>7. QED
    BY <2>5, <2>6
<1>3. QED
  BY <1>1, <1>2

LEMMA AliveStrong ==
  ASSUME NEW n, Strong(n), NEW d, d = Alive(n)
  PROVE  Strong(d) /\ d.state = n.state /\ d.safety = n.safety
<1>1. n \in Nodes
  BY DEF Strong
<1>2. CASE d = n
  BY <1>2
<1>3. CASE d = EndFailedBladeTest(n)
  <2>1. \/ d = n
        \/ /\ d \in Nodes /\ d.output = Neutral /\ d.state = n.state /\ d.safety = n.safety
           /\ ~Moving(d)
    BY <1>1, <1>3, EndTestFields
  <2>2. QED
    BY <2>1, IdleStrong
<1>4. QED
  BY <1>2, <1>3 DEF Alive

\* With the gate open there is nothing to ask of the FCU.
LEMMA OpenAsksNothing ==
  ASSUME NEW n, Strong(n), Velocity(n), NEW m, NEW a, NEW r
  PROVE  NextCommand(n.session, m, a, r) = "none"
<1>1. Ready(n.session) /\ ~n.session.safety_disarm
  BY DEF Strong, Tied, TractionReady
<1>2. QED
  BY <1>1 DEF NextCommand, DisarmFirst, Ready

LEMMA CommandedStrong ==
  ASSUME NEW n, Strong(n), NEW svc \in ServiceStates, NEW d, d = Commanded(n, svc)
  PROVE  Strong(d) /\ d.state = n.state /\ d.safety = n.safety /\ d.drove
<1> DEFINE allow == ~Emergency(n.safety) /\ n.safety.hardware = "Released"
<1>1. n \in Nodes /\ n.session \in SessionRecords
  BY DEF Strong, Nodes
<1>2. svc.mode \in BOOLEAN /\ svc.arm \in BOOLEAN /\ allow \in BOOLEAN
  BY DEF ServiceStates
<1>3. PICK c : c = NextCommand(n.session, svc.mode, svc.arm, allow)
  OBVIOUS
<1> HIDE DEF allow
<1>4. c \in Commands \cup {"none"}
  BY <1>1, <1>2, <1>3, NextCommandType
<1>5. CASE c = "none"
  <2>1. d = [n EXCEPT !.drove = TRUE]
    BY <1>3, <1>5 DEF Commanded, allow
  <2>2. /\ d \in Nodes /\ d.drove /\ d.state = n.state /\ d.safety = n.safety
        /\ d.output = n.output /\ d.session = n.session /\ d.was_ready = n.was_ready
    BY <1>1, <2>1 DEF Nodes
  <2>3. QED
    BY <2>2 DEF Strong, Tied, Velocity, TractionReady, Moving, MoveMode, Guided, Placed
<1>6. CASE c # "none"
  <2>1. n.output = Neutral /\ c \in Commands
    BY <1>3, <1>4, <1>6, OpenAsksNothing DEF Velocity
  <2>2. PICK emitted \in SessionRecords : emitted = Emitted(n.session, c, 1)
    BY <1>1, <2>1, GateConstants, EmittedType
  <2>3. PICK s \in SessionRecords : s = IF svc.throw THEN Completed(emitted, 1, FALSE) ELSE emitted
    BY <2>2, CompletedType
  <2>4. PICK sent \in SUBSET Commands : sent = n.sent \cup {c}
    BY <1>1, <2>1 DEF Nodes
  <2>5. PICK output : output = IF c = "ARM" THEN Neutral ELSE n.output
    OBVIOUS
  <2>6. output = Neutral
    BY <2>1, <2>5
  <2>7. Sent(n, c, svc.throw) = [n EXCEPT !.sent = sent, !.output = output, !.session = s]
    BY <2>2, <2>3, <2>4, <2>5 DEF Sent
  <2>8. d = [n EXCEPT !.sent = sent, !.output = output, !.session = s, !.drove = TRUE]
    BY <1>3, <1>6, <2>7 DEF Commanded, allow
  <2>9. /\ d \in Nodes /\ d.drove /\ d.state = n.state /\ d.safety = n.safety
        /\ d.output = Neutral /\ d.session = s /\ d.was_ready = n.was_ready
    BY <1>1, <2>6, <2>8, GateConstants DEF Nodes
  <2>10. SameTarget(n.session, s)
    <3>1. SameTarget(n.session, emitted)
      BY <1>1, <2>1, <2>2, EmittedFields
    <3>2. CASE svc.throw
      <4>1. SameTarget(emitted, s)
        BY <2>3, <3>2, CompletedFields
      <4>2. QED
        BY <3>1, <4>1 DEF SameTarget
    <3>3. CASE ~svc.throw
      BY <2>3, <3>1, <3>3
    <3>4. QED
      BY <3>2, <3>3
  <2>11. ~Pending(n.session)
    BY <1>3, <1>6 DEF NextCommand
  <2>12. TractionReady(d) => TractionReady(n)
    BY <2>9, <2>10, <2>11 DEF TractionReady, Ready, SameTarget, Moving
  <2>13. Moving(d) = Moving(n) /\ MoveMode(d) = MoveMode(n)
    BY <2>9 DEF Moving, MoveMode, Guided
  <2>14. Tied(d)
    BY <2>9, <2>10, <2>12, <2>13 DEF Tied, Strong, SameTarget
  <2>15. QED
    BY <2>9, <2>14 DEF Strong, Velocity
<1>7. QED
  BY <1>5, <1>6

LEMMA DriveSessionGood ==
  ASSUME NEW n, Before(n), NEW svc \in ServiceStates, NEW d, d = DriveSession(n, svc)
  PROVE  Strong(d) /\ Good(d) /\ d.drove /\ d.state = n.state /\ d.safety = n.safety
<1>1. PICK g : g = Gated(Demanded(n))
  OBVIOUS
<1>2. Strong(g) /\ g.state = n.state /\ g.safety = n.safety
  BY <1>1, GatedStrong
<1>3. PICK a : a = Alive(g)
  OBVIOUS
<1>4. Strong(a) /\ a.state = n.state /\ a.safety = n.safety
  BY <1>2, <1>3, AliveStrong
<1>5. d = Commanded(a, svc)
  BY <1>1, <1>3 DEF DriveSession
<1>6. Strong(d) /\ d.drove /\ d.state = n.state /\ d.safety = n.safety
  BY <1>4, <1>5, CommandedStrong
<1>7. QED
  BY <1>6, StrongGood

LEMMA DriveBladeFields ==
  ASSUME NEW n \in Nodes, NEW ends, NEW d, d = DriveBlade(n, ends)
  PROVE  \/ d = n
         \/ /\ d \in Nodes /\ d.output = Neutral /\ d.state = n.state /\ d.safety = n.safety
            /\ ~Moving(d)
<1>1. d = n \/ d = EndFailedBladeTest(n)
  BY DEF DriveBlade
<1>2. QED
  BY <1>1, EndTestFields

LEMMA DriveBladeGood ==
  ASSUME NEW n, Good(n), NEW ends, NEW d, d = DriveBlade(n, ends)
  PROVE  Good(d) /\ d.state = n.state /\ d.safety = n.safety
<1>1. n \in Nodes
  BY DEF Good
<1>2. d = n \/ (d \in Nodes /\ d.output = Neutral /\ d.state = n.state /\ d.safety = n.safety)
  BY <1>1, DriveBladeFields
<1>3. QED
  BY <1>2, NeutralGood

LEMMA SafetyDisarmGood ==
  ASSUME NEW n \in Nodes, NEW hold \in BOOLEAN, NEW svc \in ServiceStates,
         NEW d, d = SafetyDisarm(n, hold, svc)
  PROVE  Good(d)
<1>1. PICK mode \in Modes : mode = IF hold THEN "HOLD" ELSE n.session.mode
  <2>1. n.session.mode \in Modes
    BY DEF Nodes, SessionRecords
  <2>2. QED
    BY <2>1, GateConstants
<1>2. PICK s \in SessionRecords : s = Demand(n.session, mode, FALSE, TRUE)
  <2>1. n.session \in SessionRecords
    BY DEF Nodes
  <2>2. QED
    BY <2>1, DemandType
<1>3. PICK off : off = [n EXCEPT !.asked = TRUE, !.test = FALSE, !.output = Neutral, !.session = s]
  OBVIOUS
<1>4. off \in Nodes /\ off.output = Neutral
  BY <1>3, GateConstants DEF Nodes
<1>5. PICK b : b = DriveBlade(off, TRUE)
  OBVIOUS
<1>6. Before(b)
  <2>1. b \in Nodes /\ b.output = Neutral
    BY <1>4, <1>5, DriveBladeFields
  <2>2. QED
    BY <2>1, NeutralGood
<1>7. d = DriveSession(b, svc)
  BY <1>1, <1>2, <1>3, <1>5 DEF SafetyDisarm
<1>8. QED
  BY <1>6, <1>7, DriveSessionGood

LEMMA EndTestGood ==
  ASSUME NEW n, Good(n), NEW d, d = EndFailedBladeTest(n)
  PROVE  Good(d)
<1>1. d = n \/ (d \in Nodes /\ d.output = Neutral)
  BY EndTestFields DEF Good
<1>2. QED
  BY <1>1, NeutralGood

\* The usual handler: both drives.
LEMMA HandledGood ==
  ASSUME NEW n, Before(n), NEW svc \in ServiceStates, NEW ends,
         NEW d, d = DriveBlade(DriveSession(n, svc), ends)
  PROVE  Good(d)
<1>1. PICK m : m = DriveSession(n, svc)
  OBVIOUS
<1>2. Good(m)
  BY <1>1, DriveSessionGood
<1>3. QED
  BY <1>1, <1>2, DriveBladeGood

-----------------------------------------------------------------------------
(* The handlers. *)

\* An input that touches neither movement nor outputs.
LEMMA BeforeFrom ==
  ASSUME NEW n, Good(n), NEW r \in Nodes,
         r.state = n.state, r.output = n.output, r.was_ready = n.was_ready
  PROVE  Before(r)
  BY DEF Good, Stands, Before, Velocity, Placed, Moving, Guided

LEMMA GoodFrom ==
  ASSUME NEW n, Good(n), NEW r \in Nodes,
         r.state = n.state, r.output = n.output, r.was_ready = n.was_ready,
         r.session.mode = n.session.mode, ~r.drove
  PROVE  Good(r)
  BY DEF Good, Stands, Velocity, Placed, Moving, MoveMode, Guided

LEMMA FreshGood ==
  ASSUME Good(node)
  PROVE  /\ Good(Fresh) /\ Before(Fresh) /\ Fresh \in Nodes /\ ~Fresh.drove
         /\ Fresh.state = node.state /\ Fresh.output = node.output
         /\ Fresh.was_ready = node.was_ready /\ Fresh.session = node.session
         /\ Fresh.safety = node.safety
<1>1. node \in Nodes
  BY DEF Good
<1>2. /\ Fresh \in Nodes /\ ~Fresh.drove
      /\ Fresh.state = node.state /\ Fresh.output = node.output
      /\ Fresh.was_ready = node.was_ready /\ Fresh.session = node.session
      /\ Fresh.safety = node.safety
  BY <1>1 DEF Fresh, Nodes
<1>3. QED
  BY <1>2, GoodFrom, BeforeFrom

LEMMA TimerGood ==
  ASSUME Good(node), NEW svc \in ServiceStates, Timer(svc)
  PROVE  Good(node')
<1>1. PICK ends \in BOOLEAN : node' = DriveBlade(DriveSession(Fresh, svc), ends)
  BY Zenon DEF Timer, DriveSession
<1>2. QED
  BY <1>1, FreshGood, HandledGood

LEMMA SessionAnswerGood ==
  ASSUME Good(node), NEW svc \in ServiceStates, NEW ends \in BOOLEAN, NEW accepted \in BOOLEAN,
         SessionAnswer(accepted, svc, ends)
  PROVE  Good(node')
<1>1. PICK s : s = Completed(Fresh.session, Fresh.session.pending.serial, accepted)
  OBVIOUS
<1>2. s \in SessionRecords
  BY <1>1, FreshGood, CompletedType DEF Nodes
<1>3. PICK r : r = [Fresh EXCEPT !.session = s]
  OBVIOUS
<1>4. Before(r)
  <2>1. /\ r \in Nodes /\ r.state = node.state /\ r.output = node.output
        /\ r.was_ready = node.was_ready
    BY <1>2, <1>3, FreshGood DEF Nodes
  <2>2. QED
    BY <2>1, BeforeFrom
<1>5. node' = DriveBlade(DriveSession(r, svc), ends)
  BY <1>1, <1>3 DEF SessionAnswer
<1>6. QED
  BY <1>4, <1>5, HandledGood

LEMMA CommandVelocityGood ==
  ASSUME Good(node), NEW svc \in ServiceStates, NEW finite \in BOOLEAN,
         CommandVelocity(finite, svc)
  PROVE  Good(node')
<1>1. PICK d : d = DriveSession(Fresh, svc)
  OBVIOUS
<1>2. Strong(d) /\ Good(d) /\ d.drove
  BY <1>1, FreshGood, DriveSessionGood
<1>3. node' = d \/ node' = Forwarded(d)
  BY <1>1, Zenon DEF CommandVelocity
<1>4. d \in Nodes
  BY <1>2 DEF Good
<1>5. CASE node' = d
  BY <1>2, <1>5
<1>6. CASE node' = Forwarded(d) /\ ~TractionReady(d)
  <2>1. node' \in Nodes /\ node'.output = Neutral
    BY <1>4, <1>6, GateConstants DEF Forwarded, Nodes
  <2>2. QED
    BY <2>1, NeutralGood
<1>7. CASE node' = Forwarded(d) /\ TractionReady(d)
  <2>1. PICK guided \in BOOLEAN : guided = Guided(d)
    BY DEF Guided
  <2>2. node' = IF guided THEN [d EXCEPT !.output.guided = TRUE] ELSE [d EXCEPT !.output.manual = TRUE]
    BY <1>7, <2>1 DEF Forwarded
  <2>3. /\ node' \in Nodes /\ node'.state = d.state /\ node'.session = d.session
        /\ node'.safety = d.safety /\ node'.was_ready = d.was_ready
    BY <1>4, <2>2 DEF Nodes, Outputs
  <2>4. node'.output.guided => guided \/ d.output.guided
    BY <1>4, <2>2 DEF Nodes, Outputs
  <2>5. node'.output.manual => ~guided \/ d.output.manual
    BY <1>4, <2>2 DEF Nodes, Outputs
  <2>6. Moving(d) /\ d.was_ready /\ d.session.mode = MoveMode(d)
    BY <1>2, <1>7 DEF Strong, Tied, TractionReady, Ready
  <2>7. d.output.guided => guided
    BY <1>2, <2>1 DEF Strong, Placed, Velocity, Neutral
  <2>8. d.output.manual => ~guided
    BY <1>2, <2>1 DEF Strong, Placed, Velocity, Neutral
  <2>9. TractionReady(node') /\ Moving(node') /\ Guided(node') = guided /\ MoveMode(node') = MoveMode(d)
    BY <1>7, <2>1, <2>3 DEF TractionReady, Moving, Guided, MoveMode
  <2>10. Placed(node')
    BY <2>4, <2>5, <2>7, <2>8, <2>9 DEF Placed
  <2>11. QED
    BY <2>3, <2>6, <2>9, <2>10 DEF Good, Stands
<1>8. QED
  BY <1>3, <1>5, <1>6, <1>7

LEMMA HighLevelStatusGood ==
  ASSUME Good(node), NEW svc \in ServiceStates, NEW ends \in BOOLEAN, NEW state \in HighLevel,
         HighLevelStatus(state, svc, ends)
  PROVE  Good(node')
<1>1. PICK status : status = [Fresh EXCEPT !.state = state]
  OBVIOUS
<1>2. /\ status \in Nodes /\ status.state = state /\ status.output = node.output
      /\ status.was_ready = node.was_ready /\ status.session = node.session
  BY <1>1, FreshGood DEF Nodes
<1>3. Before(status)
  <2>1. Velocity(status) => Velocity(node)
    BY <1>2 DEF Velocity
  <2>2. ASSUME Velocity(status), Moving(status), status.session.mode = MoveMode(status)
        PROVE  Placed(status)
    <3>1. node.session.mode = MoveMode(node) /\ Placed(node) /\ Moving(node)
      BY <2>1, <2>2 DEF Good, Stands
    <3>2. Guided(status) <=> Guided(node)
      BY <1>2, <2>2, <3>1 DEF MoveMode
    <3>3. QED
      BY <1>2, <2>2, <3>1, <3>2 DEF Placed
  <2>3. QED
    BY <1>2, <2>1, <2>2 DEF Before, Good, Stands
<1>4. PICK stopped : stopped = [status EXCEPT !.test = FALSE, !.output = Neutral]
  OBVIOUS
<1>5. stopped \in Nodes /\ stopped.output = Neutral
  BY <1>2, <1>4, GateConstants DEF Nodes
<1>6. PICK left : left = IF Moving(node) /\ ~Moving(status) THEN DriveBlade(stopped, ends) ELSE status
  OBVIOUS
<1>7. Before(left)
  <2>1. CASE left = status
    BY <1>3, <2>1
  <2>2. CASE left = DriveBlade(stopped, ends)
    <3>1. left \in Nodes /\ left.output = Neutral
      BY <1>5, <2>2, DriveBladeFields
    <3>2. QED
      BY <3>1, NeutralGood
  <2>3. QED
    BY <1>6, <2>1, <2>2
<1>8. node' = DriveBlade(DriveSession(left, svc), ends)
  BY <1>1, <1>4, <1>6 DEF HighLevelStatus
<1>9. QED
  BY <1>7, <1>8, HandledGood

LEMMA MavrosStateGood ==
  ASSUME Good(node), NEW svc \in ServiceStates, NEW ends \in BOOLEAN, NEW connected \in BOOLEAN,
         NEW armed \in BOOLEAN, NEW mode \in Modes, MavrosState(connected, armed, mode, svc, ends)
  PROVE  Good(node')
<1>1. Fresh.session \in SessionRecords /\ Fresh.safety \in SafetyRecords
  BY FreshGood DEF Nodes
<1>2. PICK s \in SessionRecords : s = Observe(Fresh.session, connected, armed, mode)
  BY <1>1, ObserveType
<1>3. PICK f \in SafetyRecords : f = IF connected THEN Fresh.safety ELSE Disconnected(Fresh.safety)
  BY <1>1, SafetyTypes
<1>4. PICK r : r = [Fresh EXCEPT !.safety = f, !.session = s]
  OBVIOUS
<1>5. /\ r \in Nodes /\ r.state = node.state /\ r.output = node.output
      /\ r.was_ready = node.was_ready
  BY <1>4, FreshGood DEF Nodes
<1>6. Before(r)
  BY <1>5, BeforeFrom
<1>7. node' = DriveBlade(DriveSession(r, svc), ends)
  BY <1>2, <1>3, <1>4 DEF MavrosState
<1>8. QED
  BY <1>6, <1>7, HandledGood

LEMMA SysStatusGood ==
  ASSUME Good(node), NEW svc \in ServiceStates, NEW present \in BOOLEAN, NEW enabled \in BOOLEAN,
         SysStatus(present, enabled, svc)
  PROVE  Good(node')
<1>1. node.safety \in SafetyRecords
  BY DEF Good, Nodes
<1>2. PICK f \in SafetyRecords : f = ObserveMotorOutputs(node.safety, present, enabled)
  BY <1>1, SafetyTypes
<1>3. PICK seen : seen = [Fresh EXCEPT !.safety = f]
  OBVIOUS
<1>4. /\ seen \in Nodes /\ seen.state = node.state /\ seen.output = node.output
      /\ seen.was_ready = node.was_ready /\ seen.session = node.session /\ ~seen.drove
  BY <1>3, FreshGood DEF Nodes
<1>5. node' = SafetyDisarm(seen, TRUE, svc) \/ node' = seen
  BY <1>2, <1>3 DEF SysStatus
<1>6. QED
  BY <1>4, <1>5, GoodFrom, SafetyDisarmGood

LEMMA ButtonChangeGood ==
  ASSUME Good(node), NEW svc \in ServiceStates, NEW left \in BOOLEAN, NEW right \in BOOLEAN,
         ButtonChange(left, right, svc)
  PROVE  Good(node')
<1>1. node.safety \in SafetyRecords
  BY DEF Good, Nodes
<1>2. PICK f \in SafetyRecords : f = ObserveButtons(node.safety, left, right)
  BY <1>1, SafetyTypes
<1>3. PICK both \in BOOLEAN : both = (left /\ right)
  OBVIOUS
<1>4. PICK seen : seen = [Fresh EXCEPT !.safety = f, !.lift_sent = both]
  OBVIOUS
<1>5. /\ seen \in Nodes /\ seen.state = node.state /\ seen.output = node.output
      /\ seen.was_ready = node.was_ready /\ seen.session = node.session /\ ~seen.drove
  BY <1>4, FreshGood DEF Nodes
<1>6. node' = SafetyDisarm(seen, FALSE, svc) \/ node' = seen
  BY <1>2, <1>3, <1>4 DEF ButtonChange
<1>7. QED
  BY <1>5, <1>6, GoodFrom, SafetyDisarmGood

LEMMA ImuGood ==
  ASSUME Good(node), NEW svc \in ServiceStates, NEW tilted \in BOOLEAN, Imu(tilted, svc)
  PROVE  Good(node')
<1>1. node.safety \in SafetyRecords /\ Fresh.tilt_age \in 0..TiltTicks /\ Fresh.safety = node.safety
  BY FreshGood DEF Good, Nodes
<1>2. PICK active \in BOOLEAN : active = (tilted /\ node.tilt_age >= TiltTicks)
  OBVIOUS
<1>3. PICK f \in SafetyRecords : f = ObserveTilt(Fresh.safety, active)
  BY <1>1, SafetyTypes
<1>4. PICK age \in 0..TiltTicks : age = IF tilted THEN Fresh.tilt_age ELSE 0
  <2>1. 0 \in 0..TiltTicks
    BY GateConstants
  <2>2. QED
    BY <1>1, <2>1
<1>5. PICK seen : seen = [Fresh EXCEPT !.tilted = tilted, !.tilt_age = age,
                                       !.safety = f, !.tilt_sent = active]
  OBVIOUS
<1>6. /\ seen \in Nodes /\ seen.state = node.state /\ seen.output = node.output
      /\ seen.was_ready = node.was_ready /\ seen.session = node.session /\ ~seen.drove
  BY <1>5, FreshGood DEF Nodes
<1>7. node' = SafetyDisarm(seen, FALSE, svc) \/ node' = seen
  BY <1>2, <1>3, <1>4, <1>5 DEF Imu
<1>8. QED
  BY <1>6, <1>7, GoodFrom, SafetyDisarmGood

LEMMA EmergencyStopGood ==
  ASSUME Good(node), NEW svc \in ServiceStates, EmergencyStop(svc)
  PROVE  Good(node')
<1>1. PICK f \in SafetyRecords : f = SetServiceEmergency(Fresh.safety, TRUE)
  BY FreshGood, SafetyTypes DEF Nodes
<1>2. PICK r : r = [Fresh EXCEPT !.safety = f]
  OBVIOUS
<1>3. r \in Nodes
  BY <1>2, FreshGood DEF Nodes
<1>4. node' = SafetyDisarm(r, TRUE, svc)
  BY <1>1, <1>2 DEF EmergencyStop
<1>5. QED
  BY <1>3, <1>4, SafetyDisarmGood

LEMMA EmergencyReleaseGood ==
  ASSUME Good(node), NEW svc \in ServiceStates, NEW ends \in BOOLEAN, EmergencyRelease(svc, ends)
  PROVE  Good(node')
<1>1. PICK f \in SafetyRecords : f = SetServiceEmergency(Fresh.safety, FALSE)
  BY FreshGood, SafetyTypes DEF Nodes
<1>2. PICK g \in SafetyRecords : g = ClearReleasedLatches(f)
  BY SafetyTypes
<1>3. PICK r : r = [Fresh EXCEPT !.safety = g]
  OBVIOUS
<1>4. /\ r \in Nodes /\ r.state = node.state /\ r.output = node.output
      /\ r.was_ready = node.was_ready
  BY <1>3, FreshGood DEF Nodes
<1>5. node' = DriveBlade(DriveSession(r, svc), ends)
  BY <1>1, <1>2, <1>3 DEF EmergencyRelease
<1>6. QED
  BY <1>4, <1>5, BeforeFrom, HandledGood

LEMMA MowerOffGood ==
  ASSUME Good(node), NEW svc \in ServiceStates, NEW ends \in BOOLEAN, MowerOff(svc, ends)
  PROVE  Good(node')
<1>1. Fresh.session \in SessionRecords
  BY FreshGood DEF Nodes
<1>2. PICK hold \in Modes : hold = "HOLD"
  BY GateConstants
<1>3. PICK emergency \in BOOLEAN : emergency = Emergency(node.safety)
  BY DEF Emergency
<1>4. PICK held \in SessionRecords : held = Demand(Fresh.session, hold, FALSE, emergency)
  BY <1>1, DemandType
<1>5. held.mode = Fresh.session.mode
  <2>1. PICK before \in SessionRecords : before = Fresh.session
    BY <1>1
  <2>2. PICK arm \in BOOLEAN : arm = FALSE
    OBVIOUS
  <2>3. held = Demand(before, hold, arm, emergency)
    BY <1>4, <2>1, <2>2
  <2>4. held.mode = before.mode
    BY <2>3, DemandFields
  <2>5. QED
    BY <2>1, <2>4
<1>6. PICK s \in SessionRecords : s = IF Moving(node) THEN Fresh.session ELSE held
  BY <1>1
<1>7. PICK off : off = [Fresh EXCEPT !.test = FALSE, !.session = s]
  OBVIOUS
<1>8. /\ off \in Nodes /\ off.state = node.state /\ off.output = node.output
      /\ off.was_ready = node.was_ready /\ off.session.mode = node.session.mode /\ ~off.drove
  BY <1>5, <1>6, <1>7, FreshGood DEF Nodes
<1>9. PICK b : b = DriveBlade(off, ends)
  OBVIOUS
<1>10. Before(b)
  BY <1>8, <1>9, GoodFrom, DriveBladeGood, GoodBefore
<1>11. node' = DriveSession(b, svc)
  BY <1>2, <1>3, <1>4, <1>6, <1>7, <1>9 DEF MowerOff
<1>12. QED
  BY <1>10, <1>11, DriveSessionGood

LEMMA MowerOnGood ==
  ASSUME Good(node), NEW svc \in ServiceStates, NEW ends \in BOOLEAN, NEW usable \in BOOLEAN,
         MowerOn(usable, svc, ends)
  PROVE  Good(node')
<1>1. PICK driven : driven = DriveBlade(DriveSession(Fresh, svc), ends)
  OBVIOUS
<1>2. Good(driven) /\ driven \in Nodes
  BY <1>1, FreshGood, HandledGood DEF Good
<1>3. PICK r : r = IF Moving(driven) THEN driven
                   ELSE [driven EXCEPT !.test = TRUE, !.output = Neutral]
  OBVIOUS
<1>4. Before(r)
  <2>1. CASE r = driven
    BY <1>2, <2>1, GoodBefore
  <2>2. CASE r = [driven EXCEPT !.test = TRUE, !.output = Neutral]
    <3>1. r \in Nodes /\ r.output = Neutral
      BY <1>2, <2>2, GateConstants DEF Nodes
    <3>2. QED
      BY <3>1, NeutralGood
  <2>3. QED
    BY <1>3, <2>1, <2>2
<1>5. PICK opened : opened = DriveSession(r, svc)
  OBVIOUS
<1>6. Good(opened)
  BY <1>4, <1>5, DriveSessionGood
<1>7. \/ node' = driven \/ node' = EndFailedBladeTest(opened)
      \/ node' = DriveBlade(opened, ends) \/ node' = opened
  BY <1>1, <1>3, <1>5 DEF MowerOn
<1>8. QED
  BY <1>2, <1>6, <1>7, EndTestGood, DriveBladeGood

LEMMA BladeEventGood ==
  ASSUME Good(node), NEW ends \in BOOLEAN, BladeEvent(ends)
  PROVE  Good(node')
<1>1. node' = DriveBlade(Fresh, ends)
  BY DEF BladeEvent
<1>2. QED
  BY <1>1, FreshGood, DriveBladeGood

LEMMA ClockTickGood ==
  ASSUME Good(node), ClockTick
  PROVE  Good(node')
<1>1. PICK s \in SessionRecords : s = Aged(Fresh.session)
  BY FreshGood, AgedType DEF Nodes
<1>2. s.mode = node.session.mode
  BY <1>1, FreshGood, AgedFields DEF Nodes, SameTarget
<1>3. PICK age \in 0..TiltTicks :
        age = IF node.tilted /\ Fresh.tilt_age < TiltTicks THEN Fresh.tilt_age + 1
              ELSE Fresh.tilt_age
  <2>1. Fresh.tilt_age \in 0..TiltTicks /\ TiltTicks \in Nat
    BY FreshGood, GateConstants DEF Nodes
  <2>2. QED
    BY <2>1
<1>4. node' = [Fresh EXCEPT !.session = s, !.tilt_age = age]
  BY <1>1, <1>3 DEF ClockTick
<1>5. /\ node' \in Nodes /\ node'.state = node.state /\ node'.output = node.output
      /\ node'.was_ready = node.was_ready /\ node'.session = s /\ ~node'.drove
  BY <1>4, FreshGood DEF Nodes
<1>6. QED
  BY <1>2, <1>5, GoodFrom

-----------------------------------------------------------------------------
(* Theorems. *)

LEMMA GateStep ==
  ASSUME Good(node), [Next]_node
  PROVE  Good(node')
<1>1. CASE node' = node
  BY <1>1
<1>2. CASE ClockTick
  BY <1>2, ClockTickGood
<1>3. CASE \E e \in BOOLEAN : BladeEvent(e)
  BY <1>3, BladeEventGood
<1>4. ASSUME NEW svc \in Services,
             \/ \E f \in BOOLEAN : CommandVelocity(f, svc)
             \/ Timer(svc)
             \/ \E e \in BOOLEAN : MowerOff(svc, e)
             \/ \E e, a \in BOOLEAN : SessionAnswer(a, svc, e)
             \/ \E e, a \in BOOLEAN : MowerOn(a, svc, e)
             \/ \E e \in BOOLEAN, h \in HighLevel : HighLevelStatus(h, svc, e)
             \/ \E e, c, a \in BOOLEAN, m \in Modes : MavrosState(c, a, m, svc, e)
             \/ \E p, e \in BOOLEAN : SysStatus(p, e, svc)
             \/ \E l, r \in BOOLEAN : ButtonChange(l, r, svc)
             \/ \E t \in BOOLEAN : Imu(t, svc)
             \/ EmergencyStop(svc)
             \/ \E e \in BOOLEAN : EmergencyRelease(svc, e)
      PROVE  Good(node')
  <2>1. svc \in ServiceStates
    BY <1>4, GateConstants
  <2>2. CASE \E f \in BOOLEAN : CommandVelocity(f, svc)
    BY <2>1, <2>2, CommandVelocityGood
  <2>3. CASE Timer(svc)
    BY <2>1, <2>3, TimerGood
  <2>4. CASE \E e \in BOOLEAN : MowerOff(svc, e)
    BY <2>1, <2>4, MowerOffGood
  <2>5. CASE \E e, a \in BOOLEAN : SessionAnswer(a, svc, e)
    BY <2>1, <2>5, SessionAnswerGood
  <2>6. CASE \E e, a \in BOOLEAN : MowerOn(a, svc, e)
    BY <2>1, <2>6, MowerOnGood
  <2>7. CASE \E e \in BOOLEAN, h \in HighLevel : HighLevelStatus(h, svc, e)
    BY <2>1, <2>7, HighLevelStatusGood
  <2>8. CASE \E e, c, a \in BOOLEAN, m \in Modes : MavrosState(c, a, m, svc, e)
    BY <2>1, <2>8, MavrosStateGood
  <2>9. CASE \E p, e \in BOOLEAN : SysStatus(p, e, svc)
    BY <2>1, <2>9, SysStatusGood
  <2>10. CASE \E l, r \in BOOLEAN : ButtonChange(l, r, svc)
    BY <2>1, <2>10, ButtonChangeGood
  <2>11. CASE \E t \in BOOLEAN : Imu(t, svc)
    BY <2>1, <2>11, ImuGood
  <2>12. CASE EmergencyStop(svc)
    BY <2>1, <2>12, EmergencyStopGood
  <2>13. CASE \E e \in BOOLEAN : EmergencyRelease(svc, e)
    BY <2>1, <2>13, EmergencyReleaseGood
  <2>14. QED
    BY <1>4, <2>2, <2>3, <2>4, <2>5, <2>6, <2>7, <2>8, <2>9, <2>10, <2>11, <2>12, <2>13
<1>5. QED
  BY <1>1, <1>2, <1>3, <1>4, Zenon DEF Next

LEMMA GateStart ==
  ASSUME Init
  PROVE  Good(node)
<1>1. SessionInitial \in SessionRecords
  BY SessionConstants DEF SessionInitial, SessionRecords
<1>2. SafetyInitial \in SafetyRecords
  BY DEF SafetyInitial, SafetyRecords, HardwareStates
<1>3. "Idle" \in HighLevel /\ 0 \in 0..TiltTicks
  BY GateConstants DEF HighLevel
<1>4. node \in Nodes /\ node.output = Neutral
  BY <1>1, <1>2, <1>3, GateConstants DEF Init, Nodes
<1>5. QED
  BY <1>4, NeutralGood

GateInv == Good(node)

\* What holds between handlers, whatever the FCU reports or answers, for any modes and limits.
THEOREM GateInvariance == Spec => []GateInv
<1>1. Init => GateInv
  BY GateStart DEF GateInv
<1>2. GateInv /\ [Next]_node => GateInv'
  BY GateStep DEF GateInv
<1>3. QED
  BY <1>1, <1>2, PTL DEF Spec

\* Typing of the bridge record.
THEOREM GateTypeCorrect == Spec => []TypeOK
<1>1. GateInv => TypeOK
  BY DEF GateInv, Good, TypeOK
<1>2. QED
  BY <1>1, GateInvariance, PTL

\* Velocities stand only under a confirmed session of the movement, without emergency.
THEOREM GateAlwaysHolds == Spec => []GateHolds
<1>1. GateInv => GateHolds
  <2>1. SUFFICES ASSUME Good(node), node.drove, Velocity(node)
                 PROVE  /\ Moving(node) /\ ~Emergency(node.safety)
                        /\ node.session.connected /\ node.session.armed /\ ~Pending(node.session)
                        /\ node.session.mode = IF Guided(node) THEN "GUIDED" ELSE "MANUAL"
    BY DEF GateInv, GateHolds
  <2>2. TractionReady(node) /\ node.session.mode = MoveMode(node)
    BY <2>1 DEF Good, Stands
  <2>3. QED
    BY <2>2 DEF TractionReady, Ready, MoveMode
<1>2. QED
  BY <1>1, GateInvariance, PTL

\* No velocity is left on the transport of another movement.
THEOREM GateOneTransport == Spec => []OneTransport
<1>1. GateInv => OneTransport
  BY DEF GateInv, Good, Stands, Velocity, Neutral, Placed, OneTransport
<1>2. QED
  BY <1>1, GateInvariance, PTL

-----------------------------------------------------------------------------
(* The emergency: what its causes leave behind, and what may be sent under it. *)

\* Only tilt, or what is left of one, makes the emergency.
Tilting(n) == Emergency(n.safety) /\ ~HoldEmergency(n) /\ ~BothLifted(n.safety)

Retains(n) == Tilting(n) => n.sent \subseteq {"DISARM"}

\* What a stage of a handler leaves alone: the causes, the flag of tilt, the announcement; it
\* starts no blade test, and without one it retains the mode.
Leads(n, d) ==
  /\ d \in Nodes
  /\ d.safety = n.safety /\ d.tilt_sent = n.tilt_sent /\ d.asked = n.asked
  /\ d.test => n.test
  /\ Retains(n) /\ (Tilting(n) => ~n.test) => Retains(d)

LEMMA TiltingSame ==
  ASSUME NEW n, NEW d, d.safety = n.safety
  PROVE  Tilting(d) = Tilting(n) /\ Latched(d.safety) = Latched(n.safety)
  BY DEF Tilting, HoldEmergency

LEMMA LeadsOn ==
  ASSUME NEW n, NEW m, NEW d, Leads(n, m), Leads(m, d)
  PROVE  Leads(n, d)
<1>1. Tilting(m) = Tilting(n)
  BY TiltingSame DEF Leads
<1>2. QED
  BY <1>1 DEF Leads

LEMMA LeadsSelf ==
  ASSUME NEW n \in Nodes
  PROVE  Leads(n, n)
  BY DEF Leads

LEMMA EndTestLeads ==
  ASSUME NEW n \in Nodes, NEW d, d = EndFailedBladeTest(n)
  PROVE  Leads(n, d)
<1>1. CASE ~n.test \/ Moving(n)
  BY <1>1, LeadsSelf DEF EndFailedBladeTest
<1>2. CASE ~(~n.test \/ Moving(n))
  <2>1. PICK hold \in Modes : hold = "HOLD"
    BY GateConstants
  <2>2. PICK emergency \in BOOLEAN : emergency = Emergency(n.safety)
    BY DEF Emergency
  <2>3. PICK s \in SessionRecords : s = Demand(n.session, hold, FALSE, emergency)
    <3>1. n.session \in SessionRecords
      BY DEF Nodes
    <3>2. QED
      BY <3>1, DemandType
  <2>4. d = [n EXCEPT !.test = FALSE, !.output = Neutral, !.session = s]
    BY <1>2, <2>1, <2>2, <2>3 DEF EndFailedBladeTest
  <2>5. /\ d \in Nodes /\ ~d.test /\ d.safety = n.safety /\ d.tilt_sent = n.tilt_sent
        /\ d.asked = n.asked /\ d.sent = n.sent
    BY <2>3, <2>4, GateConstants DEF Nodes
  <2>6. QED
    BY <2>5, TiltingSame DEF Leads, Retains
<1>3. QED
  BY <1>1, <1>2

LEMMA DriveBladeLeads ==
  ASSUME NEW n \in Nodes, NEW ends, NEW d, d = DriveBlade(n, ends)
  PROVE  Leads(n, d)
<1>1. d = n \/ d = EndFailedBladeTest(n)
  BY DEF DriveBlade
<1>2. QED
  BY <1>1, LeadsSelf, EndTestLeads

\* The session of a node asks for nothing but a DISARM.
Resting(s) == s.wanted_mode = s.mode /\ ~s.wanted_arm

LEMMA RestingAsksDisarm ==
  ASSUME NEW s \in SessionRecords, Resting(s), NEW m, NEW a, NEW r
  PROVE  NextCommand(s, m, a, r) \in {"none", "DISARM"}
  BY DEF NextCommand, Resting, ArmCommand

LEMMA DemandedRests ==
  ASSUME NEW n \in Nodes, NEW d, d = Demanded(n)
  PROVE  /\ Leads(n, d) /\ d.test = n.test
         /\ Tilting(n) => Resting(d.session)
<1> DEFINE arm == ~Emergency(n.safety) /\ (Moving(n) \/ n.test)
           emergency == Emergency(n.safety)
           mode == RequestedMode(n)
<1>1. arm \in BOOLEAN /\ emergency \in BOOLEAN /\ mode \in Modes /\ n.session \in SessionRecords
  BY RequestedModeType DEF Nodes, Emergency
<1>2. Tilting(n) => ~arm /\ mode = n.session.mode
  BY DEF Tilting, RequestedMode
<1> HIDE DEF arm, emergency, mode
<1>3. PICK s : s = Demand(n.session, mode, arm, emergency)
  OBVIOUS
<1>4. /\ s \in SessionRecords /\ s.wanted_mode = mode /\ s.wanted_arm = arm
      /\ s.mode = n.session.mode
  BY <1>1, <1>3, DemandFields
<1>5. PICK t : t = Ticked(s)
  OBVIOUS
<1>6. /\ t \in SessionRecords /\ t.wanted_mode = mode /\ t.wanted_arm = arm
      /\ t.mode = n.session.mode
  BY <1>4, <1>5, TickedFields DEF SameTarget
<1>7. d = [n EXCEPT !.session = t]
  BY <1>3, <1>5 DEF Demanded, arm, emergency, mode
<1>8. /\ d \in Nodes /\ d.session = t /\ d.safety = n.safety /\ d.tilt_sent = n.tilt_sent
      /\ d.asked = n.asked /\ d.sent = n.sent /\ d.test = n.test
  BY <1>6, <1>7 DEF Nodes
<1>9. Leads(n, d)
  BY <1>8, TiltingSame DEF Leads, Retains
<1>10. Tilting(n) => Resting(d.session)
  BY <1>2, <1>6, <1>8 DEF Resting
<1>11. QED
  BY <1>8, <1>9, <1>10

LEMMA GatedLeads ==
  ASSUME NEW n \in Nodes, NEW d, d = Gated(n)
  PROVE  Leads(n, d) /\ d.session = n.session /\ d.test = n.test
<1>1. PICK ready \in BOOLEAN : ready = TractionReady(n)
  BY DEF TractionReady
<1>2. PICK output \in Outputs : output = IF n.was_ready /\ ~ready THEN Neutral ELSE n.output
  BY GateConstants DEF Nodes
<1>3. d = [n EXCEPT !.was_ready = ready, !.output = output]
  BY <1>1, <1>2 DEF Gated
<1>4. /\ d \in Nodes /\ d.session = n.session /\ d.safety = n.safety
      /\ d.tilt_sent = n.tilt_sent /\ d.asked = n.asked /\ d.sent = n.sent /\ d.test = n.test
  BY <1>3 DEF Nodes
<1>5. QED
  BY <1>4, TiltingSame DEF Leads, Retains

LEMMA CommandedLeads ==
  ASSUME NEW n \in Nodes, Tilting(n) => Resting(n.session), NEW svc \in ServiceStates,
         NEW d, d = Commanded(n, svc)
  PROVE  Leads(n, d)
<1> DEFINE allow == ~Emergency(n.safety) /\ n.safety.hardware = "Released"
<1>1. n.session \in SessionRecords
  BY DEF Nodes
<1>2. svc.mode \in BOOLEAN /\ svc.arm \in BOOLEAN /\ allow \in BOOLEAN
  BY DEF ServiceStates
<1>3. PICK c : c = NextCommand(n.session, svc.mode, svc.arm, allow)
  OBVIOUS
<1>4. Tilting(n) => c \in {"none", "DISARM"}
  BY <1>1, <1>3, RestingAsksDisarm
<1> HIDE DEF allow
<1>5. c \in Commands \cup {"none"}
  BY <1>1, <1>2, <1>3, NextCommandType
<1>6. CASE c = "none"
  <2>1. d = [n EXCEPT !.drove = TRUE]
    BY <1>3, <1>6 DEF Commanded, allow
  <2>2. /\ d \in Nodes /\ d.safety = n.safety /\ d.tilt_sent = n.tilt_sent
        /\ d.asked = n.asked /\ d.sent = n.sent /\ d.test = n.test
    BY <2>1 DEF Nodes
  <2>3. QED
    BY <2>2, TiltingSame DEF Leads, Retains
<1>7. CASE c # "none"
  <2>1. c \in Commands
    BY <1>5, <1>7
  <2>2. PICK emitted \in SessionRecords : emitted = Emitted(n.session, c, 1)
    BY <1>1, <2>1, GateConstants, EmittedType
  <2>3. PICK s \in SessionRecords : s = IF svc.throw THEN Completed(emitted, 1, FALSE) ELSE emitted
    BY <2>2, CompletedType
  <2>4. PICK sent \in SUBSET Commands : sent = n.sent \cup {c}
    BY <2>1 DEF Nodes
  <2>5. PICK output \in Outputs : output = IF c = "ARM" THEN Neutral ELSE n.output
    BY GateConstants DEF Nodes
  <2>6. Sent(n, c, svc.throw) = [n EXCEPT !.sent = sent, !.output = output, !.session = s]
    BY <2>2, <2>3, <2>4, <2>5 DEF Sent
  <2>7. d = [n EXCEPT !.sent = sent, !.output = output, !.session = s, !.drove = TRUE]
    BY <1>3, <1>7, <2>6 DEF Commanded, allow
  <2>8. /\ d \in Nodes /\ d.safety = n.safety /\ d.tilt_sent = n.tilt_sent
        /\ d.asked = n.asked /\ d.test = n.test /\ d.sent = n.sent \cup {c}
    BY <2>4, <2>7 DEF Nodes
  <2>9. Retains(n) => Retains(d)
    BY <1>4, <1>7, <2>8, TiltingSame DEF Retains
  <2>10. QED
    BY <2>8, <2>9 DEF Leads
<1>8. QED
  BY <1>6, <1>7

\* Under tilt alone no test runs that the drive could end.
LEMMA DriveSessionLeads ==
  ASSUME NEW n \in Nodes, Tilting(n) => ~n.test, NEW svc \in ServiceStates,
         NEW d, d = DriveSession(n, svc)
  PROVE  Leads(n, d)
<1>1. PICK m : m = Demanded(n)
  OBVIOUS
<1>2. Leads(n, m) /\ m.test = n.test /\ (Tilting(n) => Resting(m.session)) /\ m \in Nodes
  BY <1>1, DemandedRests DEF Leads
<1>3. PICK g : g = Gated(m)
  OBVIOUS
<1>4. Leads(m, g) /\ g.session = m.session /\ g.test = m.test /\ g \in Nodes
  BY <1>2, <1>3, GatedLeads DEF Leads
<1>5. Leads(n, g)
  BY <1>2, <1>4, LeadsOn
<1>6. PICK a : a = Alive(g)
  OBVIOUS
<1>7. Leads(g, a)
  BY <1>4, <1>6, LeadsSelf, EndTestLeads DEF Alive
<1>8. Tilting(n) => a = g
  BY <1>2, <1>4, <1>6 DEF Alive, EndFailedBladeTest
<1>9. Leads(n, a) /\ a \in Nodes
  BY <1>5, <1>7, LeadsOn DEF Leads
<1>10. Tilting(a) => Resting(a.session)
  <2>1. Tilting(a) = Tilting(n)
    BY <1>9, TiltingSame DEF Leads
  <2>2. QED
    BY <1>2, <1>4, <1>8, <2>1
<1>11. d = Commanded(a, svc)
  BY <1>1, <1>3, <1>6 DEF DriveSession
<1>12. Leads(a, d)
  BY <1>9, <1>10, <1>11, CommandedLeads
<1>13. QED
  BY <1>9, <1>12, LeadsOn

\* What the causes of an emergency leave in the latches.
Latches(s) ==
  /\ s.service => s.service_latched
  /\ s.tilt => s.tilt_latched
  /\ s.hardware_latched = (s.hardware = "Engaged")

\* What holds of the causes between handlers: they are latched, the flag of tilt is no older
\* than the tilt, and what is latched has ended the blade test.
Causal(n) ==
  /\ n \in Nodes /\ Latches(n.safety)
  /\ n.tilt_sent = n.safety.tilt
  /\ Latched(n.safety) => ~n.test
  /\ Retains(n)

Onset(before, after) == ~Emergency(before) /\ Emergency(after) /\ ~BothLifted(after)

\* What a handler that starts with n ends with.
Follows(n, d) == Causal(d) /\ (Onset(n.safety, d.safety) => d.asked)

LEMMA LatchesKept ==
  ASSUME NEW s \in SafetyRecords, Latches(s), NEW a \in BOOLEAN, NEW b \in BOOLEAN
  PROVE  /\ Latches(ObserveMotorOutputs(s, a, b))
         /\ Latches(ObserveButtons(s, a, b))
         /\ Latches(SetServiceEmergency(s, a))
         /\ Latches(ObserveTilt(s, a))
         /\ Latches(Disconnected(s))
         /\ ~s.service => Latches(ClearReleasedLatches(s))
<1>1. Latches(ObserveMotorOutputs(s, a, b))
  BY DEF Latches, ObserveMotorOutputs, SafetyRecords
<1>2. Latches(ObserveButtons(s, a, b)) /\ Latches(SetServiceEmergency(s, a))
  BY DEF Latches, ObserveButtons, SetServiceEmergency, SafetyRecords
<1>3. Latches(ObserveTilt(s, a))
  BY DEF Latches, ObserveTilt, SafetyRecords
<1>4. Latches(Disconnected(s))
  BY DEF Latches, Disconnected, SafetyRecords
<1>5. ~s.service => Latches(ClearReleasedLatches(s))
  BY DEF Latches, ClearReleasedLatches, SafetyRecords
<1>6. QED
  BY <1>1, <1>2, <1>3, <1>4, <1>5

\* Without the wheels every emergency is latched.
LEMMA EmergencyLatched ==
  ASSUME NEW s \in SafetyRecords, Latches(s), Emergency(s), ~BothLifted(s)
  PROVE  Latched(s)
  BY DEF Latches, Emergency, Active, Latched

LEMMA TiltingEndsTest ==
  ASSUME NEW n, Causal(n), Tilting(n)
  PROVE  ~n.test
<1>1. n.safety \in SafetyRecords
  BY DEF Causal, Nodes
<1>2. QED
  BY <1>1, EmergencyLatched DEF Causal, Tilting

LEMMA CausalLeads ==
  ASSUME NEW n, Causal(n), NEW d, Leads(n, d)
  PROVE  Causal(d)
<1>1. Tilting(n) => ~n.test
  BY TiltingEndsTest
<1>2. Latched(d.safety) = Latched(n.safety)
  BY TiltingSame DEF Leads
<1>3. QED
  BY <1>1, <1>2 DEF Causal, Leads

\* The two drives, whatever the order.
LEMMA DrivesCausal ==
  ASSUME NEW n, Causal(n), NEW svc \in ServiceStates, NEW ends, NEW d,
         \/ d = DriveSession(n, svc)
         \/ d = DriveBlade(n, ends)
         \/ d = EndFailedBladeTest(n)
  PROVE  Causal(d) /\ d.safety = n.safety /\ d.asked = n.asked
<1>1. n \in Nodes /\ (Tilting(n) => ~n.test)
  BY TiltingEndsTest DEF Causal
<1>2. Leads(n, d)
  BY <1>1, DriveSessionLeads, DriveBladeLeads, EndTestLeads
<1>3. QED
  BY <1>2, CausalLeads DEF Leads

LEMMA HandledCausal ==
  ASSUME NEW n, Causal(n), NEW svc \in ServiceStates, NEW ends,
         NEW d, d = DriveBlade(DriveSession(n, svc), ends)
  PROVE  Causal(d) /\ d.safety = n.safety /\ d.asked = n.asked
<1>1. PICK m : m = DriveSession(n, svc)
  OBVIOUS
<1>2. Causal(m) /\ m.safety = n.safety /\ m.asked = n.asked
  BY <1>1, DrivesCausal
<1>3. d = DriveBlade(m, ends)
  BY <1>1
<1>4. Causal(d) /\ d.safety = m.safety /\ d.asked = m.asked
  BY <1>2, <1>3, DrivesCausal
<1>5. QED
  BY <1>2, <1>4

\* An announced emergency: what it finds of a test ends with it.
LEMMA SafetyDisarmCausal ==
  ASSUME NEW n \in Nodes, Latches(n.safety), n.tilt_sent = n.safety.tilt, n.sent = {},
         NEW hold \in BOOLEAN, NEW svc \in ServiceStates, NEW d, d = SafetyDisarm(n, hold, svc)
  PROVE  Causal(d) /\ d.asked
<1>1. PICK mode \in Modes : mode = IF hold THEN "HOLD" ELSE n.session.mode
  <2>1. n.session.mode \in Modes
    BY DEF Nodes, SessionRecords
  <2>2. QED
    BY <2>1, GateConstants
<1>2. PICK s \in SessionRecords : s = Demand(n.session, mode, FALSE, TRUE)
  <2>1. n.session \in SessionRecords
    BY DEF Nodes
  <2>2. QED
    BY <2>1, DemandType
<1>3. PICK off : off = [n EXCEPT !.asked = TRUE, !.test = FALSE, !.output = Neutral, !.session = s]
  OBVIOUS
<1>4. /\ off \in Nodes /\ off.safety = n.safety /\ off.tilt_sent = n.tilt_sent
      /\ off.asked /\ ~off.test /\ off.sent = {}
  BY <1>3, GateConstants DEF Nodes
<1>5. Causal(off)
  BY <1>4 DEF Causal, Retains
<1>6. PICK b : b = DriveBlade(off, TRUE)
  OBVIOUS
<1>7. Causal(b) /\ b.asked = off.asked
  BY <1>5, <1>6, DrivesCausal
<1>8. d = DriveSession(b, svc)
  BY <1>1, <1>2, <1>3, <1>6 DEF SafetyDisarm
<1>9. Causal(d) /\ d.asked = b.asked
  BY <1>7, <1>8, DrivesCausal
<1>10. QED
  BY <1>4, <1>7, <1>9

-----------------------------------------------------------------------------
(* The handlers again. *)

LEMMA FreshCausal ==
  ASSUME Causal(node)
  PROVE  /\ Causal(Fresh) /\ Fresh \in Nodes /\ Fresh.sent = {} /\ ~Fresh.asked
         /\ Fresh.safety = node.safety /\ Fresh.test = node.test
         /\ Fresh.tilt_sent = node.tilt_sent /\ Fresh.session = node.session
<1>1. node \in Nodes
  BY DEF Causal
<1>2. /\ Fresh \in Nodes /\ Fresh.sent = {} /\ ~Fresh.asked
      /\ Fresh.safety = node.safety /\ Fresh.test = node.test
      /\ Fresh.tilt_sent = node.tilt_sent /\ Fresh.session = node.session
  BY <1>1 DEF Fresh, Nodes
<1>3. QED
  BY <1>2 DEF Causal, Retains

\* Where the causes are as before, nothing begins.
LEMMA SameSafety ==
  ASSUME Causal(node), NEW d, Causal(d), d.safety = node.safety
  PROVE  Follows(node, d)
  BY DEF Follows, Onset

\* A record that differs from Fresh in what the causes do not depend on.
LEMMA CausalFrom ==
  ASSUME Causal(node), NEW r \in Nodes, r.safety = node.safety,
         r.tilt_sent = node.tilt_sent, r.test => node.test, r.sent = {}
  PROVE  Causal(r)
  BY DEF Causal, Retains

LEMMA TimerCausal ==
  ASSUME Causal(node), NEW svc \in ServiceStates, Timer(svc)
  PROVE  Follows(node, node')
<1>1. PICK ends \in BOOLEAN : node' = DriveBlade(DriveSession(Fresh, svc), ends)
  BY Zenon DEF Timer, DriveSession
<1>2. Causal(node') /\ node'.safety = node.safety
  BY <1>1, FreshCausal, HandledCausal
<1>3. QED
  BY <1>2, SameSafety

LEMMA SessionAnswerCausal ==
  ASSUME Causal(node), NEW svc \in ServiceStates, NEW ends \in BOOLEAN, NEW accepted \in BOOLEAN,
         SessionAnswer(accepted, svc, ends)
  PROVE  Follows(node, node')
<1>1. PICK s : s = Completed(Fresh.session, Fresh.session.pending.serial, accepted)
  OBVIOUS
<1>2. s \in SessionRecords
  BY <1>1, FreshCausal, CompletedType DEF Nodes
<1>3. PICK r : r = [Fresh EXCEPT !.session = s]
  OBVIOUS
<1>4. /\ r \in Nodes /\ r.safety = node.safety /\ r.tilt_sent = node.tilt_sent
      /\ r.test = node.test /\ r.sent = {}
  BY <1>2, <1>3, FreshCausal DEF Nodes
<1>5. node' = DriveBlade(DriveSession(r, svc), ends)
  BY <1>1, <1>3 DEF SessionAnswer
<1>6. Causal(r)
  BY <1>4, CausalFrom
<1>7. Causal(node') /\ node'.safety = node.safety
  BY <1>4, <1>5, <1>6, HandledCausal
<1>8. QED
  BY <1>7, SameSafety

LEMMA CommandVelocityCausal ==
  ASSUME Causal(node), NEW svc \in ServiceStates, NEW finite \in BOOLEAN,
         CommandVelocity(finite, svc)
  PROVE  Follows(node, node')
<1>1. PICK d : d = DriveSession(Fresh, svc)
  OBVIOUS
<1>2. Causal(d) /\ d.safety = node.safety /\ d \in Nodes
  BY <1>1, FreshCausal, DrivesCausal DEF Causal
<1>3. PICK output \in Outputs :
        node' = d \/ node' = [d EXCEPT !.output = output]
  <2>1. node' = d \/ node' = Forwarded(d)
    BY <1>1, Zenon DEF CommandVelocity
  <2>2. d.output \in Outputs
    BY <1>2 DEF Nodes
  <2>3. CASE node' = d
    BY <2>2, <2>3
  <2>4. CASE node' = Forwarded(d) /\ ~TractionReady(d)
    BY <2>4, GateConstants DEF Forwarded
  <2>5. CASE node' = Forwarded(d) /\ TractionReady(d) /\ Guided(d)
    <3>1. [d.output EXCEPT !.guided = TRUE] \in Outputs
      BY <2>2 DEF Outputs
    <3>2. node' = [d EXCEPT !.output = [d.output EXCEPT !.guided = TRUE]]
      BY <2>5 DEF Forwarded
    <3>3. QED
      BY <3>1, <3>2
  <2>6. CASE node' = Forwarded(d) /\ TractionReady(d) /\ ~Guided(d)
    <3>1. [d.output EXCEPT !.manual = TRUE] \in Outputs
      BY <2>2 DEF Outputs
    <3>2. node' = [d EXCEPT !.output = [d.output EXCEPT !.manual = TRUE]]
      BY <2>6 DEF Forwarded
    <3>3. QED
      BY <3>1, <3>2
  <2>7. QED
    BY <2>1, <2>3, <2>4, <2>5, <2>6
<1>4. /\ node' \in Nodes /\ node'.safety = d.safety /\ node'.tilt_sent = d.tilt_sent
      /\ node'.test = d.test /\ node'.sent = d.sent
  BY <1>2, <1>3 DEF Nodes
<1>5. Causal(node')
  BY <1>2, <1>4, TiltingSame DEF Causal, Retains
<1>6. QED
  BY <1>2, <1>4, <1>5, SameSafety

LEMMA HighLevelStatusCausal ==
  ASSUME Causal(node), NEW svc \in ServiceStates, NEW ends \in BOOLEAN, NEW state \in HighLevel,
         HighLevelStatus(state, svc, ends)
  PROVE  Follows(node, node')
<1>1. PICK status : status = [Fresh EXCEPT !.state = state]
  OBVIOUS
<1>2. /\ status \in Nodes /\ status.safety = node.safety /\ status.tilt_sent = node.tilt_sent
      /\ status.test = node.test /\ status.sent = {}
  BY <1>1, FreshCausal DEF Nodes
<1>3. PICK stopped : stopped = [status EXCEPT !.test = FALSE, !.output = Neutral]
  OBVIOUS
<1>4. /\ stopped \in Nodes /\ stopped.safety = node.safety /\ ~stopped.test
      /\ stopped.tilt_sent = node.tilt_sent /\ stopped.sent = {}
  BY <1>2, <1>3, GateConstants DEF Nodes
<1>5. Causal(status) /\ Causal(stopped)
  BY <1>2, <1>4, CausalFrom
<1>6. PICK left : left = IF Moving(node) /\ ~Moving(status) THEN DriveBlade(stopped, ends) ELSE status
  OBVIOUS
<1>7. Causal(left) /\ left.safety = node.safety
  <2>1. CASE left = status
    BY <1>2, <1>5, <2>1
  <2>2. CASE left = DriveBlade(stopped, ends)
    BY <1>4, <1>5, <2>2, DrivesCausal
  <2>3. QED
    BY <1>6, <2>1, <2>2
<1>8. node' = DriveBlade(DriveSession(left, svc), ends)
  BY <1>1, <1>3, <1>6 DEF HighLevelStatus
<1>9. Causal(node') /\ node'.safety = node.safety
  BY <1>7, <1>8, HandledCausal
<1>10. QED
  BY <1>9, SameSafety

LEMMA MavrosStateCausal ==
  ASSUME Causal(node), NEW svc \in ServiceStates, NEW ends \in BOOLEAN, NEW connected \in BOOLEAN,
         NEW armed \in BOOLEAN, NEW mode \in Modes, MavrosState(connected, armed, mode, svc, ends)
  PROVE  Follows(node, node')
<1>1. node.session \in SessionRecords /\ node.safety \in SafetyRecords /\ Latches(node.safety)
  BY DEF Causal, Nodes
<1>2. PICK s \in SessionRecords : s = Observe(Fresh.session, connected, armed, mode)
  BY <1>1, ObserveType, FreshCausal
<1>3. PICK f \in SafetyRecords : f = IF connected THEN Fresh.safety ELSE Disconnected(Fresh.safety)
  BY <1>1, SafetyTypes, FreshCausal
<1>4. Latches(f) /\ f.tilt = node.safety.tilt /\ (Latched(f) => Latched(node.safety))
  <2>1. CASE f = node.safety
    BY <1>1, <2>1
  <2>2. CASE f = Disconnected(node.safety)
    <3>1. Latches(f)
      BY <1>1, <2>2, LatchesKept
    <3>2. f.tilt = node.safety.tilt /\ (Latched(f) => Latched(node.safety))
      BY <1>1, <2>2 DEF Disconnected, SafetyRecords, Latched
    <3>3. QED
      BY <3>1, <3>2
  <2>3. QED
    BY <1>3, <2>1, <2>2, FreshCausal
<1>5. PICK r : r = [Fresh EXCEPT !.safety = f, !.session = s]
  OBVIOUS
<1>6. /\ r \in Nodes /\ r.safety = f /\ r.tilt_sent = node.tilt_sent /\ r.test = node.test
      /\ r.sent = {}
  BY <1>5, FreshCausal DEF Nodes
<1>7. Causal(r)
  BY <1>4, <1>6 DEF Causal, Retains
<1>8. node' = DriveBlade(DriveSession(r, svc), ends)
  BY <1>2, <1>3, <1>5 DEF MavrosState
<1>9. Causal(node') /\ node'.safety = f
  BY <1>6, <1>7, <1>8, HandledCausal
<1>10. ~Onset(node.safety, f)
  BY <1>3, <1>4, EmergencyLatched DEF Onset, Emergency
<1>11. QED
  BY <1>9, <1>10 DEF Follows

LEMMA SysStatusCausal ==
  ASSUME Causal(node), NEW svc \in ServiceStates, NEW present \in BOOLEAN, NEW enabled \in BOOLEAN,
         SysStatus(present, enabled, svc)
  PROVE  Follows(node, node')
<1>1. node.safety \in SafetyRecords /\ Latches(node.safety)
  BY DEF Causal, Nodes
<1>2. PICK f \in SafetyRecords : f = ObserveMotorOutputs(node.safety, present, enabled)
  BY <1>1, SafetyTypes
<1>3. /\ Latches(f) /\ f.tilt = node.safety.tilt
      /\ f.service_latched = node.safety.service_latched
      /\ f.tilt_latched = node.safety.tilt_latched
  <2>1. Latches(f)
    BY <1>1, <1>2, LatchesKept
  <2>2. QED
    BY <1>1, <1>2, <2>1 DEF ObserveMotorOutputs, SafetyRecords
<1>4. PICK seen : seen = [Fresh EXCEPT !.safety = f]
  OBVIOUS
<1>5. /\ seen \in Nodes /\ seen.safety = f /\ seen.tilt_sent = f.tilt
      /\ seen.test = node.test /\ seen.sent = {}
  BY <1>3, <1>4, FreshCausal DEF Nodes, Causal
<1>6. CASE Engages(node.safety, f)
  <2>1. PICK hold \in BOOLEAN : hold = TRUE
    OBVIOUS
  <2>2. node' = SafetyDisarm(seen, hold, svc)
    BY <1>2, <1>4, <1>6, <2>1 DEF SysStatus
  <2>3. Causal(node') /\ node'.asked
    BY <1>3, <1>5, <2>2, SafetyDisarmCausal
  <2>4. QED
    BY <2>3 DEF Follows
<1>7. CASE ~Engages(node.safety, f)
  <2>1. node' = seen
    BY <1>2, <1>4, <1>7 DEF SysStatus
  <2>2. Latched(f) => Latched(node.safety)
    BY <1>3, <1>7 DEF Latched, Engages, Latches
  <2>3. Causal(seen)
    BY <1>3, <1>5, <2>2 DEF Causal, Retains
  <2>4. ~Onset(node.safety, f)
    BY <1>3, <2>2, EmergencyLatched DEF Onset, Emergency
  <2>5. QED
    BY <1>5, <2>1, <2>3, <2>4 DEF Follows
<1>8. QED
  BY <1>6, <1>7

LEMMA ButtonChangeCausal ==
  ASSUME Causal(node), NEW svc \in ServiceStates, NEW left \in BOOLEAN, NEW right \in BOOLEAN,
         ButtonChange(left, right, svc)
  PROVE  Follows(node, node')
<1>1. node.safety \in SafetyRecords /\ Latches(node.safety)
  BY DEF Causal, Nodes
<1>2. PICK f \in SafetyRecords : f = ObserveButtons(node.safety, left, right)
  BY <1>1, SafetyTypes
<1>3. Latches(f) /\ f.tilt = node.safety.tilt /\ Latched(f) = Latched(node.safety)
  <2>1. Latches(f)
    BY <1>1, <1>2, LatchesKept
  <2>2. f.tilt = node.safety.tilt /\ Latched(f) = Latched(node.safety)
    BY <1>1, <1>2 DEF ObserveButtons, SafetyRecords, Latched
  <2>3. QED
    BY <2>1, <2>2
<1>4. PICK both \in BOOLEAN : both = (left /\ right)
  OBVIOUS
<1>5. PICK seen : seen = [Fresh EXCEPT !.safety = f, !.lift_sent = both]
  OBVIOUS
<1>6. /\ seen \in Nodes /\ seen.safety = f /\ seen.tilt_sent = f.tilt
      /\ seen.test = node.test /\ seen.sent = {}
  BY <1>3, <1>5, FreshCausal DEF Nodes, Causal
<1>7. PICK hold \in BOOLEAN : hold = FALSE
  OBVIOUS
<1>8. node' = SafetyDisarm(seen, hold, svc) \/ node' = seen
  BY <1>2, <1>4, <1>5, <1>7 DEF ButtonChange
<1>9. CASE node' = SafetyDisarm(seen, hold, svc)
  <2>1. Causal(node') /\ node'.asked
    BY <1>3, <1>6, <1>9, SafetyDisarmCausal
  <2>2. QED
    BY <2>1 DEF Follows
<1>10. CASE node' = seen
  <2>1. Causal(seen)
    BY <1>3, <1>6 DEF Causal, Retains
  <2>2. ~Onset(node.safety, f)
    BY <1>3, EmergencyLatched DEF Onset, Emergency
  <2>3. QED
    BY <1>6, <1>10, <2>1, <2>2 DEF Follows
<1>11. QED
  BY <1>8, <1>9, <1>10

\* The flag of tilt is that of the tilt, so the first report is never swallowed.
LEMMA ImuCausal ==
  ASSUME Causal(node), NEW svc \in ServiceStates, NEW tilted \in BOOLEAN, Imu(tilted, svc)
  PROVE  Follows(node, node')
<1>1. /\ node.safety \in SafetyRecords /\ Latches(node.safety) /\ Fresh.safety = node.safety
      /\ Fresh.tilt_age \in 0..TiltTicks
  BY FreshCausal DEF Causal, Nodes
<1>2. PICK active \in BOOLEAN : active = (tilted /\ node.tilt_age >= TiltTicks)
  OBVIOUS
<1>3. PICK f \in SafetyRecords : f = ObserveTilt(Fresh.safety, active)
  BY <1>1, SafetyTypes
<1>4. Latches(f) /\ f.tilt = active /\ (~active => (Latched(f) => Latched(node.safety)))
  <2>1. Latches(f)
    BY <1>1, <1>3, LatchesKept
  <2>2. f.tilt = active /\ (~active => (Latched(f) => Latched(node.safety)))
    BY <1>1, <1>3 DEF ObserveTilt, SafetyRecords, Latched
  <2>3. QED
    BY <2>1, <2>2
<1>5. PICK age \in 0..TiltTicks : age = IF tilted THEN Fresh.tilt_age ELSE 0
  <2>1. 0 \in 0..TiltTicks
    BY GateConstants
  <2>2. QED
    BY <1>1, <2>1
<1>6. PICK seen : seen = [Fresh EXCEPT !.tilted = tilted, !.tilt_age = age,
                                       !.safety = f, !.tilt_sent = active]
  OBVIOUS
<1>7. /\ seen \in Nodes /\ seen.safety = f /\ seen.tilt_sent = f.tilt
      /\ seen.test = node.test /\ seen.sent = {}
  BY <1>4, <1>6, FreshCausal DEF Nodes
<1>8. CASE active /\ ~node.tilt_sent
  <2>1. PICK hold \in BOOLEAN : hold = FALSE
    OBVIOUS
  <2>2. node' = SafetyDisarm(seen, hold, svc)
    BY <1>2, <1>3, <1>5, <1>6, <1>8, <2>1 DEF Imu
  <2>3. Causal(node') /\ node'.asked
    BY <1>4, <1>7, <2>2, SafetyDisarmCausal
  <2>4. QED
    BY <2>3 DEF Follows
<1>9. CASE ~(active /\ ~node.tilt_sent)
  <2>1. node' = seen
    BY <1>2, <1>3, <1>5, <1>6, <1>9 DEF Imu
  <2>2. Latched(f) => Latched(node.safety)
    <3>1. CASE active
      BY <1>9, <3>1 DEF Causal, Latches, Latched
    <3>2. CASE ~active
      BY <1>4, <3>2
    <3>3. QED
      BY <3>1, <3>2
  <2>3. Causal(seen)
    BY <1>4, <1>7, <2>2 DEF Causal, Retains
  <2>4. ~Onset(node.safety, f)
    BY <1>4, <2>2, EmergencyLatched DEF Onset, Emergency
  <2>5. QED
    BY <1>7, <2>1, <2>3, <2>4 DEF Follows
<1>10. QED
  BY <1>8, <1>9

LEMMA EmergencyStopCausal ==
  ASSUME Causal(node), NEW svc \in ServiceStates, EmergencyStop(svc)
  PROVE  Follows(node, node')
<1>1. node.safety \in SafetyRecords /\ Latches(node.safety) /\ Fresh.safety = node.safety
  BY FreshCausal DEF Causal, Nodes
<1>2. PICK on \in BOOLEAN : on = TRUE
  OBVIOUS
<1>3. PICK f \in SafetyRecords : f = SetServiceEmergency(Fresh.safety, on)
  BY <1>1, SafetyTypes
<1>4. Latches(f) /\ f.tilt = node.safety.tilt
  <2>1. Latches(f)
    BY <1>1, <1>3, LatchesKept
  <2>2. QED
    BY <1>1, <1>3, <2>1 DEF SetServiceEmergency, SafetyRecords
<1>5. PICK r : r = [Fresh EXCEPT !.safety = f]
  OBVIOUS
<1>6. r \in Nodes /\ r.safety = f /\ r.tilt_sent = f.tilt /\ r.sent = {}
  BY <1>4, <1>5, FreshCausal DEF Nodes, Causal
<1>7. node' = SafetyDisarm(r, on, svc)
  BY <1>2, <1>3, <1>5 DEF EmergencyStop
<1>8. Causal(node') /\ node'.asked
  BY <1>4, <1>6, <1>7, SafetyDisarmCausal
<1>9. QED
  BY <1>8 DEF Follows

LEMMA EmergencyReleaseCausal ==
  ASSUME Causal(node), NEW svc \in ServiceStates, NEW ends \in BOOLEAN, EmergencyRelease(svc, ends)
  PROVE  Follows(node, node')
<1>1. node.safety \in SafetyRecords /\ Latches(node.safety) /\ Fresh.safety = node.safety
  BY FreshCausal DEF Causal, Nodes
<1>2. PICK on \in BOOLEAN : on = FALSE
  OBVIOUS
<1>3. PICK f \in SafetyRecords : f = SetServiceEmergency(Fresh.safety, on)
  BY <1>1, SafetyTypes
<1>4. PICK g \in SafetyRecords : g = ClearReleasedLatches(f)
  BY SafetyTypes
<1>5. Latches(g)
  <2>1. Latches(f) /\ ~f.service
    <3>1. Latches(f)
      BY <1>1, <1>3, LatchesKept
    <3>2. QED
      BY <1>1, <1>2, <1>3, <3>1 DEF SetServiceEmergency, SafetyRecords
  <2>2. QED
    BY <1>4, <2>1, LatchesKept
<1>6. g.tilt = node.safety.tilt /\ (Latched(g) => Latched(node.safety))
  <2>1. /\ f.tilt = node.safety.tilt /\ f.tilt_latched = node.safety.tilt_latched
        /\ f.hardware = node.safety.hardware /\ f.hardware_latched = node.safety.hardware_latched
    BY <1>1, <1>3 DEF SetServiceEmergency, SafetyRecords
  <2>2. /\ g.tilt = f.tilt /\ (g.tilt_latched => f.tilt_latched) /\ ~g.service_latched
        /\ g.hardware = f.hardware /\ g.hardware_latched = f.hardware_latched
    BY <1>4 DEF ClearReleasedLatches, SafetyRecords
  <2>3. QED
    BY <2>1, <2>2 DEF Latched
<1>7. PICK r : r = [Fresh EXCEPT !.safety = g]
  OBVIOUS
<1>8. /\ r \in Nodes /\ r.safety = g /\ r.tilt_sent = g.tilt /\ r.test = node.test
      /\ r.sent = {}
  BY <1>6, <1>7, FreshCausal DEF Nodes, Causal
<1>9. Causal(r)
  BY <1>5, <1>6, <1>8 DEF Causal, Retains
<1>10. node' = DriveBlade(DriveSession(r, svc), ends)
  BY <1>2, <1>3, <1>4, <1>7 DEF EmergencyRelease
<1>11. Causal(node') /\ node'.safety = g
  BY <1>8, <1>9, <1>10, HandledCausal
<1>12. ~Onset(node.safety, g)
  BY <1>5, <1>6, EmergencyLatched DEF Onset, Emergency
<1>13. QED
  BY <1>11, <1>12 DEF Follows

LEMMA MowerOffCausal ==
  ASSUME Causal(node), NEW svc \in ServiceStates, NEW ends \in BOOLEAN, MowerOff(svc, ends)
  PROVE  Follows(node, node')
<1>1. Fresh.session \in SessionRecords
  BY FreshCausal DEF Nodes
<1>2. PICK hold \in Modes : hold = "HOLD"
  BY GateConstants
<1>3. PICK emergency \in BOOLEAN : emergency = Emergency(node.safety)
  BY DEF Emergency
<1>4. PICK held \in SessionRecords : held = Demand(Fresh.session, hold, FALSE, emergency)
  BY <1>1, DemandType
<1>5. PICK s \in SessionRecords : s = IF Moving(node) THEN Fresh.session ELSE held
  BY <1>1
<1>6. PICK off : off = [Fresh EXCEPT !.test = FALSE, !.session = s]
  OBVIOUS
<1>7. /\ off \in Nodes /\ off.safety = node.safety /\ off.tilt_sent = node.tilt_sent
      /\ ~off.test /\ off.sent = {}
  BY <1>6, FreshCausal DEF Nodes
<1>8. Causal(off)
  BY <1>7, CausalFrom
<1>9. PICK b : b = DriveBlade(off, ends)
  OBVIOUS
<1>10. Causal(b) /\ b.safety = node.safety
  BY <1>7, <1>8, <1>9, DrivesCausal
<1>11. node' = DriveSession(b, svc)
  BY <1>2, <1>3, <1>4, <1>5, <1>6, <1>9 DEF MowerOff
<1>12. Causal(node') /\ node'.safety = node.safety
  BY <1>10, <1>11, DrivesCausal
<1>13. QED
  BY <1>12, SameSafety

\* A test starts without emergency only.
LEMMA MowerOnCausal ==
  ASSUME Causal(node), NEW svc \in ServiceStates, NEW ends \in BOOLEAN, NEW usable \in BOOLEAN,
         MowerOn(usable, svc, ends)
  PROVE  Follows(node, node')
<1>1. PICK driven : driven = DriveBlade(DriveSession(Fresh, svc), ends)
  OBVIOUS
<1>2. Causal(driven) /\ driven.safety = node.safety /\ driven \in Nodes
  BY <1>1, FreshCausal, HandledCausal DEF Causal
<1>3. CASE node' = driven
  BY <1>2, <1>3, SameSafety
<1>4. CASE node' # driven
  <2>1. PICK r : r = IF Moving(driven) THEN driven
                     ELSE [driven EXCEPT !.test = TRUE, !.output = Neutral]
    OBVIOUS
  <2>2. PICK opened : opened = DriveSession(r, svc)
    OBVIOUS
  <2>3. /\ ~Emergency(driven.safety)
        /\ \/ node' = EndFailedBladeTest(opened)
           \/ node' = DriveBlade(opened, ends) \/ node' = opened
    BY <1>1, <1>4, <2>1, <2>2 DEF MowerOn
  <2>4. Causal(r) /\ r.safety = node.safety
    <3>1. CASE r = driven
      BY <1>2, <3>1
    <3>2. CASE r = [driven EXCEPT !.test = TRUE, !.output = Neutral]
      <4>1. /\ r \in Nodes /\ r.safety = driven.safety /\ r.tilt_sent = driven.tilt_sent
            /\ r.sent = driven.sent
        BY <1>2, <3>2, GateConstants DEF Nodes
      <4>2. ~Tilting(r) /\ ~Latched(r.safety)
        BY <2>3, <4>1 DEF Tilting, Emergency
      <4>3. QED
        BY <1>2, <4>1, <4>2 DEF Causal, Retains
    <3>3. QED
      BY <2>1, <3>1, <3>2
  <2>5. Causal(opened) /\ opened.safety = node.safety
    BY <2>2, <2>4, DrivesCausal
  <2>6. Causal(node') /\ node'.safety = node.safety
    BY <2>3, <2>5, DrivesCausal
  <2>7. QED
    BY <2>6, SameSafety
<1>5. QED
  BY <1>3, <1>4

LEMMA BladeEventCausal ==
  ASSUME Causal(node), NEW ends \in BOOLEAN, BladeEvent(ends)
  PROVE  Follows(node, node')
<1>1. node' = DriveBlade(Fresh, ends)
  BY DEF BladeEvent
<1>2. Leads(Fresh, node')
  BY <1>1, FreshCausal, DriveBladeLeads
<1>3. Causal(node') /\ node'.safety = node.safety
  BY <1>2, FreshCausal, CausalLeads DEF Leads
<1>4. QED
  BY <1>3, SameSafety

LEMMA ClockTickCausal ==
  ASSUME Causal(node), ClockTick
  PROVE  Follows(node, node')
<1>1. PICK s \in SessionRecords : s = Aged(Fresh.session)
  BY FreshCausal, AgedType DEF Nodes
<1>2. PICK age \in 0..TiltTicks :
        age = IF node.tilted /\ Fresh.tilt_age < TiltTicks THEN Fresh.tilt_age + 1
              ELSE Fresh.tilt_age
  <2>1. Fresh.tilt_age \in 0..TiltTicks /\ TiltTicks \in Nat
    BY FreshCausal, GateConstants DEF Nodes
  <2>2. QED
    BY <2>1
<1>3. node' = [Fresh EXCEPT !.session = s, !.tilt_age = age]
  BY <1>1, <1>2 DEF ClockTick
<1>4. /\ node' \in Nodes /\ node'.safety = node.safety /\ node'.tilt_sent = node.tilt_sent
      /\ node'.test = node.test /\ node'.sent = {}
  BY <1>3, FreshCausal DEF Nodes
<1>5. Causal(node')
  BY <1>4, CausalFrom
<1>6. QED
  BY <1>4, <1>5, SameSafety

-----------------------------------------------------------------------------
(* The theorems about emergencies. *)

LEMMA CausalStep ==
  ASSUME Causal(node), [Next]_node
  PROVE  Follows(node, node')
<1>1. CASE node' = node
  BY <1>1, SameSafety
<1>2. CASE ClockTick
  BY <1>2, ClockTickCausal
<1>3. CASE \E e \in BOOLEAN : BladeEvent(e)
  BY <1>3, BladeEventCausal
<1>4. ASSUME NEW svc \in Services,
             \/ \E f \in BOOLEAN : CommandVelocity(f, svc)
             \/ Timer(svc)
             \/ \E e \in BOOLEAN : MowerOff(svc, e)
             \/ \E e, a \in BOOLEAN : SessionAnswer(a, svc, e)
             \/ \E e, a \in BOOLEAN : MowerOn(a, svc, e)
             \/ \E e \in BOOLEAN, h \in HighLevel : HighLevelStatus(h, svc, e)
             \/ \E e, c, a \in BOOLEAN, m \in Modes : MavrosState(c, a, m, svc, e)
             \/ \E p, e \in BOOLEAN : SysStatus(p, e, svc)
             \/ \E l, r \in BOOLEAN : ButtonChange(l, r, svc)
             \/ \E t \in BOOLEAN : Imu(t, svc)
             \/ EmergencyStop(svc)
             \/ \E e \in BOOLEAN : EmergencyRelease(svc, e)
      PROVE  Follows(node, node')
  <2>1. svc \in ServiceStates
    BY <1>4, GateConstants
  <2>2. CASE \E f \in BOOLEAN : CommandVelocity(f, svc)
    BY <2>1, <2>2, CommandVelocityCausal
  <2>3. CASE Timer(svc)
    BY <2>1, <2>3, TimerCausal
  <2>4. CASE \E e \in BOOLEAN : MowerOff(svc, e)
    BY <2>1, <2>4, MowerOffCausal
  <2>5. CASE \E e, a \in BOOLEAN : SessionAnswer(a, svc, e)
    BY <2>1, <2>5, SessionAnswerCausal
  <2>6. CASE \E e, a \in BOOLEAN : MowerOn(a, svc, e)
    BY <2>1, <2>6, MowerOnCausal
  <2>7. CASE \E e \in BOOLEAN, h \in HighLevel : HighLevelStatus(h, svc, e)
    BY <2>1, <2>7, HighLevelStatusCausal
  <2>8. CASE \E e, c, a \in BOOLEAN, m \in Modes : MavrosState(c, a, m, svc, e)
    BY <2>1, <2>8, MavrosStateCausal
  <2>9. CASE \E p, e \in BOOLEAN : SysStatus(p, e, svc)
    BY <2>1, <2>9, SysStatusCausal
  <2>10. CASE \E l, r \in BOOLEAN : ButtonChange(l, r, svc)
    BY <2>1, <2>10, ButtonChangeCausal
  <2>11. CASE \E t \in BOOLEAN : Imu(t, svc)
    BY <2>1, <2>11, ImuCausal
  <2>12. CASE EmergencyStop(svc)
    BY <2>1, <2>12, EmergencyStopCausal
  <2>13. CASE \E e \in BOOLEAN : EmergencyRelease(svc, e)
    BY <2>1, <2>13, EmergencyReleaseCausal
  <2>14. QED
    BY <1>4, <2>2, <2>3, <2>4, <2>5, <2>6, <2>7, <2>8, <2>9, <2>10, <2>11, <2>12, <2>13
<1>5. QED
  BY <1>1, <1>2, <1>3, <1>4, Zenon DEF Next

LEMMA CausalStart ==
  ASSUME Init
  PROVE  Causal(node)
<1>1. node \in Nodes
  BY GateStart DEF Good
<1>2. node.safety = SafetyInitial /\ node.tilt_sent = FALSE /\ ~node.test /\ node.sent = {}
  BY DEF Init
<1>3. /\ node.safety.tilt = FALSE /\ node.safety.service = FALSE
      /\ node.safety.hardware = "Unknown" /\ node.safety.hardware_latched = FALSE
  BY <1>2 DEF SafetyInitial
<1>4. node.safety.hardware_latched = (node.safety.hardware = "Engaged")
  BY <1>3
<1>5. Latches(node.safety)
  BY <1>3, <1>4 DEF Latches
<1>6. Retains(node)
  BY <1>2 DEF Retains
<1>7. QED
  BY <1>1, <1>2, <1>3, <1>5, <1>6 DEF Causal

CauseInv == Causal(node)

\* What holds of causes, latches, tests and commands between handlers.
THEOREM CauseInvariance == Spec => []CauseInv
<1>1. Init => CauseInv
  BY CausalStart DEF CauseInv
<1>2. CauseInv /\ [Next]_node => CauseInv'
  BY CausalStep DEF CauseInv, Follows
<1>3. QED
  BY <1>1, <1>2, PTL DEF Spec

\* What still causes an emergency is latched, but for the wheels.
THEOREM CausesAreLatched == Spec => []LatchCovers
<1>1. CauseInv => LatchCovers
  <2>1. SUFFICES ASSUME Causal(node), Active(node.safety), ~BothLifted(node.safety)
                 PROVE  Latched(node.safety)
    BY DEF CauseInv, LatchCovers
  <2>2. node.safety \in SafetyRecords
    BY <2>1 DEF Causal, Nodes
  <2>3. QED
    BY <2>1, <2>2, EmergencyLatched DEF Causal, Emergency
<1>2. QED
  BY <1>1, CauseInvariance, PTL

\* Tilt asks the FCU for nothing but a DISARM, whatever was demanded before.
THEOREM TiltKeepsMode == Spec => []TiltRetainsMode
<1>1. CauseInv => TiltRetainsMode
  BY DEF CauseInv, Causal, Retains, Tilting, TiltRetainsMode
<1>2. QED
  BY <1>1, CauseInvariance, PTL

\* The step that makes an emergency announces it, but for the wheels.
THEOREM OnsetsAreAnnounced == Spec => OnsetAnnounced
<1>1. CauseInv /\ [Next]_node
        => [~Emergency(node.safety) /\ Emergency(node'.safety) /\ ~BothLifted(node'.safety)
              => node'.asked]_node
  BY CausalStep DEF CauseInv, Follows, Onset
<1>2. QED
  BY <1>1, CauseInvariance, PTL DEF Spec, OnsetAnnounced
=============================================================================
