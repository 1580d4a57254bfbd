------------------------- MODULE SensorChainProofs --------------------------
(***************************************************************************)
(* For all timeouts, sources and sequences: the typing of the sensor chain *)
(* and that ready means a recent position and a recent traction sample.    *)
(*                                                                         *)
(* The argument follows the two facts through the chain.  What the plugin  *)
(* holds as fresh is as old as the plugin says; what the bridge holds as   *)
(* valid was fresh in the plugin when it was sent, so that it is no older  *)
(* than the plugin's timeout and the age of the message together.          *)
(***************************************************************************)
EXTENDS SensorChain, TLAPS

-----------------------------------------------------------------------------
(* Typing of the three states. *)

LEMMA IdentifiedType ==
  ASSUME NEW a \in Adapters, NEW incarnation \in Incarnations
  PROVE  /\ Identified(a, incarnation) \in Adapters
         /\ Identified(a, incarnation) = a \/ ~PositionFresh(Identified(a, incarnation))
<1>1. PICK new : new = [a EXCEPT !.identity = incarnation, !.sequence = 0,
                                 !.age = AdapterTimeout + 1]
  OBVIOUS
<1>2. 0 \in 0..MaxSequence /\ AdapterTimeout + 1 \in PositionAges
  BY AdapterAssumption DEF PositionAges
<1>3. new \in Adapters /\ new.sequence = 0
  BY <1>1, <1>2 DEF Adapters
<1>4. Identified(a, incarnation) \in {a, new}
  BY <1>1 DEF Identified
<1>5. QED
  BY <1>3, <1>4 DEF PositionFresh

LEMMA PositionedType ==
  ASSUME NEW a \in Adapters, NEW sequence \in 0..MaxSequence
  PROVE  Positioned(a, sequence) \in Adapters
<1>1. PICK new : new = [a EXCEPT !.sequence = sequence, !.age = 0]
  OBVIOUS
<1>2. 0 \in PositionAges
  BY AdapterAssumption DEF PositionAges
<1>3. new \in Adapters
  BY <1>1, <1>2 DEF Adapters
<1>4. QED
  BY <1>1, <1>3 DEF Positioned

LEMMA AdapterObserveType ==
  ASSUME NEW a \in Adapters, NEW status \in Statuses
  PROVE  ObserveStatus(a, status) \in Adapters
<1>1. /\ status.incarnation \in Incarnations /\ status.sequence \in 0..MaxSequence
      /\ status.fix_valid \in BOOLEAN
  BY DEF Statuses
<1>2. PICK known : known = Identified(a, status.incarnation)
  OBVIOUS
<1>3. known \in Adapters
  BY <1>1, <1>2, IdentifiedType
<1>4. PICK placed : placed = Positioned(known, status.sequence)
  OBVIOUS
<1>5. placed \in Adapters
  BY <1>1, <1>3, <1>4, PositionedType
<1>6. PICK valid \in BOOLEAN : valid = (MappedValid(status) /\ PositionFresh(placed))
  BY <1>1 DEF MappedValid
<1>7. [placed EXCEPT !.said = status.sequence, !.fix_valid = valid] \in Adapters
  BY <1>1, <1>5 DEF Adapters
<1>8. Invalidate(known) \in Adapters
  BY <1>3 DEF Adapters, Invalidate
<1>9. QED
  BY <1>2, <1>4, <1>6, <1>7, <1>8 DEF ObserveStatus

LEMMA AdapterAgedType ==
  ASSUME NEW a \in Adapters
  PROVE  AdapterAged(a) \in Adapters
BY AdapterAssumption DEF Adapters, PositionAges, AdapterAged

LEMMA ProjectedType ==
  ASSUME NEW p \in Powers
  PROVE  Projected(p) \in Powers
<1>1. PICK present \in BOOLEAN : present = (SampleFresh(p.dock) /\ ChargerHeld(p))
  BY DEF Powers, ChargerHeld
<1>2. QED
  BY <1>1 DEF Powers, Projected

LEMMA PowerObservedType ==
  ASSUME NEW p \in Powers, NEW battery \in Batteries, NEW voltage \in Voltages
  PROVE  /\ Observed(p, battery, voltage) \in Powers
         /\ Observed(p, battery, voltage).traction =
              IF battery = "traction" THEN [age |-> 0, voltage |-> voltage] ELSE p.traction
<1>1. PICK seen : seen = [p EXCEPT ![battery] = [age |-> 0, voltage |-> voltage]]
  OBVIOUS
<1>2. /\ seen \in Powers
      /\ seen.traction = IF battery = "traction" THEN [age |-> 0, voltage |-> voltage]
                         ELSE p.traction
  <2>1. 0 \in SampleAges
    BY PowerAssumption DEF SampleAges
  <2>2. CASE battery = "traction"
    BY <1>1, <2>1, <2>2 DEF Powers
  <2>3. CASE battery = "dock"
    BY <1>1, <2>1, <2>3 DEF Powers
  <2>4. QED
    BY <2>2, <2>3 DEF Batteries
<1>3. Projected(seen).traction = seen.traction
  BY <1>2 DEF Projected, Powers
<1>4. QED
  BY <1>1, <1>2, <1>3, ProjectedType DEF Observed

LEMMA PowerAgedType ==
  ASSUME NEW p \in Powers
  PROVE  /\ PowerAged(p) \in Powers
         /\ PowerAged(p).traction.age =
              IF SampleFresh(p.traction) THEN p.traction.age + 1 ELSE p.traction.age
<1>1. ASSUME NEW s \in [age : SampleAges, voltage : Voltages]
      PROVE  /\ [s EXCEPT !.age = IF @ <= ObserverTimeout THEN @ + 1 ELSE @]
                   \in [age : SampleAges, voltage : Voltages]
             /\ [s EXCEPT !.age = IF @ <= ObserverTimeout THEN @ + 1 ELSE @].age =
                   IF SampleFresh(s) THEN s.age + 1 ELSE s.age
  BY PowerAssumption DEF SampleAges, SampleFresh
<1>2. PICK dock : dock = [p.dock EXCEPT !.age = IF @ <= ObserverTimeout THEN @ + 1 ELSE @]
  OBVIOUS
<1>3. PICK traction :
        traction = [p.traction EXCEPT !.age = IF @ <= ObserverTimeout THEN @ + 1 ELSE @]
  OBVIOUS
<1>4. PowerAged(p) = [p EXCEPT !.dock = dock, !.traction = traction]
  BY <1>2, <1>3 DEF PowerAged, Powers
<1>5. /\ dock \in [age : SampleAges, voltage : Voltages]
      /\ traction \in [age : SampleAges, voltage : Voltages]
      /\ traction.age =
           IF SampleFresh(p.traction) THEN p.traction.age + 1 ELSE p.traction.age
  BY <1>1, <1>2, <1>3 DEF Powers
<1>6. QED
  BY <1>4, <1>5 DEF Powers

LEMMA UnheardType ==
  ASSUME NEW connected \in BOOLEAN
  PROVE  Unheard(connected) \in Readiness
BY ReadinessAssumption DEF Readiness, Unheard, StreamAges

LEMMA ReceivedType ==
  ASSUME NEW r \in Readiness, NEW stream \in Streams
  PROVE  Received(r, stream) \in Readiness
BY ReadinessAssumption DEF Readiness, Received, StreamAges

LEMMA TractionType ==
  ASSUME NEW r \in Readiness, NEW valid \in BOOLEAN
  PROVE  Traction(r, valid) \in Readiness
<1>1. PICK age : age = [r.age EXCEPT !["traction"] = 0]
  OBVIOUS
<1>2. age \in [Streams -> StreamAges] /\ age["traction"] = 0
  BY <1>1, ReadinessAssumption DEF Readiness, StreamAges, Streams
<1>3. r.connected => Traction(r, valid) = [r EXCEPT !.age = age, !.traction_valid = valid]
  BY <1>1 DEF Traction, Readiness
<1>4. QED
  BY <1>2, <1>3 DEF Traction, Readiness

LEMMA GnssType ==
  ASSUME NEW r \in Readiness, NEW sequence \in Nat, NEW valid \in BOOLEAN
  PROVE  Gnss(r, sequence, valid) \in Readiness
<1>1. PICK age : age = [r.age EXCEPT !["gnss"] = 0]
  OBVIOUS
<1>2. age \in [Streams -> StreamAges]
  BY <1>1, ReadinessAssumption DEF Readiness, StreamAges, Streams
<1>3. PICK new : new = [r EXCEPT !.age = age, !.gnss_sequence = sequence, !.gnss_valid = valid]
  OBVIOUS
<1>4. new \in Readiness
  BY <1>2, <1>3 DEF Readiness
<1>5. Gnss(r, sequence, valid) \in {r, new}
  BY <1>1, <1>3 DEF Gnss, Readiness
<1>6. QED
  BY <1>4, <1>5

LEMMA ReadinessAgedType ==
  ASSUME NEW r \in Readiness
  PROVE  ReadinessAged(r) \in Readiness
<1>1. [s \in Streams |-> IF r.age[s] <= ReadinessTimeout THEN r.age[s] + 1 ELSE r.age[s]]
        \in [Streams -> StreamAges]
  BY ReadinessAssumption DEF Readiness, StreamAges
<1>2. QED
  BY <1>1 DEF Readiness, ReadinessAged

-----------------------------------------------------------------------------
(* The invariant. *)

\* What the plugins hold as fresh is no older than they take it for.
PluginsKnowAge ==
  /\ PositionFresh(adapter) => position_age <= adapter.age
  /\ SampleFresh(power.traction) => traction_age <= power.traction.age

\* What the bridge holds as valid was fresh in the plugin when it was sent.
BridgeKnowsAge ==
  /\ StreamFresh(readiness, "gnss") /\ readiness.gnss_valid
       => position_age <= AdapterTimeout + readiness.age["gnss"]
  /\ StreamFresh(readiness, "traction") /\ readiness.traction_valid
       => traction_age <= ObserverTimeout + readiness.age["traction"]

ChainInvariant == TypeOK /\ PluginsKnowAge /\ BridgeKnowsAge

LEMMA ChainInit ==
  ASSUME Init
  PROVE  ChainInvariant
<1>1. AdapterInitial \in Adapters /\ ~PositionFresh(AdapterInitial)
  BY AdapterAssumption DEF AdapterInitial, Adapters, PositionAges, PositionFresh
<1>2. PowerInitial \in Powers /\ ~SampleFresh(PowerInitial.traction)
  <2>1. NoSample \in [age : SampleAges, voltage : Voltages] /\ NoSample.age = ObserverTimeout + 1
    BY PowerAssumption DEF NoSample, SampleAges, Voltages
  <2>2. QED
    BY <2>1, PowerAssumption DEF PowerInitial, Powers, SampleFresh
<1>3. /\ Unheard(FALSE) \in Readiness
      /\ ~Unheard(FALSE).gnss_valid /\ ~Unheard(FALSE).traction_valid
  BY UnheardType DEF Unheard
<1>4. TypeOK
  <2>1. PositionBound \in Nat /\ TractionBound \in Nat
    BY AdapterAssumption, PowerAssumption, ReadinessAssumption DEF PositionBound, TractionBound
  <2>2. position_age \in 0..PositionBound + 1 /\ traction_age \in 0..TractionBound + 1
    BY <2>1 DEF Init
  <2>3. QED
    BY <1>1, <1>2, <1>3, <2>2 DEF Init, TypeOK
<1>5. QED
  BY <1>1, <1>2, <1>3, <1>4 DEF Init, ChainInvariant, PluginsKnowAge, BridgeKnowsAge

-----------------------------------------------------------------------------
(* The handlers. *)

\* A new position in a status is what makes the adapter's position young again.
LEMMA ObserveKeepsAge ==
  ASSUME NEW a \in Adapters, NEW status \in Statuses, NEW since \in Nat, NEW later,
         PositionFresh(a) => since <= a.age,
         later = IF /\ ObserveStatus(a, status).age = 0
                    /\ Identified(a, status.incarnation).sequence < status.sequence
                 THEN 0 ELSE since
  PROVE  /\ PositionFresh(ObserveStatus(a, status)) => later <= ObserveStatus(a, status).age
         /\ ObserveStatus(a, status).fix_valid => PositionFresh(ObserveStatus(a, status))
<1>1. PICK known : known = Identified(a, status.incarnation)
  OBVIOUS
<1>2. known \in Adapters /\ (PositionFresh(known) => known = a)
  BY <1>1, IdentifiedType DEF Statuses
<1>3. PICK placed : placed = Positioned(known, status.sequence)
  OBVIOUS
<1>4. PICK valid \in BOOLEAN : valid = (MappedValid(status) /\ PositionFresh(placed))
  BY DEF Statuses, MappedValid
<1>5. PICK seen : seen = [placed EXCEPT !.said = status.sequence, !.fix_valid = valid]
  OBVIOUS
<1>6. status.sequence \in 0..MaxSequence
  BY DEF Statuses
<1>7. CASE status.sequence < known.sequence
  <2>1. ObserveStatus(a, status) = Invalidate(known)
    BY <1>1, <1>7 DEF ObserveStatus
  <2>2. /\ Invalidate(known).age = known.age /\ ~Invalidate(known).fix_valid
        /\ Invalidate(known).sequence = known.sequence
    BY <1>2 DEF Invalidate, Adapters
  <2>3. later = since
    BY <1>1, <1>2, <1>6, <1>7, AdapterAssumption DEF Adapters
  <2>4. QED
    BY <1>2, <2>1, <2>2, <2>3 DEF PositionFresh
<1>8. CASE status.sequence = known.sequence
  <2>1. placed = known
    BY <1>3, <1>8 DEF Positioned
  <2>2. ObserveStatus(a, status) = seen
    BY <1>1, <1>2, <1>3, <1>4, <1>5, <1>6, <1>8, AdapterAssumption DEF ObserveStatus, Adapters
  <2>3. seen.age = known.age /\ seen.sequence = known.sequence /\ seen.fix_valid = valid
    BY <1>2, <1>5, <2>1 DEF Adapters
  <2>4. later = since
    BY <1>1, <1>2, <1>6, <1>8, AdapterAssumption DEF Adapters
  <2>5. QED
    BY <1>2, <1>4, <2>1, <2>2, <2>3, <2>4 DEF PositionFresh
<1>9. CASE status.sequence > known.sequence
  <2>1. placed = [known EXCEPT !.sequence = status.sequence, !.age = 0]
    BY <1>2, <1>3, <1>6, <1>9, AdapterAssumption DEF Positioned, Adapters
  <2>2. ObserveStatus(a, status) = seen
    BY <1>1, <1>2, <1>3, <1>4, <1>5, <1>6, <1>9, AdapterAssumption DEF ObserveStatus, Adapters
  <2>3. seen.age = 0 /\ seen.sequence = placed.sequence /\ seen.fix_valid = valid /\ placed.age = 0
    BY <1>2, <1>5, <2>1 DEF Adapters
  <2>4. later = 0
    BY <1>1, <1>9, <2>2, <2>3
  <2>5. PositionFresh(seen) = PositionFresh(placed)
    BY <2>3 DEF PositionFresh
  <2>6. later <= seen.age
    BY <2>3, <2>4
  <2>7. seen.fix_valid => PositionFresh(seen)
    BY <1>4, <2>3, <2>5
  <2>8. QED
    BY <2>2, <2>6, <2>7
<1>10. QED
  BY <1>2, <1>6, <1>7, <1>8, <1>9, AdapterAssumption DEF Adapters
\* What arrives as valid is as old as the adapter's timeout at most, and as new as can be in
\* the bridge.
LEMMA GnssKeepsAge ==
  ASSUME NEW r \in Readiness, NEW sequence \in Nat, NEW valid \in BOOLEAN,
         NEW since \in Nat, NEW later \in Nat, later <= since,
         StreamFresh(r, "gnss") /\ r.gnss_valid => since <= AdapterTimeout + r.age["gnss"],
         valid => later <= AdapterTimeout
  PROVE  LET after == Gnss(r, sequence, valid) IN
         /\ StreamFresh(after, "gnss") /\ after.gnss_valid
              => later <= AdapterTimeout + after.age["gnss"]
         /\ after.age["traction"] = r.age["traction"]
         /\ after.traction_valid = r.traction_valid
<1>1. PICK age : age = [r.age EXCEPT !["gnss"] = 0]
  OBVIOUS
<1>2. age["gnss"] = 0 /\ age["traction"] = r.age["traction"]
  BY <1>1 DEF Readiness, Streams
<1>3. PICK new : new = [r EXCEPT !.age = age, !.gnss_sequence = sequence, !.gnss_valid = valid]
  OBVIOUS
<1>4. Gnss(r, sequence, valid) \in {r, new}
  BY <1>1, <1>3 DEF Gnss, Readiness
<1>5. new.age = age /\ new.gnss_valid = valid /\ new.traction_valid = r.traction_valid
  BY <1>3 DEF Readiness
<1>6. CASE Gnss(r, sequence, valid) = r
  <2>1. r.age["gnss"] \in Nat
    BY ReadinessAssumption DEF Readiness, Streams, StreamAges
  <2>2. QED
    BY <1>6, <2>1, AdapterAssumption
<1>7. CASE Gnss(r, sequence, valid) = new
  BY <1>2, <1>5, <1>7, AdapterAssumption
<1>8. QED
  BY <1>4, <1>6, <1>7

LEMMA TractionKeepsAge ==
  ASSUME NEW r \in Readiness, NEW valid \in BOOLEAN,
         NEW since \in Nat, NEW later \in Nat, later <= since,
         StreamFresh(r, "traction") /\ r.traction_valid
           => since <= ObserverTimeout + r.age["traction"],
         valid => later <= ObserverTimeout
  PROVE  LET after == Traction(r, valid) IN
         /\ StreamFresh(after, "traction") /\ after.traction_valid
              => later <= ObserverTimeout + after.age["traction"]
         /\ after.age["gnss"] = r.age["gnss"]
         /\ after.gnss_valid = r.gnss_valid
<1>1. PICK age : age = [r.age EXCEPT !["traction"] = 0]
  OBVIOUS
<1>2. age["traction"] = 0 /\ age["gnss"] = r.age["gnss"]
  BY <1>1 DEF Readiness, Streams
<1>3. PICK new : new = [r EXCEPT !.age = age, !.traction_valid = valid]
  OBVIOUS
<1>4. Traction(r, valid) \in {r, new}
  BY <1>1, <1>3 DEF Traction, Readiness
<1>5. new.age = age /\ new.traction_valid = valid /\ new.gnss_valid = r.gnss_valid
  BY <1>3 DEF Readiness
<1>6. CASE Traction(r, valid) = r
  <2>1. r.age["traction"] \in Nat
    BY ReadinessAssumption DEF Readiness, Streams, StreamAges
  <2>2. QED
    BY <1>6, <2>1, PowerAssumption
<1>7. CASE Traction(r, valid) = new
  BY <1>2, <1>5, <1>7, PowerAssumption
<1>8. QED
  BY <1>4, <1>6, <1>7

\* The ages of a typed state are numbers.
LEMMA ChainAges ==
  ASSUME TypeOK
  PROVE  /\ position_age \in Nat /\ traction_age \in Nat
         /\ PositionBound \in Nat /\ TractionBound \in Nat
         /\ adapter.age \in Nat /\ power.traction.age \in Nat
         /\ \A s \in Streams : readiness.age[s] \in Nat
         /\ "gnss" \in Streams /\ "traction" \in Streams
<1>1. PositionBound \in Nat /\ TractionBound \in Nat
  BY AdapterAssumption, PowerAssumption, ReadinessAssumption DEF PositionBound, TractionBound
<1>2. position_age \in Nat /\ traction_age \in Nat
  BY <1>1 DEF TypeOK
<1>3. adapter.age \in Nat
  BY AdapterAssumption DEF TypeOK, Adapters, PositionAges
<1>4. power.traction.age \in Nat
  BY PowerAssumption DEF TypeOK, Powers, SampleAges
<1>5. \A s \in Streams : readiness.age[s] \in Nat
  BY ReadinessAssumption DEF TypeOK, Readiness, StreamAges
<1>6. QED
  BY <1>1, <1>2, <1>3, <1>4, <1>5 DEF Streams

LEMMA ReportKeeps ==
  ASSUME ChainInvariant, NEW after \in Adapters, NEW arrives \in BOOLEAN, Report(after, arrives),
         position_age' \in Nat, position_age' <= position_age,
         PositionFresh(after) => position_age' <= after.age,
         after.fix_valid => PositionFresh(after),
         UNCHANGED <<power, traction_age>>
  PROVE  ChainInvariant'
<1>1. TypeOK /\ PluginsKnowAge /\ BridgeKnowsAge
  BY DEF ChainInvariant
<1>2. after.said \in Nat /\ after.fix_valid \in BOOLEAN /\ after.age \in Nat
  BY AdapterAssumption DEF Adapters, PositionAges
<1>3. adapter' = after
  BY DEF Report
<1>4. readiness' = Gnss(readiness, after.said, after.fix_valid) \/ readiness' = readiness
  BY DEF Report, StatusMessage
<1>5. readiness' \in Readiness
  BY <1>1, <1>2, <1>4, GnssType DEF TypeOK
<1>6. TypeOK'
  BY <1>1, <1>3, <1>5, ChainAges DEF TypeOK
<1>7. after.fix_valid => position_age' <= AdapterTimeout
  BY <1>2, AdapterAssumption DEF PositionFresh
<1>8. PluginsKnowAge'
  BY <1>1, <1>3 DEF PluginsKnowAge
<1>9. BridgeKnowsAge'
  <2>1. CASE readiness' = readiness
    BY <1>1, <2>1, ChainAges, AdapterAssumption DEF BridgeKnowsAge, StreamFresh
  <2>2. CASE readiness' = Gnss(readiness, after.said, after.fix_valid)
    <3>1. /\ StreamFresh(readiness', "gnss") /\ readiness'.gnss_valid
               => position_age' <= AdapterTimeout + readiness'.age["gnss"]
          /\ readiness'.age["traction"] = readiness.age["traction"]
          /\ readiness'.traction_valid = readiness.traction_valid
      BY <1>1, <1>2, <1>7, <2>2, ChainAges, GnssKeepsAge DEF TypeOK, BridgeKnowsAge
    <3>2. QED
      BY <1>1, <3>1 DEF BridgeKnowsAge, StreamFresh
  <2>3. QED
    BY <1>4, <2>1, <2>2
<1>10. QED
  BY <1>6, <1>8, <1>9 DEF ChainInvariant

LEMMA GnssStatusKeeps ==
  ASSUME ChainInvariant, NEW status \in Statuses, NEW arrives \in BOOLEAN,
         GnssStatus(status, arrives)
  PROVE  ChainInvariant'
<1>1. TypeOK /\ PluginsKnowAge /\ adapter \in Adapters /\ position_age \in Nat
  BY ChainAges DEF ChainInvariant, TypeOK
<1>2. PICK after : after = ObserveStatus(adapter, status)
  OBVIOUS
<1>3. after \in Adapters
  BY <1>1, <1>2, AdapterObserveType
<1>4. position_age' = IF /\ ObserveStatus(adapter, status).age = 0
                         /\ Identified(adapter, status.incarnation).sequence < status.sequence
                      THEN 0 ELSE position_age
  BY DEF GnssStatus
<1>5. /\ PositionFresh(after) => position_age' <= after.age
      /\ after.fix_valid => PositionFresh(after)
  <2>1. PositionFresh(adapter) => position_age <= adapter.age
    BY <1>1 DEF PluginsKnowAge
  <2>2. QED
    BY <1>1, <1>2, <1>4, <2>1, ObserveKeepsAge
<1>6. position_age' \in Nat /\ position_age' <= position_age
  BY <1>1, <1>4
<1>7. Report(after, arrives) /\ UNCHANGED <<power, traction_age>>
  BY <1>2 DEF GnssStatus
<1>8. QED
  BY <1>3, <1>5, <1>6, <1>7, ReportKeeps

LEMMA AdapterTimerKeeps ==
  ASSUME ChainInvariant, NEW arrives \in BOOLEAN, AdapterTimer(arrives)
  PROVE  ChainInvariant'
<1>1. TypeOK /\ adapter \in Adapters /\ position_age \in Nat
  BY ChainAges DEF ChainInvariant, TypeOK
<1>2. PICK after : after = Invalidate(adapter)
  OBVIOUS
<1>3. /\ after \in Adapters /\ ~after.fix_valid
      /\ after.age = adapter.age /\ after.sequence = adapter.sequence
  BY <1>1, <1>2 DEF Invalidate, Adapters
<1>4. PositionFresh(after) => position_age <= after.age
  BY <1>3 DEF ChainInvariant, PluginsKnowAge, PositionFresh
<1>5. Report(after, arrives) /\ UNCHANGED <<power, traction_age>> /\ position_age' = position_age
  BY <1>2 DEF AdapterTimer
<1>6. QED
  BY <1>1, <1>3, <1>4, <1>5, ReportKeeps

LEMMA BatteryStatusKeeps ==
  ASSUME ChainInvariant, NEW battery \in Batteries, NEW voltage \in Voltages,
         NEW arrives \in BOOLEAN, BatteryStatus(battery, voltage, arrives)
  PROVE  ChainInvariant'
<1>1. /\ TypeOK /\ PluginsKnowAge /\ BridgeKnowsAge
      /\ power \in Powers /\ readiness \in Readiness
  BY DEF ChainInvariant, TypeOK
<1>2. /\ power' \in Powers
      /\ power'.traction = IF battery = "traction" THEN [age |-> 0, voltage |-> voltage]
                           ELSE power.traction
  BY <1>1, PowerObservedType DEF BatteryStatus
<1>3. /\ traction_age' \in Nat /\ traction_age' <= traction_age
      /\ SampleFresh(power'.traction) => traction_age' <= power'.traction.age
  <2>1. CASE battery = "traction"
    BY <1>1, <1>2, <2>1, ChainAges DEF BatteryStatus
  <2>2. CASE battery # "traction"
    BY <1>1, <1>2, <2>2, ChainAges DEF BatteryStatus, PluginsKnowAge
  <2>3. QED
    BY <2>1, <2>2
<1>4. PICK valid \in BOOLEAN : valid = PowerMessage(power').v_battery
  BY DEF PowerMessage
<1>5. valid => traction_age' <= ObserverTimeout
  <2>1. valid => SampleFresh(power'.traction)
    BY <1>4 DEF PowerMessage
  <2>2. power'.traction.age \in Nat
    BY <1>2, PowerAssumption DEF Powers, SampleAges
  <2>3. QED
    BY <1>3, <2>1, <2>2, PowerAssumption DEF SampleFresh
<1>6. readiness' = Traction(readiness, valid) \/ readiness' = readiness
  BY <1>4 DEF BatteryStatus
<1>7. readiness' \in Readiness
  BY <1>1, <1>6, TractionType
<1>8. adapter' = adapter /\ position_age' = position_age
  BY DEF BatteryStatus
<1>9. TypeOK'
  BY <1>1, <1>2, <1>3, <1>7, <1>8, ChainAges DEF TypeOK
<1>10. PluginsKnowAge'
  BY <1>1, <1>3, <1>8 DEF PluginsKnowAge
<1>11. BridgeKnowsAge'
  <2>1. CASE readiness' = readiness
    BY <1>1, <1>3, <1>8, <2>1, ChainAges, PowerAssumption DEF BridgeKnowsAge, StreamFresh
  <2>2. CASE readiness' = Traction(readiness, valid)
    <3>1. /\ StreamFresh(readiness', "traction") /\ readiness'.traction_valid
               => traction_age' <= ObserverTimeout + readiness'.age["traction"]
          /\ readiness'.age["gnss"] = readiness.age["gnss"]
          /\ readiness'.gnss_valid = readiness.gnss_valid
      BY <1>1, <1>3, <1>5, <2>2, ChainAges, TractionKeepsAge DEF BridgeKnowsAge
    <3>2. QED
      BY <1>1, <1>8, <3>1 DEF BridgeKnowsAge, StreamFresh
  <2>3. QED
    BY <1>6, <2>1, <2>2
<1>12. QED
  BY <1>9, <1>10, <1>11 DEF ChainInvariant

LEMMA StreamReceivedKeeps ==
  ASSUME ChainInvariant, NEW stream \in OtherStreams, StreamReceived(stream)
  PROVE  ChainInvariant'
<1>1. TypeOK /\ PluginsKnowAge /\ BridgeKnowsAge /\ readiness \in Readiness
  BY DEF ChainInvariant, TypeOK
<1>2. stream \in {"imu", "wheel"} /\ stream \in Streams
  BY ChainAssumption DEF Streams
<1>3. readiness' \in Readiness
  BY <1>1, <1>2, ReceivedType DEF StreamReceived
<1>4. /\ readiness'.age["gnss"] = readiness.age["gnss"]
      /\ readiness'.age["traction"] = readiness.age["traction"]
      /\ readiness'.gnss_valid = readiness.gnss_valid
      /\ readiness'.traction_valid = readiness.traction_valid
  BY <1>1, <1>2 DEF StreamReceived, Received, Readiness, Streams
<1>5. UNCHANGED <<adapter, power, position_age, traction_age>>
  BY DEF StreamReceived
<1>6. QED
  BY <1>1, <1>3, <1>4, <1>5
     DEF ChainInvariant, TypeOK, PluginsKnowAge, BridgeKnowsAge, StreamFresh

LEMMA LinkKeeps ==
  ASSUME ChainInvariant, LinkChanges
  PROVE  ChainInvariant'
<1>1. TypeOK /\ PluginsKnowAge /\ readiness \in Readiness
  BY DEF ChainInvariant, TypeOK
<1>2. PICK connected \in BOOLEAN : connected = ~readiness.connected
  OBVIOUS
<1>3. readiness' = Unheard(connected)
  BY <1>1, <1>2 DEF LinkChanges, Connection, Readiness
<1>4. /\ readiness' \in Readiness
      /\ ~readiness'.gnss_valid /\ ~readiness'.traction_valid
  BY <1>3, UnheardType DEF Unheard
<1>5. UNCHANGED <<adapter, power, position_age, traction_age>>
  BY DEF LinkChanges
<1>6. QED
  BY <1>1, <1>4, <1>5 DEF ChainInvariant, TypeOK, PluginsKnowAge, BridgeKnowsAge

\* Every age grows by one; a counter only stops where the observation no longer counts.
LEMMA TickKeeps ==
  ASSUME ChainInvariant, Tick
  PROVE  ChainInvariant'
<1>1. /\ TypeOK /\ PluginsKnowAge /\ BridgeKnowsAge
      /\ adapter \in Adapters /\ power \in Powers /\ readiness \in Readiness
  BY DEF ChainInvariant, TypeOK
<1>2. /\ adapter' \in Adapters /\ adapter'.sequence = adapter.sequence
      /\ adapter'.age = IF adapter.age <= AdapterTimeout THEN adapter.age + 1 ELSE adapter.age
  BY <1>1, AdapterAgedType DEF Tick, AdapterAged, Adapters
<1>3. /\ power' \in Powers
      /\ power'.traction.age = IF SampleFresh(power.traction) THEN power.traction.age + 1
                               ELSE power.traction.age
  BY <1>1, PowerAgedType DEF Tick
<1>4. /\ readiness' \in Readiness
      /\ \A s \in Streams :
           readiness'.age[s] = IF StreamFresh(readiness, s) THEN readiness.age[s] + 1
                               ELSE readiness.age[s]
      /\ readiness'.gnss_valid = readiness.gnss_valid
      /\ readiness'.traction_valid = readiness.traction_valid
  BY <1>1, ReadinessAgedType DEF Tick, ReadinessAged, Readiness, StreamFresh
<1>5. /\ position_age' \in 0..PositionBound + 1 /\ position_age' <= position_age + 1
      /\ traction_age' \in 0..TractionBound + 1 /\ traction_age' <= traction_age + 1
  BY <1>1, ChainAges DEF Tick, TypeOK
<1>6. TypeOK'
  BY <1>2, <1>3, <1>4, <1>5 DEF TypeOK, PositionBound, TractionBound
<1>7. PluginsKnowAge'
  <2>1. PositionFresh(adapter') => position_age' <= adapter'.age
    BY <1>1, <1>2, <1>5, ChainAges, AdapterAssumption DEF PluginsKnowAge, PositionFresh
  <2>2. SampleFresh(power'.traction) => traction_age' <= power'.traction.age
    BY <1>1, <1>3, <1>5, ChainAges, PowerAssumption DEF PluginsKnowAge, SampleFresh
  <2>3. QED
    BY <2>1, <2>2 DEF PluginsKnowAge
<1>8. BridgeKnowsAge'
  <2>1. /\ StreamFresh(readiness', "gnss") =>
              StreamFresh(readiness, "gnss") /\ readiness'.age["gnss"] = readiness.age["gnss"] + 1
        /\ StreamFresh(readiness', "traction") =>
              /\ StreamFresh(readiness, "traction")
              /\ readiness'.age["traction"] = readiness.age["traction"] + 1
    BY <1>1, <1>4, ChainAges, ReadinessAssumption DEF StreamFresh
  <2>2. QED
    BY <1>1, <1>4, <1>5, <2>1, ChainAges, AdapterAssumption, PowerAssumption
       DEF BridgeKnowsAge, PositionBound, TractionBound
<1>9. QED
  BY <1>6, <1>7, <1>8 DEF ChainInvariant

LEMMA ChainStep ==
  ASSUME ChainInvariant, [Next]_vars
  PROVE  ChainInvariant'
<1>1. ASSUME NEW status \in Statuses, NEW arrives \in BOOLEAN, GnssStatus(status, arrives)
      PROVE  ChainInvariant'
  BY <1>1, GnssStatusKeeps
<1>2. ASSUME NEW arrives \in BOOLEAN, AdapterTimer(arrives)
      PROVE  ChainInvariant'
  BY <1>2, AdapterTimerKeeps
<1>3. ASSUME NEW voltage \in Voltages, NEW arrives \in BOOLEAN, NEW battery \in Batteries,
             BatteryStatus(battery, voltage, arrives)
      PROVE  ChainInvariant'
  BY <1>3, BatteryStatusKeeps
<1>4. /\ "traction" \in Batteries /\ "dock" \in Batteries
      /\ {"none", "high"} \subseteq Voltages /\ DockVoltages \subseteq Voltages
  BY ChainAssumption DEF Batteries, Voltages
<1>5. ASSUME NEW stream \in OtherStreams, StreamReceived(stream)
      PROVE  ChainInvariant'
  BY <1>5, StreamReceivedKeeps
<1>6. CASE LinkChanges
  BY <1>6, LinkKeeps
<1>7. CASE Tick
  BY <1>7, TickKeeps
<1>8. CASE UNCHANGED vars
  BY <1>8 DEF vars, ChainInvariant, TypeOK, PluginsKnowAge, BridgeKnowsAge
<1>9. QED
  BY <1>1, <1>2, <1>3, <1>4, <1>5, <1>6, <1>7, <1>8 DEF Next

-----------------------------------------------------------------------------
(* The theorems. *)

\* The plugins and the bridge know how old what they hold is (PluginsKnowAge, BridgeKnowsAge),
\* for all timeouts, sources and streams.
THEOREM ChainInvariance == Spec => []ChainInvariant
<1>1. Init => ChainInvariant
  BY ChainInit
<1>2. ChainInvariant /\ [Next]_vars => ChainInvariant'
  BY ChainStep
<1>3. QED
  BY <1>1, <1>2, PTL DEF Spec

\* Ready with GNSS means a position from within the timeouts of the adapter and of the bridge.
THEOREM ReadyHasPosition == Spec => []ReadyPositionRecent
<1>1. ChainInvariant => ReadyPositionRecent
  <2>1. SUFFICES ASSUME ChainInvariant, Ready(readiness), gnss_required
                 PROVE  position_age <= PositionBound
    BY DEF ReadyPositionRecent
  <2>2. TypeOK /\ BridgeKnowsAge
    BY <2>1 DEF ChainInvariant
  <2>3. StreamFresh(readiness, "gnss") /\ readiness.gnss_valid
    BY <2>1 DEF Ready
  <2>4. QED
    BY <2>2, <2>3, ChainAges, AdapterAssumption, ReadinessAssumption
       DEF BridgeKnowsAge, StreamFresh, PositionBound
<1>2. QED
  BY <1>1, ChainInvariance, PTL

\* Ready means a traction sample from within the timeouts of the observer and of the bridge.
THEOREM ReadyHasTraction == Spec => []ReadyTractionRecent
<1>1. ChainInvariant => ReadyTractionRecent
  <2>1. SUFFICES ASSUME ChainInvariant, Ready(readiness)
                 PROVE  traction_age <= TractionBound
    BY DEF ReadyTractionRecent
  <2>2. TypeOK /\ BridgeKnowsAge
    BY <2>1 DEF ChainInvariant
  <2>3. StreamFresh(readiness, "traction") /\ readiness.traction_valid
    BY <2>1 DEF Ready
  <2>4. QED
    BY <2>2, <2>3, ChainAges, PowerAssumption, ReadinessAssumption
       DEF BridgeKnowsAge, StreamFresh, TractionBound
<1>2. QED
  BY <1>1, ChainInvariance, PTL
=============================================================================
