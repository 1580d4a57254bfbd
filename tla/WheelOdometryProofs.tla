------------------------ MODULE WheelOdometryProofs -------------------------
(***************************************************************************)
(* For all producers, parameters and limits: the typing of the wheel       *)
(* odometry, and that what is cached are measurements of one owner; then   *)
(* the pair and the interval of an odometry, and the lease of the owner,   *)
(* which any slot it measures renews, a wheel or another.                  *)
(*                                                                         *)
(* Only Measure adds a measurement, and always for the sender that         *)
(* StatusOwner has just made the owner; every other change of the owner    *)
(* finds no measurement or drops them.  So each method is shown to keep    *)
(* the type of the engine and either its slots and their owner, or to      *)
(* drop what they measured.                                                *)
(***************************************************************************)
EXTENDS WheelOdometry, TLAPS

\* Who measured a slot, a wheel or another, is the owner, and there is one.
Owns(e, m) ==
  \A s \in Slots : e.status[s].time # 0 => m[s] = e.owner /\ e.owner # 0

WheelInvariant == TypeOK /\ Owns(engine, measured)

\* What selecting a source and publishing leave alone.
SameWheels(e, f) ==
  /\ f.status = e.status /\ f.owner = e.owner /\ f.counted = e.counted
  /\ f.lease = e.lease /\ f.owner_age = e.owner_age

Seen == [time : Times, age : Ages, valid : BOOLEAN]
Readings == [by : Components \cup {0}, time : Times, age : Ages]

-----------------------------------------------------------------------------
(* Typing. *)

LEMMA WheelSlots == Wheels \subseteq Slots
BY DEF Slots

LEMMA Numbers ==
  /\ 0 \in Times /\ Stale \in Ages /\ 0 \in Ages /\ 0 \in Components \cup {0}
  /\ Times \subseteq Nat /\ Ages \subseteq Nat
  /\ "none" \in Sources \cup {"none"}
  /\ \A v \in Vehicles : 1..v.times \subseteq Times \ {0}
BY WheelAssumption DEF Times, Stale, Ages

LEMMA NothingSeen == Unseen \in Seen /\ Unseen.time = 0 /\ NoDistance \in Readings
BY Numbers DEF Unseen, Seen, NoDistance, Readings

LEMMA BlankType ==
  ASSUME NEW connected \in BOOLEAN
  PROVE  /\ Blank(connected) \in Engines
         /\ \A w \in Slots : Blank(connected).status[w].time = 0
BY Numbers, NothingSeen DEF Blank, Engines, Seen, Readings

LEMMA TimesOfType ==
  ASSUME NEW e \in Engines
  PROVE  TimesOf(e) \in [Wheels -> Times]
BY WheelSlots DEF TimesOf, Engines

LEMMA LargerTimeType ==
  ASSUME NEW e \in Engines
  PROVE  LargerTime(e) \in Times
<1>1. "left" \in Slots /\ "right" \in Slots
  BY WheelSlots DEF Wheels
<1>2. e.status["left"].time \in Times /\ e.status["right"].time \in Times
  BY <1>1 DEF Engines
<1>3. QED
  BY <1>2 DEF LargerTime

LEMMA LeaveType ==
  ASSUME NEW e \in Engines, NEW source
  PROVE  Leave(e, source) \in Engines /\ SameWheels(e, Leave(e, source))
<1>1. PICK f : f = [e EXCEPT !.active = "none", !.last_sample = 0]
  OBVIOUS
<1>2. f \in Engines
  BY <1>1, Numbers DEF Engines
<1>3. SameWheels(e, f) /\ SameWheels(e, e)
  BY <1>1 DEF Engines, SameWheels
<1>4. QED
  BY <1>1, <1>2, <1>3 DEF Leave

LEMMA ResetCommonType ==
  ASSUME NEW e \in Engines
  PROVE  /\ ResetCommon(e) \in Engines /\ ResetCommon(e).owner = 0
         /\ \A w \in Slots : ResetCommon(e).status[w].time = 0
<1>1. PICK b : b = Blank(e.connected)
  OBVIOUS
<1>2. b \in Engines /\ \A w \in Slots : b.status[w].time = 0
  BY <1>1, BlankType DEF Engines
<1>3. PICK f :
        f = [e EXCEPT !.owner = 0, !.lease = FALSE, !.owner_age = Stale, !.status = b.status,
                      !.counted = Slots, !.floor = b.floor, !.epoch_baseline_needed = FALSE,
                      !.fence = {}]
  OBVIOUS
<1>4. f \in Engines /\ f.owner = 0 /\ f.status = b.status
  BY <1>2, <1>3, Numbers DEF Engines
<1>5. ResetCommon(e) = Leave(f, "esc_status")
  BY <1>1, <1>3 DEF ResetCommon
<1>6. QED
  BY <1>2, <1>4, <1>5, LeaveType DEF SameWheels

LEMMA ResetDistanceType ==
  ASSUME NEW e \in Engines
  PROVE  ResetDistance(e) \in Engines /\ SameWheels(e, ResetDistance(e))
<1>1. PICK f : f = [e EXCEPT !.distance = NoDistance, !.baseline = 0]
  OBVIOUS
<1>2. f \in Engines
  BY <1>1, Numbers, NothingSeen DEF Engines, Readings
<1>3. SameWheels(e, f)
  BY <1>1 DEF Engines, SameWheels
<1>4. QED
  BY <1>1, <1>2, <1>3, LeaveType DEF ResetDistance, SameWheels

LEMMA SelectType ==
  ASSUME NEW e \in Engines, NEW update \in BOOLEAN, NEW previous \in [Wheels -> Times]
  PROVE  Select(e, update, previous) \in Engines /\ SameWheels(e, Select(e, update, previous))
<1>1. PICK next : next = Choice(e)
  OBVIOUS
<1>2. next \in Sources \cup {"none"}
  BY <1>1 DEF Choice, Sources, Modes
<1>3. PICK floor : floor = FloorAfter(e, next, update, previous)
  OBVIOUS
<1>4. floor \in [Wheels -> Times]
  BY <1>3, TimesOfType DEF FloorAfter, Engines
<1>5. PICK baseline : baseline = IF next = "wheel_distance" THEN e.distance.time ELSE 0
  OBVIOUS
<1>6. baseline \in Times
  BY <1>5, Numbers DEF Engines
<1>7. PICK f : f = [e EXCEPT !.last_sample = 0, !.floor = floor, !.baseline = baseline,
                             !.active = next]
  OBVIOUS
<1>8. f \in Engines
  BY <1>2, <1>4, <1>6, <1>7, Numbers DEF Engines
<1>9. SameWheels(e, f) /\ SameWheels(e, e)
  BY <1>7 DEF Engines, SameWheels
<1>10. Select(e, update, previous) \in {e, f}
  BY <1>1, <1>3, <1>5, <1>7 DEF Select
<1>11. QED
  BY <1>8, <1>9, <1>10

LEMMA SelectedType ==
  ASSUME NEW e \in Engines
  PROVE  Selected(e) \in Engines /\ SameWheels(e, Selected(e))
<1>1. e.floor \in [Wheels -> Times]
  BY DEF Engines
<1>2. QED
  BY <1>1, SelectType DEF Selected

LEMMA AfterPairType ==
  ASSUME NEW e \in Engines
  PROVE  AfterPair(e) \in Engines /\ SameWheels(e, AfterPair(e))
<1>1. PICK times, larger : times = TimesOf(e) /\ larger = LargerTime(e)
  OBVIOUS
<1>2. times \in [Wheels -> Times] /\ larger \in Times
  BY <1>1, TimesOfType, LargerTimeType
<1>3. PICK f : f = [e EXCEPT !.floor = times, !.last_sample = larger]
  OBVIOUS
<1>4. PICK g : g = [e EXCEPT !.floor = times, !.epoch_baseline_needed = FALSE]
  OBVIOUS
<1>5. f \in Engines /\ g \in Engines
  BY <1>2, <1>3, <1>4 DEF Engines
<1>6. SameWheels(e, e) /\ SameWheels(e, f) /\ SameWheels(e, g)
  BY <1>3, <1>4 DEF Engines, SameWheels
<1>7. AfterPair(e) \in {e, f, g}
  BY <1>1, <1>3, <1>4 DEF AfterPair
<1>8. QED
  BY <1>5, <1>6, <1>7

LEMMA DropDistanceType ==
  ASSUME NEW e \in Engines
  PROVE  DropDistance(e) \in Engines /\ SameWheels(e, DropDistance(e))
<1>1. PICK f : f = [e EXCEPT !.distance = NoDistance, !.baseline = 0]
  OBVIOUS
<1>2. f \in Engines /\ SameWheels(e, f)
  BY <1>1, Numbers, NothingSeen DEF Engines, Readings, SameWheels
<1>3. PICK g : g = Selected(f)
  OBVIOUS
<1>4. g \in Engines /\ SameWheels(f, g)
  BY <1>2, <1>3, SelectedType
<1>5. SameWheels(e, g)
  BY <1>2, <1>4 DEF SameWheels
<1>6. DropDistance(e) = g
  BY <1>1, <1>3 DEF DropDistance
<1>7. QED
  BY <1>4, <1>5, <1>6

LEMMA SameOwns ==
  ASSUME NEW e, NEW f, NEW m, SameWheels(e, f), Owns(e, m)
  PROVE  Owns(f, m)
BY DEF SameWheels, Owns

-----------------------------------------------------------------------------
(* Taking over and measuring. *)

LEMMA StatusOwnerOwns ==
  ASSUME NEW e \in Engines, NEW c \in Components, NEW m, Owns(e, m)
  PROVE  /\ StatusOwner(e, c) \in Engines /\ StatusOwner(e, c).owner = c
         /\ Owns(StatusOwner(e, c), m)
<1>1. PICK base : base = IF e.owner \in {0, c} THEN e ELSE ResetCommon(e)
  OBVIOUS
<1>2. base \in Engines
  BY <1>1, ResetCommonType
<1>3. \A w \in Slots : base.status[w].time # 0 => m[w] = c
  BY <1>1, ResetCommonType DEF Owns
<1>4. PICK f : f = [base EXCEPT !.owner = c, !.lease = TRUE]
  OBVIOUS
<1>5. f \in Engines /\ f.owner = c /\ f.status = base.status
  BY <1>2, <1>4 DEF Engines
<1>6. StatusOwner(e, c) = f
  BY <1>1, <1>4 DEF StatusOwner
<1>7. c # 0
  BY DEF Components
<1>8. QED
  BY <1>3, <1>5, <1>6, <1>7 DEF Owns

LEMMA NewEpochOwns ==
  ASSUME NEW e \in Engines, NEW m
  PROVE  /\ NewEpoch(e) \in Engines /\ NewEpoch(e).owner = e.owner
         /\ Owns(NewEpoch(e), m)
<1>1. PICK base : base = ResetCommon(e)
  OBVIOUS
<1>2. base \in Engines /\ \A w \in Slots : base.status[w].time = 0
  BY <1>1, ResetCommonType
<1>3. e.owner \in Components \cup {0}
  BY DEF Engines
<1>4. PICK f : f = [base EXCEPT !.owner = e.owner, !.lease = TRUE,
                               !.epoch_baseline_needed = TRUE]
  OBVIOUS
<1>5. f \in Engines /\ f.owner = e.owner /\ f.status = base.status
  BY <1>2, <1>3, <1>4 DEF Engines
<1>6. NewEpoch(e) = f
  BY <1>1, <1>4 DEF NewEpoch
<1>7. QED
  BY <1>2, <1>5, <1>6 DEF Owns

LEMMA MeasureOwns ==
  ASSUME NEW e \in Engines, NEW slots \in SUBSET Slots, NEW time \in Times,
         NEW conflict \in SUBSET slots, NEW m, Owns(e, m), e.owner # 0,
         NEW n, n = [w \in Slots |-> IF w \in NewlyMeasured(e, slots, time)
                                      THEN e.owner ELSE m[w]]
  PROVE  /\ Measure(e, slots, time, conflict) \in Engines
         /\ Measure(e, slots, time, conflict).owner = e.owner
         /\ Owns(Measure(e, slots, time, conflict), n)
<1>1. PICK new : new = NewlyMeasured(e, slots, time)
  OBVIOUS
<1>2. PICK status :
        status = [w \in Slots |->
                    IF w \in new THEN [time |-> time, age |-> 0, valid |-> TRUE]
                    ELSE IF w \in conflict \cap slots \cap e.counted
                    THEN [e.status[w] EXCEPT !.valid = FALSE]
                    ELSE e.status[w]]
  OBVIOUS
<1>3. \A w \in Slots : e.status[w] \in Seen
  BY DEF Engines, Seen
<1>4. /\ [time |-> time, age |-> 0, valid |-> TRUE] \in Seen
      /\ \A s \in Seen : /\ [s EXCEPT !.valid = FALSE] \in Seen
                         /\ [s EXCEPT !.valid = FALSE].time = s.time
  BY Numbers DEF Seen
<1>5. status \in [Slots -> Seen]
  BY <1>2, <1>3, <1>4
<1>6. \A w \in Slots : w \notin new => status[w].time = e.status[w].time
  BY <1>2, <1>3, <1>4
<1>7. PICK age : age = IF new = {} THEN e.owner_age ELSE 0
  OBVIOUS
<1>8. age \in Ages
  BY <1>7, Numbers DEF Engines
<1>9. PICK f : f = [e EXCEPT !.status = status, !.owner_age = age, !.fence = e.fence \ new]
  OBVIOUS
<1>10. f \in Engines /\ f.owner = e.owner /\ f.status = status
  BY <1>5, <1>8, <1>9 DEF Engines, Seen
<1>11. Measure(e, slots, time, conflict) = f
  BY <1>1, <1>2, <1>7, <1>9 DEF Measure, Engines
<1>12. Owns(f, n)
  BY <1>1, <1>6, <1>10 DEF Owns
<1>13. QED
  BY <1>10, <1>11, <1>12

LEMMA InfoOwnerOwns ==
  ASSUME NEW e \in Engines, NEW c \in Components, NEW m, Owns(e, m)
  PROVE  InfoOwner(e, c) \in Engines /\ Owns(InfoOwner(e, c), m)
<1>1. PICK base : base = IF e.owner \in {0, c} THEN e ELSE ResetCommon(e)
  OBVIOUS
<1>2. base \in Engines /\ \A w \in Slots : base.status[w].time # 0 => m[w] = c
  BY <1>1, ResetCommonType DEF Owns
<1>3. InfoOwner(e, c) = [base EXCEPT !.owner = c]
  BY <1>1 DEF InfoOwner
<1>4. c # 0
  BY DEF Components
<1>5. [base EXCEPT !.owner = c] \in Engines
  BY <1>2 DEF Engines
<1>6. /\ [base EXCEPT !.owner = c].status = base.status
      /\ [base EXCEPT !.owner = c].owner = c
  BY <1>2 DEF Engines
<1>7. QED
  BY <1>2, <1>3, <1>4, <1>5, <1>6 DEF Owns

LEMMA CountedOwns ==
  ASSUME NEW e \in Engines, NEW counted \in SUBSET Slots, NEW m, Owns(e, m)
  PROVE  Counted(e, counted) \in Engines /\ Owns(Counted(e, counted), m)
<1>1. PICK status :
        status = [w \in Slots |->
                    [e.status[w] EXCEPT !.valid = e.status[w].valid /\ w \in counted]]
  OBVIOUS
<1>2. \A w \in Slots : e.status[w] \in Seen
  BY DEF Engines, Seen
<1>3. \A s \in Seen, b \in BOOLEAN : /\ [s EXCEPT !.valid = b] \in Seen
                                     /\ [s EXCEPT !.valid = b].time = s.time
  BY DEF Seen
<1>4. ASSUME NEW w \in Slots
      PROVE  status[w] \in Seen /\ status[w].time = e.status[w].time
  <2>1. PICK b \in BOOLEAN : b = (e.status[w].valid /\ w \in counted)
    OBVIOUS
  <2>2. status[w] = [e.status[w] EXCEPT !.valid = b]
    BY <1>1, <2>1
  <2>3. QED
    BY <1>2, <1>3, <2>2
<1>5. status \in [Slots -> Seen]
  BY <1>1, <1>4
<1>6. PICK f : f = [e EXCEPT !.counted = counted, !.status = status]
  OBVIOUS
<1>7. f \in Engines /\ f.owner = e.owner /\ f.status = status
  BY <1>5, <1>6 DEF Engines, Seen
<1>8. Counted(e, counted) = f
  BY <1>1, <1>6 DEF Counted
<1>9. Owns(f, m)
  BY <1>4, <1>7 DEF Owns
<1>10. QED
  BY <1>7, <1>8, <1>9

LEMMA SeatType ==
  ASSUME NEW w \in Slots, NEW swap
  PROVE  Seat(w, swap) \in Slots
BY DEF Slots, Wheels, Other, Seat

LEMMA RetainedOwns ==
  ASSUME NEW e \in Engines, NEW next, NEW swap \in BOOLEAN, NEW m, Owns(e, m)
  PROVE  /\ Retained(e, next, swap) \in Engines
         /\ Owns(Retained(e, next, swap), [w \in Slots |-> m[Seat(w, swap)]])
<1>1. PICK seat : seat = [w \in Slots |-> Seat(w, swap)]
  OBVIOUS
<1>2. \A w \in Slots : seat[w] \in Slots /\ seat[w] = Seat(w, swap)
  BY <1>1, SeatType
<1>3. PICK b : b = Blank(e.connected)
  OBVIOUS
<1>4. b \in Engines /\ \A w \in Slots : b.status[w].time = 0
  BY <1>3, BlankType DEF Engines
<1>5. PICK status : status = [w \in Slots |-> e.status[Seat(w, swap)]]
  OBVIOUS
<1>6. /\ status \in [Slots -> Seen]
      /\ \A w \in Slots : status[w] = e.status[Seat(w, swap)]
  BY <1>2, <1>5 DEF Engines, Seen
<1>7. PICK counted : counted = {Seat(w, swap) : w \in e.counted}
  OBVIOUS
<1>8. counted \in SUBSET Slots
  BY <1>7, SeatType DEF Engines
<1>9. PICK f : f = [b EXCEPT !.owner = e.owner, !.lease = e.lease, !.owner_age = e.owner_age,
                             !.status = status, !.counted = counted, !.fence = Wheels]
  OBVIOUS
<1>10. PICK g : g = [b EXCEPT !.fence = Wheels]
  OBVIOUS
<1>11. f \in Engines /\ f.owner = e.owner /\ f.status = status
  BY <1>4, <1>6, <1>8, <1>9 DEF Engines, Seen
<1>12. g \in Engines /\ \A w \in Slots : g.status[w].time = 0
  BY <1>4, <1>10 DEF Engines
<1>13. Retained(e, next, swap) \in {f, g}
  BY <1>3, <1>5, <1>7, <1>9, <1>10 DEF Retained
<1>14. Owns(f, [w \in Slots |-> m[Seat(w, swap)]])
  BY <1>2, <1>6, <1>11 DEF Owns
<1>15. Owns(g, [w \in Slots |-> m[Seat(w, swap)]])
  BY <1>12 DEF Owns
<1>16. QED
  BY <1>11, <1>12, <1>13, <1>14, <1>15

-----------------------------------------------------------------------------
(* The handlers. *)

LEMMA OldNewsType ==
  ASSUME TypeOK
  PROVE  OldNews \subseteq Wheels
BY DEF TypeOK, OldNews

LEMMA QuietKeeps ==
  ASSUME WheelInvariant, NEW e \in Engines, Owns(e, measured), Quiet(e)
  PROVE  WheelInvariant'
<1>1. TypeOK /\ OldNews \subseteq Wheels
  BY OldNewsType DEF WheelInvariant
<1>2. engine' = e /\ output' = "none" /\ news' = OldNews /\ unfenced' \in BOOLEAN
  BY DEF Quiet, StillUnfenced
<1>3. config' = config /\ measured' = measured /\ vehicle' = vehicle
  BY DEF Quiet
<1>4. QED
  BY <1>1, <1>2, <1>3 DEF WheelInvariant, TypeOK

LEMMA PublishType ==
  ASSUME NEW source \in Sources, Publish(source) \/ output' = "none"
  PROVE  output' \in Sources \cup {"none"}
BY DEF Publish

\* What an accepted ESC_STATUS does, its values named in the order the code makes them.
StatusAccepted(c, slots, time, conflict, owned, epoch, now, new, e) ==
  /\ owned = StatusOwner(engine, c)
  /\ epoch = IF Regressed(owned, slots, time) THEN NewEpoch(owned) ELSE owned
  /\ now = Measure(epoch, slots, time, conflict)
  /\ new = NewlyMeasured(epoch, slots, time)
  /\ e = Select(now, TRUE, TimesOf(owned))
  /\ engine' = AfterPair(e)
  /\ IF PublishesPair(e) THEN Publish("esc_status") ELSE output' = "none"
  /\ news' = IF Regressed(owned, slots, time) THEN {}
             ELSE (IF engine.owner \in {0, c} THEN OldNews ELSE {}) \cup (new \cap Wheels)
  /\ unfenced' = (StillUnfenced /\ engine.owner \in {0, c})
  /\ measured' = [w \in Slots |-> IF w \in new THEN c ELSE measured[w]]
  /\ UNCHANGED <<config, vehicle>>

LEMMA StatusParts ==
  ASSUME NEW c, NEW slots, NEW time, NEW conflict,
         Status(c, slots, time, conflict), ~StatusRefused(engine, c)
  PROVE  \E owned, epoch, now, new, e :
           StatusAccepted(c, slots, time, conflict, owned, epoch, now, new, e)
<1>1. PICK owned \in {StatusOwner(engine, c)} :
       \E epoch \in {IF Regressed(owned, slots, time) THEN NewEpoch(owned) ELSE owned} :
       \E e \in {Select(Measure(epoch, slots, time, conflict), TRUE, TimesOf(owned))} :
         LET new == NewlyMeasured(epoch, slots, time) IN
         /\ engine' = AfterPair(e)
         /\ IF PublishesPair(e) THEN Publish("esc_status") ELSE output' = "none"
         /\ news' = IF Regressed(owned, slots, time) THEN {}
                    ELSE (IF engine.owner \in {0, c} THEN OldNews ELSE {})
                           \cup (new \cap Wheels)
         /\ unfenced' = (StillUnfenced /\ engine.owner \in {0, c})
         /\ measured' = [w \in Slots |-> IF w \in new THEN c ELSE measured[w]]
         /\ UNCHANGED <<config, vehicle>>
  BY Zenon DEF Status
<1>2. PICK epoch \in {IF Regressed(owned, slots, time) THEN NewEpoch(owned) ELSE owned} :
       \E e \in {Select(Measure(epoch, slots, time, conflict), TRUE, TimesOf(owned))} :
         LET new == NewlyMeasured(epoch, slots, time) IN
         /\ engine' = AfterPair(e)
         /\ IF PublishesPair(e) THEN Publish("esc_status") ELSE output' = "none"
         /\ news' = IF Regressed(owned, slots, time) THEN {}
                    ELSE (IF engine.owner \in {0, c} THEN OldNews ELSE {})
                           \cup (new \cap Wheels)
         /\ unfenced' = (StillUnfenced /\ engine.owner \in {0, c})
         /\ measured' = [w \in Slots |-> IF w \in new THEN c ELSE measured[w]]
         /\ UNCHANGED <<config, vehicle>>
  BY <1>1, Zenon
<1>3. PICK e \in {Select(Measure(epoch, slots, time, conflict), TRUE, TimesOf(owned))} :
         LET new == NewlyMeasured(epoch, slots, time) IN
         /\ engine' = AfterPair(e)
         /\ IF PublishesPair(e) THEN Publish("esc_status") ELSE output' = "none"
         /\ news' = IF Regressed(owned, slots, time) THEN {}
                    ELSE (IF engine.owner \in {0, c} THEN OldNews ELSE {})
                           \cup (new \cap Wheels)
         /\ unfenced' = (StillUnfenced /\ engine.owner \in {0, c})
         /\ measured' = [w \in Slots |-> IF w \in new THEN c ELSE measured[w]]
         /\ UNCHANGED <<config, vehicle>>
  BY <1>2, Zenon
<1>4. PICK now : now = Measure(epoch, slots, time, conflict)
  OBVIOUS
<1>5. PICK new : new = NewlyMeasured(epoch, slots, time)
  OBVIOUS
<1>6. /\ owned = StatusOwner(engine, c)
      /\ epoch = IF Regressed(owned, slots, time) THEN NewEpoch(owned) ELSE owned
      /\ e = Select(now, TRUE, TimesOf(owned))
  BY <1>4
<1>7. /\ engine' = AfterPair(e)
      /\ IF PublishesPair(e) THEN Publish("esc_status") ELSE output' = "none"
      /\ news' = IF Regressed(owned, slots, time) THEN {}
                 ELSE (IF engine.owner \in {0, c} THEN OldNews ELSE {}) \cup (new \cap Wheels)
      /\ unfenced' = (StillUnfenced /\ engine.owner \in {0, c})
      /\ measured' = [w \in Slots |-> IF w \in new THEN c ELSE measured[w]]
      /\ UNCHANGED <<config, vehicle>>
  BY <1>3, <1>5
<1>8. StatusAccepted(c, slots, time, conflict, owned, epoch, now, new, e)
  BY <1>4, <1>5, <1>6, <1>7, Zenon DEF StatusAccepted
<1>9. QED
  BY <1>8

LEMMA StatusKeeps ==
  ASSUME WheelInvariant, NEW c \in vehicle.status, NEW slots \in SUBSET Slots,
         NEW time \in 1..vehicle.times, NEW conflict \in SUBSET slots,
         Status(c, slots, time, conflict)
  PROVE  WheelInvariant'
<1>1. /\ TypeOK /\ engine \in Engines /\ Owns(engine, measured)
      /\ vehicle \in Vehicles /\ measured \in [Slots -> Components \cup {0}]
  BY DEF WheelInvariant, TypeOK
<1>2. c \in Components /\ c # 0 /\ time \in Times
  BY <1>1, WheelAssumption, Numbers DEF Components
<1>3. CASE StatusRefused(engine, c)
  BY <1>1, <1>3, QuietKeeps DEF Status
<1>4. CASE ~StatusRefused(engine, c)
  <2>0. PICK owned, epoch, now, new, e :
          StatusAccepted(c, slots, time, conflict, owned, epoch, now, new, e)
    BY <1>4, StatusParts, Zenon
  <2>1. /\ owned = StatusOwner(engine, c)
        /\ epoch = IF Regressed(owned, slots, time) THEN NewEpoch(owned) ELSE owned
        /\ e = Select(Measure(epoch, slots, time, conflict), TRUE, TimesOf(owned))
        /\ engine' = AfterPair(e)
        /\ Publish("esc_status") \/ output' = "none"
        /\ news' \in SUBSET Wheels
        /\ measured' = [w \in Slots |-> IF w \in NewlyMeasured(epoch, slots, time)
                                         THEN c ELSE measured[w]]
        /\ unfenced' \in BOOLEAN
        /\ UNCHANGED <<config, vehicle>>
    <3>1. Publish("esc_status") \/ output' = "none"
      BY <2>0 DEF StatusAccepted
    <3>2. unfenced' \in BOOLEAN
      BY <2>0 DEF StatusAccepted
    <3>3. news' \in SUBSET Wheels
      BY <2>0, OldNewsType DEF WheelInvariant, StatusAccepted
    <3>4. QED
      BY <2>0, <3>1, <3>2, <3>3 DEF StatusAccepted
  <2>2. owned \in Engines /\ owned.owner = c /\ Owns(owned, measured)
    BY <1>1, <1>2, <2>1, StatusOwnerOwns
  <2>3. epoch \in Engines /\ epoch.owner = c /\ Owns(epoch, measured)
    BY <2>1, <2>2, NewEpochOwns
  <2>4. now = Measure(epoch, slots, time, conflict)
    BY <2>0 DEF StatusAccepted
  <2>5. now \in Engines /\ Owns(now, measured')
    <3>1. measured' = [w \in Slots |-> IF w \in NewlyMeasured(epoch, slots, time)
                                       THEN epoch.owner ELSE measured[w]]
      BY <2>1, <2>3
    <3>2. epoch.owner # 0
      BY <1>2, <2>3
    <3>3. QED
      BY <1>2, <2>3, <2>4, <3>1, <3>2, MeasureOwns
  <2>6. e \in Engines /\ Owns(e, measured')
    BY <2>1, <2>2, <2>4, <2>5, TimesOfType, SelectType, SameOwns
  <2>7. engine' \in Engines /\ Owns(engine', measured')
    BY <2>1, <2>6, AfterPairType, SameOwns
  <2>8. output' \in Sources \cup {"none"}
    <3>1. "esc_status" \in Sources
      BY DEF Sources, Modes
    <3>2. QED
      BY <2>1, <3>1, PublishType
  <2>9. news' \subseteq Wheels
    BY <2>1
  <2>10. measured' \in [Slots -> Components \cup {0}]
    BY <1>1, <1>2, <2>1
  <2>11. config' = config /\ vehicle' = vehicle /\ unfenced' \in BOOLEAN
    BY <2>1
  <2>12. QED
    BY <1>1, <2>7, <2>8, <2>9, <2>10, <2>11 DEF WheelInvariant, TypeOK
<1>5. QED
  BY <1>3, <1>4

LEMMA InfoKeeps ==
  ASSUME WheelInvariant, NEW c \in vehicle.status, NEW counted \in SUBSET Slots,
         NEW regressed \in BOOLEAN, Info(c, counted, regressed)
  PROVE  WheelInvariant'
<1>1. engine \in Engines /\ Owns(engine, measured) /\ vehicle \in Vehicles
  BY DEF WheelInvariant, TypeOK
<1>2. c \in Components
  BY <1>1, WheelAssumption
<1>3. PICK e : e = InfoOwner(engine, c)
  OBVIOUS
<1>4. e \in Engines /\ Owns(e, measured)
  BY <1>1, <1>2, <1>3, InfoOwnerOwns
<1>5. PICK f : f = IF regressed THEN e ELSE Counted(e, counted)
  OBVIOUS
<1>6. f \in Engines /\ Owns(f, measured)
  BY <1>4, <1>5, CountedOwns
<1>7. Selected(f) \in Engines /\ Owns(Selected(f), measured)
  BY <1>6, SelectedType, SameOwns
<1>8. Quiet(engine) \/ Quiet(Selected(f))
  BY <1>3, <1>5 DEF Info
<1>9. QED
  BY <1>1, <1>7, <1>8, QuietKeeps

LEMMA GoesOnType ==
  ASSUME NEW e \in Engines, NEW time \in Times
  PROVE  GoesOn(e, time) \in Engines /\ SameWheels(e, GoesOn(e, time))
<1>1. PICK f : f = [e EXCEPT !.baseline = 0]
  OBVIOUS
<1>2. f \in Engines /\ SameWheels(e, f) /\ SameWheels(e, e)
  BY <1>1, Numbers DEF Engines, SameWheels
<1>3. GoesOn(e, time) \in {ResetDistance(e), f, e}
  BY <1>1 DEF GoesOn
<1>4. QED
  BY <1>2, <1>3, ResetDistanceType

LEMMA SameTrans ==
  ASSUME NEW e, NEW f, NEW g, SameWheels(e, f), SameWheels(f, g)
  PROVE  SameWheels(e, g)
BY DEF SameWheels

\* A step that leaves the wheels and their owner alone, whatever else it does.
Elsewhere ==
  /\ engine' \in Engines /\ SameWheels(engine, engine')
  /\ output' \in Sources \cup {"none"}
  /\ news' = OldNews
  /\ unfenced' \in BOOLEAN
  /\ UNCHANGED <<config, measured, vehicle>>

LEMMA ElsewhereKeeps ==
  ASSUME WheelInvariant, Elsewhere
  PROVE  WheelInvariant'
<1>1. TypeOK /\ Owns(engine, measured) /\ OldNews \subseteq Wheels
  BY OldNewsType DEF WheelInvariant
<1>2. Owns(engine', measured')
  BY <1>1, SameOwns DEF Elsewhere
<1>3. QED
  BY <1>1, <1>2 DEF WheelInvariant, TypeOK, Elsewhere

LEMMA QuietElsewhere ==
  ASSUME NEW e \in Engines, SameWheels(engine, e), Quiet(e)
  PROVE  Elsewhere
BY DEF Quiet, StillUnfenced, Elsewhere

LEMMA DistanceElsewhere ==
  ASSUME WheelInvariant, NEW c \in vehicle.encoders, NEW time \in 1..vehicle.times,
         NEW good \in BOOLEAN, NEW conflict \in BOOLEAN, NEW plausible \in BOOLEAN,
         Distance(c, time, good, conflict, plausible)
  PROVE  Elsewhere
<1>1. engine \in Engines /\ vehicle \in Vehicles /\ SameWheels(engine, engine)
  BY DEF WheelInvariant, TypeOK, SameWheels
<1>2. c \in Components /\ time \in Times
  BY <1>1, WheelAssumption, Numbers
<1>3. PICK e : e = DistanceOwner(engine, c)
  OBVIOUS
<1>4. e \in Engines /\ SameWheels(engine, e)
  <2>1. e \in {engine, ResetDistance(engine)}
    BY <1>3 DEF DistanceOwner
  <2>2. QED
    BY <1>1, <2>1, ResetDistanceType
<1>5. PICK on : on = GoesOn(e, time)
  OBVIOUS
<1>6. on \in Engines /\ SameWheels(engine, on)
  BY <1>2, <1>4, <1>5, GoesOnType, SameTrans
<1>7. PICK read : read = [on EXCEPT !.distance = [by |-> c, time |-> time, age |-> 0]]
  OBVIOUS
<1>8. read \in Engines /\ SameWheels(engine, read)
  <2>1. [by |-> c, time |-> time, age |-> 0] \in Readings
    BY <1>2, Numbers DEF Readings
  <2>2. read \in Engines /\ SameWheels(on, read)
    BY <1>6, <1>7, <2>1 DEF Engines, Readings, SameWheels
  <2>3. QED
    BY <1>6, <2>2, SameTrans
<1>9. PICK s : s = Selected(read)
  OBVIOUS
<1>10. s \in Engines /\ SameWheels(engine, s)
  BY <1>8, <1>9, SelectedType, SameTrans
<1>11. PICK next : next = IF s.active = "wheel_distance" THEN [s EXCEPT !.baseline = time] ELSE s
  OBVIOUS
<1>12. next \in Engines /\ SameWheels(engine, next)
  BY <1>2, <1>10, <1>11 DEF Engines, SameWheels
<1>13. PICK sampled : sampled = [next EXCEPT !.last_sample = time]
  OBVIOUS
<1>14. sampled \in Engines /\ SameWheels(engine, sampled)
  BY <1>2, <1>12, <1>13 DEF Engines, SameWheels
<1>15. PICK interval \in BOOLEAN :
         interval = (/\ s.active = "wheel_distance" /\ s.baseline # 0 /\ time > s.baseline
                     /\ time - s.baseline <= Interval)
  OBVIOUS
<1>16. \/ Quiet(engine) \/ Quiet(e) \/ Quiet(DropDistance(e)) \/ Quiet(DropDistance(next))
       \/ /\ engine' \in {sampled, next, DropDistance(e)}
          /\ Publish("wheel_distance") \/ output' = "none"
          /\ news' = OldNews
          /\ unfenced' \in BOOLEAN
          /\ UNCHANGED <<config, measured, vehicle>>
  BY <1>3, <1>5, <1>7, <1>9, <1>11, <1>13, <1>15 DEF Distance, StillUnfenced
<1>17. /\ DropDistance(e) \in Engines /\ SameWheels(engine, DropDistance(e))
       /\ DropDistance(next) \in Engines /\ SameWheels(engine, DropDistance(next))
  BY <1>4, <1>12, DropDistanceType, SameTrans
<1>18. "wheel_distance" \in Sources
  BY DEF Sources, Modes
<1>19. CASE Quiet(engine) \/ Quiet(e) \/ Quiet(DropDistance(e)) \/ Quiet(DropDistance(next))
  BY <1>1, <1>4, <1>17, <1>19, QuietElsewhere
<1>20. CASE /\ engine' \in {sampled, next, DropDistance(e)}
            /\ Publish("wheel_distance") \/ output' = "none"
            /\ news' = OldNews
            /\ unfenced' \in BOOLEAN
            /\ UNCHANGED <<config, measured, vehicle>>
  BY <1>12, <1>14, <1>17, <1>18, <1>20, PublishType DEF Elsewhere
<1>21. QED
  BY <1>16, <1>19, <1>20

LEMMA RpmElsewhere ==
  ASSUME WheelInvariant, NEW kind, Rpm(kind)
  PROVE  Elsewhere
<1>1. engine \in Engines
  BY DEF WheelInvariant, TypeOK
<1>2. PICK age : age = IF kind = "infinite" THEN Stale
                       ELSE IF kind = "genuine" /\ config.mapped THEN 0 ELSE engine.legacy_age
  OBVIOUS
<1>3. PICK heard : heard = [engine EXCEPT !.legacy_age = age]
  OBVIOUS
<1>4. heard \in Engines /\ SameWheels(engine, heard)
  <2>1. age \in Ages
    BY <1>1, <1>2, Numbers DEF Engines
  <2>2. QED
    BY <1>1, <1>3, <2>1 DEF Engines, SameWheels
<1>5. /\ engine' = Selected(heard)
      /\ Publish("ardupilot_legacy") \/ output' = "none"
      /\ news' = OldNews
      /\ unfenced' \in BOOLEAN
      /\ UNCHANGED <<config, measured, vehicle>>
  BY <1>2, <1>3 DEF Rpm, StillUnfenced
<1>6. "ardupilot_legacy" \in Sources
  BY DEF Sources, Modes
<1>7. QED
  BY <1>4, <1>5, <1>6, SelectedType, SameTrans, PublishType DEF Elsewhere

LEMMA PollElsewhere ==
  ASSUME WheelInvariant, Poll
  PROVE  Elsewhere
<1>1. engine \in Engines
  BY DEF WheelInvariant, TypeOK
<1>2. QED
  BY <1>1, SelectedType, QuietElsewhere DEF Poll

LEMMA ForgetKeeps ==
  ASSUME WheelInvariant, NEW connected \in BOOLEAN, Forget(connected)
  PROVE  WheelInvariant'
<1>1. engine' \in Engines /\ Owns(engine', measured')
  BY BlankType DEF Forget, Owns
<1>2. measured' \in [Slots -> Components \cup {0}]
  BY Numbers DEF Forget
<1>3. QED
  BY <1>1, <1>2 DEF WheelInvariant, TypeOK, Forget

LEMMA ReconfigureKeeps ==
  ASSUME WheelInvariant, NEW next \in Configs, NEW swap \in BOOLEAN, Reconfigure(next, swap)
  PROVE  WheelInvariant'
<1>1. engine \in Engines /\ Owns(engine, measured) /\ TypeOK
  BY DEF WheelInvariant, TypeOK
<1>2. engine' \in Engines /\ Owns(engine', measured')
  BY <1>1, RetainedOwns DEF Reconfigure
<1>3. measured' \in [Slots -> Components \cup {0}]
  BY <1>1, SeatType DEF Reconfigure, TypeOK
<1>4. QED
  BY <1>1, <1>2, <1>3 DEF WheelInvariant, TypeOK, Reconfigure

LEMMA OlderType ==
  ASSUME NEW age \in Ages
  PROVE  Older(age) \in Ages
BY WheelAssumption DEF Older, Ages, Stale

LEMMA TickKeeps ==
  ASSUME WheelInvariant, Tick
  PROVE  WheelInvariant'
<1>1. engine \in Engines /\ Owns(engine, measured)
  BY DEF WheelInvariant, TypeOK
<1>2. PICK status : status = [w \in Slots |->
                      [engine.status[w] EXCEPT !.age = Older(engine.status[w].age)]]
  OBVIOUS
<1>3. \A w \in Slots : status[w] \in Seen /\ status[w].time = engine.status[w].time
  <2>1. \A w \in Slots : engine.status[w] \in Seen
    BY <1>1 DEF Engines, Seen
  <2>2. QED
    BY <1>2, <2>1, OlderType DEF Seen
<1>4. PICK distance : distance = [engine.distance EXCEPT !.age = Older(engine.distance.age)]
  OBVIOUS
<1>5. distance \in Readings
  BY <1>1, <1>4, OlderType DEF Engines, Readings
<1>6. PICK e : e = [engine EXCEPT !.owner_age = Older(engine.owner_age),
                                  !.legacy_age = Older(engine.legacy_age),
                                  !.distance = distance, !.status = status]
  OBVIOUS
<1>7. e \in Engines
  <2>1. Older(engine.owner_age) \in Ages /\ Older(engine.legacy_age) \in Ages
    BY <1>1, OlderType DEF Engines
  <2>2. status \in [Slots -> Seen]
    BY <1>2, <1>3
  <2>3. QED
    BY <1>1, <1>5, <1>6, <2>1, <2>2 DEF Engines, Seen, Readings
<1>8. e.status = status /\ e.owner = engine.owner
  BY <1>1, <1>6 DEF Engines
<1>9. Quiet(e)
  BY <1>1, <1>2, <1>4, <1>6 DEF Tick, Engines
<1>10. Owns(e, measured)
  BY <1>1, <1>3, <1>8 DEF Owns
<1>11. QED
  BY <1>7, <1>9, <1>10, QuietKeeps

LEMMA WheelInit ==
  ASSUME Init
  PROVE  WheelInvariant
<1>1. engine \in Engines /\ Owns(engine, measured)
  BY BlankType DEF Init, Owns
<1>2. measured \in [Slots -> Components \cup {0}]
  BY Numbers DEF Init
<1>3. QED
  BY <1>1, <1>2 DEF Init, WheelInvariant, TypeOK

\* What a producer sends is of slots of the engine.
LEMMA StatusReported ==
  ASSUME WheelInvariant, NEW c, StatusFrom(c)
  PROVE  \E slots \in SUBSET Slots, time \in 1..vehicle.times :
           \E conflict \in SUBSET slots : Status(c, slots, time, conflict)
<1>1. PICK slots \in SUBSET vehicle.slots \ {{}}, time \in 1..vehicle.times :
        \E conflict \in SUBSET (slots \cap Wheels) : Status(c, slots, time, conflict)
  BY DEF StatusFrom
<1>2. PICK conflict \in SUBSET (slots \cap Wheels) : Status(c, slots, time, conflict)
  BY <1>1
<1>3. slots \in SUBSET Slots /\ conflict \in SUBSET slots
  BY WheelAssumption DEF WheelInvariant, TypeOK
<1>4. QED
  BY <1>2, <1>3

LEMMA InfoReported ==
  ASSUME NEW c, InfoFrom(c)
  PROVE  \E counted \in SUBSET Slots, regressed \in BOOLEAN : Info(c, counted, regressed)
BY DEF InfoFrom

LEMMA WheelStep ==
  ASSUME WheelInvariant, [Next]_vars
  PROVE  WheelInvariant'
<1>1. CASE \E c \in vehicle.status : StatusFrom(c)
  BY <1>1, StatusReported, StatusKeeps
<1>2. CASE \E c \in vehicle.status : InfoFrom(c)
  BY <1>2, InfoReported, InfoKeeps
<1>3. CASE \E c \in vehicle.encoders, time \in 1..vehicle.times,
              good, conflict, plausible \in BOOLEAN :
             Distance(c, time, good, conflict, plausible)
  BY <1>3, DistanceElsewhere, ElsewhereKeeps
<1>4. CASE \E kind \in {"infinite", "unpaired", "genuine"} : Rpm(kind)
  BY <1>4, RpmElsewhere, ElsewhereKeeps
<1>5. CASE Poll
  BY <1>5, PollElsewhere, ElsewhereKeeps
<1>6. CASE ClockBack \/ LinkChanges
  <2>1. PICK connected \in BOOLEAN : connected = ~engine.connected
    OBVIOUS
  <2>2. engine.connected \in BOOLEAN
    BY DEF WheelInvariant, TypeOK, Engines
  <2>3. QED
    BY <1>6, <2>1, <2>2, ForgetKeeps DEF ClockBack, LinkChanges
<1>7. CASE \E next \in Configs, swap \in BOOLEAN : Reconfigure(next, swap)
  BY <1>7, ReconfigureKeeps
<1>8. CASE Tick
  BY <1>8, TickKeeps
<1>9. CASE UNCHANGED vars
  BY <1>9 DEF vars, WheelInvariant, TypeOK, Owns
<1>10. QED
  BY <1>1, <1>2, <1>3, <1>4, <1>5, <1>6, <1>7, <1>8, <1>9 DEF Next

-----------------------------------------------------------------------------
(***************************************************************************)
(* Fresh pairs and sound intervals.  A wheel that is not news is no newer  *)
(* than its floor, or not measured since the parameters changed; so what   *)
(* PublishesPair asks of both wheels, only news can give.  Floors do not   *)
(* matter while another source is active, or before the first pair of an   *)
(* epoch: what ends these puts them under whatever is cached.              *)
(***************************************************************************)
Others == {"wheel_distance", "ardupilot_legacy"}

Fenced(e, fresh) ==
  \A w \in Wheels \ fresh : e.status[w].time <= e.floor[w] \/ w \in e.fence

Covered(e, fresh, exempt) ==
  config.mapped /\ e.active \notin Others /\ ~e.epoch_baseline_needed /\ ~exempt
    => Fenced(e, fresh)

\* The distance is the source only where it may be, and its baseline is its last reading.
Based(e) ==
  /\ e.active = "wheel_distance" => MayUse("wheel_distance")
  /\ e.baseline # 0 => /\ e.active = "wheel_distance"
                       /\ e.baseline = e.distance.time /\ e.distance.by # 0

PairInvariant ==
  /\ Based(engine)
  /\ Covered(engine, OldNews, StillUnfenced)
  /\ FreshPair

\* What the fences depend on.
SameFence(e, f) ==
  /\ f.active = e.active /\ f.floor = e.floor /\ f.fence = e.fence
  /\ f.epoch_baseline_needed = e.epoch_baseline_needed
  /\ \A w \in Wheels : f.status[w].time = e.status[w].time

SameBase(e, f) ==
  /\ f.active = e.active /\ f.baseline = e.baseline
  /\ f.distance.time = e.distance.time /\ f.distance.by = e.distance.by

\* What measuring these slots anew leaves alone.
MeasuredAnew(e, f, new) ==
  /\ f.active = e.active /\ f.floor = e.floor /\ SameBase(e, f)
  /\ f.epoch_baseline_needed = e.epoch_baseline_needed
  /\ f.fence = e.fence \ new
  /\ \A w \in Slots \ new : f.status[w].time = e.status[w].time

LEMMA SameCovers ==
  ASSUME NEW e, NEW f, NEW fresh, NEW exempt, Covered(e, fresh, exempt), SameFence(e, f)
  PROVE  Covered(f, fresh, exempt)
BY DEF SameFence, Covered, Fenced

LEMMA SameBased ==
  ASSUME NEW e, NEW f, Based(e), SameBase(e, f)
  PROVE  Based(f)
BY DEF SameBase, Based

LEMMA SelectParts ==
  ASSUME NEW e \in Engines, NEW update \in BOOLEAN, NEW previous \in [Wheels -> Times],
         NEW f, f = Select(e, update, previous)
  PROVE  /\ f.status = e.status /\ f.fence = e.fence /\ f.distance = e.distance
         /\ f.epoch_baseline_needed = e.epoch_baseline_needed
         /\ f.active = Choice(e)
         /\ Choice(e) = e.active => f = e
         /\ Choice(e) # e.active =>
              /\ f.floor = FloorAfter(e, Choice(e), update, previous)
              /\ f.baseline = IF Choice(e) = "wheel_distance" THEN e.distance.time ELSE 0
<1>1. PICK next : next = Choice(e)
  OBVIOUS
<1>2. PICK floor, baseline :
        /\ floor = FloorAfter(e, next, update, previous)
        /\ baseline = IF next = "wheel_distance" THEN e.distance.time ELSE 0
  OBVIOUS
<1>3. PICK g : g = [e EXCEPT !.last_sample = 0, !.floor = floor, !.baseline = baseline,
                             !.active = next]
  OBVIOUS
<1>4. /\ g.status = e.status /\ g.fence = e.fence /\ g.distance = e.distance
      /\ g.epoch_baseline_needed = e.epoch_baseline_needed
      /\ g.active = next /\ g.floor = floor /\ g.baseline = baseline
  BY <1>3 DEF Engines
<1>5. f = IF next = e.active THEN e ELSE g
  BY <1>1, <1>2, <1>3 DEF Select
<1>6. QED
  BY <1>1, <1>2, <1>4, <1>5

LEMMA SelectedParts ==
  ASSUME NEW e \in Engines, NEW f, f = Selected(e)
  PROVE  /\ f.distance = e.distance /\ f.active = Choice(e)
         /\ Choice(e) = e.active => f = e
         /\ Choice(e) # e.active =>
              f.baseline = IF Choice(e) = "wheel_distance" THEN e.distance.time ELSE 0
<1>1. e.floor \in [Wheels -> Times]
  BY DEF Engines
<1>2. PICK update \in BOOLEAN : update = FALSE
  OBVIOUS
<1>3. f = Select(e, update, e.floor)
  BY <1>2 DEF Selected
<1>4. QED
  BY <1>1, <1>3, SelectParts

LEMMA ChoiceKinds ==
  ASSUME NEW e
  PROVE  /\ Choice(e) \in {"none", "esc_status"} \cup Others
         /\ Choice(e) = "wheel_distance" => MayUse("wheel_distance") /\ e.distance.by # 0
BY DEF Choice, Others

LEMMA SelectBased ==
  ASSUME NEW e \in Engines, NEW update \in BOOLEAN, NEW previous \in [Wheels -> Times], Based(e)
  PROVE  Based(Select(e, update, previous))
<1>1. PICK f : f = Select(e, update, previous)
  OBVIOUS
<1>2. QED
  BY <1>1, SelectParts, ChoiceKinds DEF Based

\* The cases of FloorAfter, where ESC_STATUS has parameters.
LEMMA FloorCases ==
  ASSUME NEW e, NEW next \in {"none", "esc_status"} \cup Others, NEW update \in BOOLEAN,
         NEW previous, NEW floor, floor = FloorAfter(e, next, update, previous),
         config.mapped, next # e.active
  PROVE  \/ floor = TimesOf(e)
         \/ floor = previous /\ update /\ next = "esc_status"
         \/ floor = e.floor /\ next = "none" /\ e.active = "esc_status"
         \/ floor = e.floor /\ next = "esc_status" /\ e.active = "none" /\ update
<1>1. CASE next \in Others
  BY <1>1 DEF FloorAfter, Others
<1>2. CASE next = "none"
  BY <1>2 DEF FloorAfter
<1>3. CASE next = "esc_status"
  BY <1>3 DEF FloorAfter
<1>4. QED
  BY <1>1, <1>2, <1>3

LEMMA TimesOfWheel ==
  ASSUME NEW e, NEW w \in Wheels
  PROVE  TimesOf(e)[w] = e.status[w].time
BY DEF TimesOf

LEMMA StatusTimes ==
  ASSUME NEW e \in Engines, NEW w \in Slots
  PROVE  e.status[w].time \in Nat
BY Numbers DEF Engines

\* Selecting another source keeps the floors, or puts them under what is cached, or under what
\* was cached before the STATUS that made the pair available again.
LEMMA SelectCovered ==
  ASSUME NEW e \in Engines, NEW update \in BOOLEAN, NEW previous \in [Wheels -> Times],
         NEW fresh, NEW exempt, Covered(e, fresh, exempt),
         update /\ ~e.epoch_baseline_needed =>
           \A w \in Wheels \ fresh : e.status[w].time <= previous[w]
  PROVE  Covered(Select(e, update, previous), fresh, exempt)
<1>1. PICK f : f = Select(e, update, previous)
  OBVIOUS
<1>2. CASE Choice(e) = e.active
  BY <1>1, <1>2, SelectParts
<1>3. CASE Choice(e) # e.active
  <2>1. /\ f.status = e.status /\ f.fence = e.fence /\ f.active = Choice(e)
        /\ f.epoch_baseline_needed = e.epoch_baseline_needed
        /\ f.floor = FloorAfter(e, Choice(e), update, previous)
    BY <1>1, <1>3, SelectParts
  <2>2. SUFFICES ASSUME config.mapped, f.active \notin Others, ~f.epoch_baseline_needed, ~exempt,
                        NEW w \in Wheels \ fresh, w \notin f.fence
                 PROVE  f.status[w].time <= f.floor[w]
    BY <1>1 DEF Covered, Fenced
  <2>3. e.status[w].time \in Nat /\ TimesOf(e)[w] = e.status[w].time
    BY WheelSlots, TimesOfWheel, StatusTimes
  <2>4. e.active \notin Others => e.status[w].time <= e.floor[w]
    BY <2>1, <2>2 DEF Covered, Fenced
  <2>5. update => e.status[w].time <= previous[w]
    BY <2>1, <2>2
  <2>6. \/ f.floor = TimesOf(e)
        \/ f.floor = previous /\ update
        \/ f.floor = e.floor /\ e.active \in {"none", "esc_status"}
    BY <1>3, <2>1, <2>2, ChoiceKinds, FloorCases
  <2>7. e.active \in {"none", "esc_status"} => e.active \notin Others
    BY DEF Others
  <2>8. QED
    BY <2>1, <2>3, <2>4, <2>5, <2>6, <2>7
<1>4. QED
  BY <1>2, <1>3

LEMMA SelectedCovered ==
  ASSUME NEW e \in Engines, NEW fresh, NEW exempt, Covered(e, fresh, exempt)
  PROVE  Covered(Selected(e), fresh, exempt)
<1>1. e.floor \in [Wheels -> Times]
  BY DEF Engines
<1>2. QED
  BY <1>1, SelectCovered DEF Selected

LEMMA SelectedBased ==
  ASSUME NEW e \in Engines, Based(e)
  PROVE  Based(Selected(e))
<1>1. e.floor \in [Wheels -> Times]
  BY DEF Engines
<1>2. QED
  BY <1>1, SelectBased DEF Selected

\* A source that is selected after none puts the floors under what is cached.
LEMMA SelectedAfterNone ==
  ASSUME NEW e \in Engines, e.active = "none", Selected(e).active # "none", NEW fresh, NEW exempt
  PROVE  Covered(Selected(e), fresh, exempt)
<1>1. PICK f : f = Selected(e)
  OBVIOUS
<1>2. e.floor \in [Wheels -> Times]
  BY DEF Engines
<1>3. /\ f.status = e.status /\ f.active = Choice(e) /\ Choice(e) # e.active
      /\ f.floor = FloorAfter(e, Choice(e), FALSE, e.floor)
  <2>1. PICK update \in BOOLEAN : update = FALSE
    OBVIOUS
  <2>2. f = Select(e, update, e.floor)
    BY <1>1, <2>1 DEF Selected
  <2>3. /\ f.status = e.status /\ f.active = Choice(e)
        /\ Choice(e) # e.active => f.floor = FloorAfter(e, Choice(e), update, e.floor)
    BY <1>2, <2>2, SelectParts
  <2>4. f.active # e.active
    BY <1>1
  <2>5. QED
    BY <2>1, <2>3, <2>4
<1>4. CASE config.mapped
  <2>1. PICK next \in {"none", "esc_status"} \cup Others : next = Choice(e)
    BY ChoiceKinds
  <2>2. next # e.active /\ next # "none" /\ f.floor = FloorAfter(e, next, FALSE, e.floor)
    BY <1>1, <1>3, <2>1
  <2>3. f.floor = TimesOf(e)
    BY <1>4, <2>2 DEF FloorAfter
  <2>4. ASSUME NEW w \in Wheels
        PROVE  f.status[w].time <= f.floor[w]
    <3>1. e.status[w].time \in Nat /\ TimesOf(e)[w] = e.status[w].time
      BY WheelSlots, TimesOfWheel, StatusTimes
    <3>2. f.status[w].time = e.status[w].time /\ f.floor[w] = e.status[w].time
      BY <1>3, <2>3, <3>1
    <3>3. QED
      BY <3>1, <3>2
  <2>5. QED
    BY <1>1, <2>4 DEF Covered, Fenced
<1>5. QED
  BY <1>1, <1>4 DEF Covered

LEMMA UnseenCovered ==
  ASSUME NEW e \in Engines, \A w \in Slots : e.status[w].time = 0, NEW fresh, NEW exempt
  PROVE  Covered(e, fresh, exempt)
<1>1. \A w \in Wheels : e.floor[w] \in Nat
  BY Numbers DEF Engines
<1>2. \A w \in Wheels : e.status[w].time <= e.floor[w]
  BY <1>1, WheelSlots
<1>3. QED
  BY <1>2 DEF Covered, Fenced

LEMMA ResetCommonParts ==
  ASSUME NEW e \in Engines
  PROVE  /\ ResetCommon(e).baseline = e.baseline /\ ResetCommon(e).distance = e.distance
         /\ ResetCommon(e).active = IF e.active = "esc_status" THEN "none" ELSE e.active
<1>1. PICK b : b = Blank(e.connected)
  OBVIOUS
<1>2. PICK f :
        f = [e EXCEPT !.owner = 0, !.lease = FALSE, !.owner_age = Stale, !.status = b.status,
                      !.counted = Slots, !.floor = b.floor, !.epoch_baseline_needed = FALSE,
                      !.fence = {}]
  OBVIOUS
<1>3. /\ f.baseline = e.baseline /\ f.distance = e.distance /\ f.active = e.active
      /\ DOMAIN f = DOMAIN e
  BY <1>2 DEF Engines
<1>4. PICK g : g = [f EXCEPT !.active = "none", !.last_sample = 0]
  OBVIOUS
<1>5. g.baseline = f.baseline /\ g.distance = f.distance /\ g.active = "none"
  BY <1>2, <1>4 DEF Engines
<1>6. ResetCommon(e) = IF f.active = "esc_status" THEN g ELSE f
  BY <1>1, <1>2, <1>4 DEF ResetCommon, Leave
<1>7. QED
  BY <1>3, <1>5, <1>6

LEMMA ResetCommonBased ==
  ASSUME NEW e \in Engines, Based(e)
  PROVE  Based(ResetCommon(e))
BY ResetCommonParts DEF Based

LEMMA StatusOwnerPair ==
  ASSUME NEW e \in Engines, NEW c \in Components, Based(e), NEW fresh, NEW exempt,
         Covered(e, fresh, exempt)
  PROVE  /\ Based(StatusOwner(e, c))
         /\ e.owner \in {0, c} => Covered(StatusOwner(e, c), fresh, exempt)
         /\ e.owner \notin {0, c} => Covered(StatusOwner(e, c), {}, FALSE)
<1>1. PICK base : base = IF e.owner \in {0, c} THEN e ELSE ResetCommon(e)
  OBVIOUS
<1>2. base \in Engines /\ Based(base)
  BY <1>1, ResetCommonType, ResetCommonBased
<1>3. PICK f : f = [base EXCEPT !.owner = c, !.lease = TRUE]
  OBVIOUS
<1>4. StatusOwner(e, c) = f
  BY <1>1, <1>3 DEF StatusOwner
<1>5. SameBase(base, f) /\ SameFence(base, f)
  BY <1>2, <1>3 DEF Engines, SameBase, SameFence
<1>6. e.owner \notin {0, c} => Covered(base, {}, FALSE)
  BY <1>1, ResetCommonType, UnseenCovered
<1>7. e.owner \in {0, c} => Covered(base, fresh, exempt)
  BY <1>1
<1>8. QED
  BY <1>2, <1>4, <1>5, <1>6, <1>7, SameBased, SameCovers

LEMMA NewEpochPair ==
  ASSUME NEW e \in Engines, Based(e)
  PROVE  Based(NewEpoch(e)) /\ NewEpoch(e).epoch_baseline_needed
<1>1. PICK base : base = ResetCommon(e)
  OBVIOUS
<1>2. base \in Engines /\ Based(base)
  BY <1>1, ResetCommonType, ResetCommonBased
<1>3. PICK f : f = [base EXCEPT !.owner = e.owner, !.lease = TRUE, !.epoch_baseline_needed = TRUE]
  OBVIOUS
<1>4. SameBase(base, f) /\ f.epoch_baseline_needed
  BY <1>2, <1>3 DEF Engines, SameBase
<1>5. QED
  BY <1>1, <1>2, <1>3, <1>4, SameBased DEF NewEpoch

LEMMA MeasureParts ==
  ASSUME NEW e \in Engines, NEW slots \in SUBSET Slots, NEW time \in Times,
         NEW conflict \in SUBSET slots, NEW f, f = Measure(e, slots, time, conflict)
  PROVE  MeasuredAnew(e, f, NewlyMeasured(e, slots, time))
<1>1. PICK new : new = NewlyMeasured(e, slots, time)
  OBVIOUS
<1>2. PICK status :
        status = [w \in Slots |->
                    IF w \in new THEN [time |-> time, age |-> 0, valid |-> TRUE]
                    ELSE IF w \in conflict \cap slots \cap e.counted
                    THEN [e.status[w] EXCEPT !.valid = FALSE]
                    ELSE e.status[w]]
  OBVIOUS
<1>3. \A w \in Slots : e.status[w] \in Seen
  BY DEF Engines, Seen
<1>4. \A s \in Seen : [s EXCEPT !.valid = FALSE].time = s.time
  BY DEF Seen
<1>5. \A w \in Slots \ new : status[w].time = e.status[w].time
  BY <1>2, <1>3, <1>4
<1>6. PICK age : age = IF new = {} THEN e.owner_age ELSE 0
  OBVIOUS
<1>7. PICK g : g = [e EXCEPT !.status = status, !.owner_age = age, !.fence = e.fence \ new]
  OBVIOUS
<1>8. /\ g.active = e.active /\ g.floor = e.floor /\ SameBase(e, g)
      /\ g.epoch_baseline_needed = e.epoch_baseline_needed
      /\ g.fence = e.fence \ new /\ g.status = status
  BY <1>7 DEF Engines, SameBase
<1>9. f = g
  BY <1>1, <1>2, <1>6, <1>7 DEF Measure, Engines
<1>10. QED
  BY <1>1, <1>5, <1>8, <1>9 DEF MeasuredAnew

\* What is measured anew is news; the rest is as old as it was.
LEMMA MeasureCovered ==
  ASSUME NEW e \in Engines, NEW slots \in SUBSET Slots, NEW time \in Times,
         NEW conflict \in SUBSET slots, NEW fresh, NEW exempt, Covered(e, fresh, exempt)
  PROVE  Covered(Measure(e, slots, time, conflict),
                 fresh \cup (NewlyMeasured(e, slots, time) \cap Wheels), exempt)
<1>1. PICK f, new : /\ f = Measure(e, slots, time, conflict)
                    /\ new = NewlyMeasured(e, slots, time)
  OBVIOUS
<1>2. MeasuredAnew(e, f, new)
  BY <1>1, MeasureParts
<1>3. ASSUME Fenced(e, fresh), NEW w \in Wheels \ (fresh \cup (new \cap Wheels))
      PROVE  f.status[w].time <= f.floor[w] \/ w \in f.fence
  <2>1. e.status[w].time <= e.floor[w] \/ w \in e.fence
    BY <1>3 DEF Fenced
  <2>2. w \in Slots \ new
    BY <1>3, WheelSlots
  <2>3. QED
    BY <1>2, <2>1, <2>2 DEF MeasuredAnew
<1>4. Fenced(e, fresh) => Fenced(f, fresh \cup (new \cap Wheels))
  BY <1>3 DEF Fenced
<1>5. Covered(f, fresh \cup (new \cap Wheels), exempt)
  BY <1>2, <1>4 DEF Covered, MeasuredAnew
<1>6. QED
  BY <1>1, <1>5

LEMMA AfterPairParts ==
  ASSUME NEW e \in Engines
  PROVE  /\ SameBase(e, AfterPair(e)) /\ AfterPair(e).fence = e.fence
         /\ AfterPair(e).active = e.active /\ AfterPair(e).status = e.status
         /\ \/ AfterPair(e) = e /\ ~PublishesPair(e)
            \/ AfterPair(e).floor = TimesOf(e)
<1>1. PICK times, larger : times = TimesOf(e) /\ larger = LargerTime(e)
  OBVIOUS
<1>2. PICK f : f = [e EXCEPT !.floor = times, !.last_sample = larger]
  OBVIOUS
<1>3. PICK g : g = [e EXCEPT !.floor = times, !.epoch_baseline_needed = FALSE]
  OBVIOUS
<1>4. /\ SameBase(e, e) /\ SameBase(e, f) /\ SameBase(e, g)
      /\ f.fence = e.fence /\ g.fence = e.fence /\ f.active = e.active /\ g.active = e.active
      /\ f.status = e.status /\ g.status = e.status /\ f.floor = times /\ g.floor = times
  BY <1>2, <1>3 DEF Engines, SameBase
<1>5. \/ AfterPair(e) \in {f, g}
      \/ AfterPair(e) = e /\ ~PublishesPair(e)
  BY <1>1, <1>2, <1>3 DEF AfterPair
<1>6. QED
  BY <1>1, <1>4, <1>5

LEMMA FloorsFence ==
  ASSUME NEW e \in Engines, NEW f, f.status = e.status, f.floor = TimesOf(e), NEW fresh
  PROVE  Fenced(f, fresh)
<1>1. ASSUME NEW w \in Wheels
      PROVE  f.status[w].time <= f.floor[w]
  <2>1. f.status[w].time = e.status[w].time /\ f.floor[w] = e.status[w].time
    BY TimesOfWheel
  <2>2. QED
    BY <2>1, WheelSlots, StatusTimes
<1>2. QED
  BY <1>1 DEF Fenced

\* The pair that is published is news.
LEMMA PublishedIsNews ==
  ASSUME NEW e \in Engines, NEW fresh \in SUBSET Wheels, NEW exempt, Covered(e, fresh, exempt),
         PublishesPair(e)
  PROVE  fresh = Wheels \/ exempt
<1>1. /\ config.mapped /\ e.active \notin Others /\ ~e.epoch_baseline_needed /\ e.fence = {}
  BY DEF PublishesPair, CommonAvailable, Others
<1>2. ASSUME ~exempt, NEW w \in Wheels, w \notin fresh
      PROVE  FALSE
  <2>1. e.status[w].time <= e.floor[w]
    BY <1>1, <1>2 DEF Covered, Fenced
  <2>2. e.status[w].time > e.floor[w]
    BY DEF PublishesPair, PairIsNew
  <2>3. e.status[w].time \in Nat /\ e.floor[w] \in Nat
    BY Numbers, WheelSlots, StatusTimes DEF Engines
  <2>4. QED
    BY <2>1, <2>2, <2>3
<1>3. QED
  BY <1>2

-----------------------------------------------------------------------------
(* ... and the handlers again. *)

LEMMA PairClose ==
  ASSUME NEW f, engine' = f, config' = config, Based(f), Covered(f, news', unfenced'),
         output' # "none" => f.active \in Others \/ Fenced(f, {}),
         output' = "esc_status" => news' = Wheels \/ unfenced'
  PROVE  PairInvariant'
<1>1. Based(engine)'
  BY DEF Based, MayUse
<1>2. CASE output' = "none" /\ f.active \notin Others
  <2>1. OldNews' = news' /\ (StillUnfenced' <=> unfenced')
    BY <1>2 DEF OldNews, StillUnfenced, Superseded, Others
  <2>2. Covered(engine, OldNews, StillUnfenced)'
    BY <2>1 DEF Covered, Fenced
  <2>3. QED
    BY <1>1, <1>2, <2>2 DEF PairInvariant, FreshPair
<1>3. CASE f.active \in Others
  BY <1>1, <1>3 DEF PairInvariant, FreshPair, Covered
<1>4. CASE output' # "none" /\ Fenced(f, {})
  <2>1. OldNews' = {}
    BY <1>4 DEF OldNews, Superseded
  <2>2. Covered(engine, OldNews, StillUnfenced)'
    BY <1>4, <2>1 DEF Covered, Fenced
  <2>3. QED
    BY <1>1, <2>2 DEF PairInvariant, FreshPair
<1>5. QED
  BY <1>2, <1>3, <1>4

LEMMA QuietPair ==
  ASSUME NEW f, Quiet(f), Based(f), Covered(f, OldNews, StillUnfenced)
  PROVE  PairInvariant'
<1>1. /\ engine' = f /\ config' = config /\ output' = "none" /\ news' = OldNews
      /\ unfenced' = StillUnfenced
  BY DEF Quiet
<1>2. Covered(f, news', unfenced')
  BY <1>1
<1>3. QED
  BY <1>1, <1>2, PairClose

LEMMA StatusPair ==
  ASSUME WheelInvariant, PairInvariant, NEW c \in vehicle.status, NEW slots \in SUBSET Slots,
         NEW time \in 1..vehicle.times, NEW conflict \in SUBSET slots,
         Status(c, slots, time, conflict)
  PROVE  PairInvariant'
<1>1. /\ TypeOK /\ engine \in Engines /\ Owns(engine, measured) /\ vehicle \in Vehicles
      /\ OldNews \subseteq Wheels
      /\ Based(engine) /\ Covered(engine, OldNews, StillUnfenced)
  BY OldNewsType DEF WheelInvariant, TypeOK, PairInvariant
<1>2. c \in Components /\ time \in Times
  BY <1>1, WheelAssumption, Numbers DEF Components
<1>3. CASE StatusRefused(engine, c)
  BY <1>1, <1>3, QuietPair DEF Status
<1>4. CASE ~StatusRefused(engine, c)
  <2>0. PICK owned, epoch, now, new, e :
          StatusAccepted(c, slots, time, conflict, owned, epoch, now, new, e)
    BY <1>4, StatusParts, Zenon
  <2>1. /\ owned = StatusOwner(engine, c)
        /\ epoch = IF Regressed(owned, slots, time) THEN NewEpoch(owned) ELSE owned
        /\ now = Measure(epoch, slots, time, conflict)
        /\ new = NewlyMeasured(epoch, slots, time)
        /\ e = Select(now, TRUE, TimesOf(owned))
        /\ engine' = AfterPair(e)
        /\ IF PublishesPair(e) THEN Publish("esc_status") ELSE output' = "none"
        /\ news' = IF Regressed(owned, slots, time) THEN {}
                   ELSE (IF engine.owner \in {0, c} THEN OldNews ELSE {}) \cup (new \cap Wheels)
        /\ unfenced' = (StillUnfenced /\ engine.owner \in {0, c})
        /\ measured' = [w \in Slots |-> IF w \in new THEN c ELSE measured[w]]
        /\ UNCHANGED <<config, vehicle>>
    BY <2>0 DEF StatusAccepted
  <2>2. PICK old : old = IF engine.owner \in {0, c} THEN OldNews ELSE {}
    OBVIOUS
  <2>3. owned \in Engines /\ Based(owned) /\ Covered(owned, old, unfenced')
    <3>1. owned \in Engines /\ Based(owned)
      BY <1>1, <1>2, <2>1, StatusOwnerOwns, StatusOwnerPair
    <3>2. CASE engine.owner \in {0, c}
      <4>1. Covered(owned, OldNews, StillUnfenced)
        BY <1>1, <1>2, <2>1, <3>2, StatusOwnerPair
      <4>2. unfenced' = StillUnfenced /\ old = OldNews
        BY <2>1, <2>2, <3>2 DEF StillUnfenced
      <4>3. QED
        BY <3>1, <4>1, <4>2
    <3>3. CASE engine.owner \notin {0, c}
      <4>1. Covered(owned, {}, FALSE)
        BY <1>1, <1>2, <2>1, <3>3, StatusOwnerPair
      <4>2. unfenced' = FALSE /\ old = {}
        BY <2>1, <2>2, <3>3
      <4>3. QED
        BY <3>1, <4>1, <4>2
    <3>4. QED
      BY <3>2, <3>3
  <2>4. epoch \in Engines /\ Based(epoch)
    BY <1>1, <1>2, <2>1, <2>3, StatusOwnerOwns, NewEpochOwns, NewEpochPair
  <2>5. now \in Engines /\ Based(now)
    <3>1. epoch.owner # 0 /\ Owns(epoch, measured)
      <4>1. owned.owner = c /\ Owns(owned, measured)
        BY <1>1, <1>2, <2>1, StatusOwnerOwns
      <4>2. epoch.owner = c /\ Owns(epoch, measured)
        BY <2>1, <2>3, <4>1, NewEpochOwns
      <4>3. QED
        BY <1>2, <4>2 DEF Components
    <3>2. now \in Engines
      BY <1>2, <2>1, <2>4, <3>1, MeasureOwns
    <3>3. SameBase(epoch, now)
      BY <1>2, <2>1, <2>4, MeasureParts DEF MeasuredAnew
    <3>4. QED
      BY <2>4, <3>2, <3>3, SameBased
  <2>6. TimesOf(owned) \in [Wheels -> Times]
    BY <2>3, TimesOfType
  <2>7. e \in Engines /\ Based(e)
    BY <2>1, <2>5, <2>6, SelectType, SelectBased
  <2>8. Covered(e, news', unfenced')
    <3>1. CASE Regressed(owned, slots, time)
      <4>1. epoch.epoch_baseline_needed
        BY <2>1, <2>3, <3>1, NewEpochPair
      <4>2. now.epoch_baseline_needed
        BY <1>2, <2>1, <2>4, <4>1, MeasureParts DEF MeasuredAnew
      <4>3. e.epoch_baseline_needed
        <5>1. PICK update \in BOOLEAN : update = TRUE
          OBVIOUS
        <5>2. e = Select(now, update, TimesOf(owned))
          BY <2>1, <5>1
        <5>3. e.epoch_baseline_needed = now.epoch_baseline_needed
          BY <2>5, <2>6, <5>2, SelectParts
        <5>4. QED
          BY <4>2, <5>3
      <4>4. QED
        BY <4>3 DEF Covered
    <3>2. CASE ~Regressed(owned, slots, time)
      <4>1. epoch = owned /\ news' = old \cup (new \cap Wheels)
        BY <2>1, <2>2, <3>2
      <4>2. Covered(now, news', unfenced')
        BY <1>2, <2>1, <2>3, <4>1, MeasureCovered
      <4>3. ASSUME NEW w \in Wheels \ news'
            PROVE  now.status[w].time <= TimesOf(owned)[w]
        <5>1. MeasuredAnew(owned, now, NewlyMeasured(owned, slots, time))
          <6>1. now = Measure(owned, slots, time, conflict)
            BY <2>1, <4>1
          <6>2. QED
            BY <1>2, <2>3, <6>1, MeasureParts
        <5>2. owned.status[w].time \in Nat /\ TimesOf(owned)[w] = owned.status[w].time
          BY <2>3, WheelSlots, StatusTimes, TimesOfWheel
        <5>3. w \in Slots \ NewlyMeasured(owned, slots, time)
          BY <2>1, <4>1, <4>3, WheelSlots
        <5>4. QED
          BY <5>1, <5>2, <5>3 DEF MeasuredAnew
      <4>4. QED
        BY <2>1, <2>5, <2>6, <4>2, <4>3, SelectCovered
    <3>3. QED
      BY <3>1, <3>2
  <2>9. news' \in SUBSET Wheels
    BY <1>1, <2>1
  <2>10. PICK f : f = AfterPair(e)
    OBVIOUS
  <2>11. /\ SameBase(e, f) /\ f.fence = e.fence /\ f.active = e.active /\ f.status = e.status
         /\ \/ f = e /\ ~PublishesPair(e)
            \/ f.floor = TimesOf(e)
    BY <2>7, <2>10, AfterPairParts
  <2>12. \/ f = e /\ ~PublishesPair(e)
         \/ Fenced(f, {}) /\ Fenced(f, news')
    BY <2>7, <2>11, FloorsFence
  <2>13. Based(f) /\ Covered(f, news', unfenced')
    BY <2>7, <2>8, <2>11, <2>12, SameBased DEF Covered
  <2>14. output' # "none" => PublishesPair(e)
    BY <2>1
  <2>15. output' # "none" => f.active \in Others \/ Fenced(f, {})
    BY <2>12, <2>14
  <2>16. output' = "esc_status" => news' = Wheels \/ unfenced'
    BY <2>7, <2>8, <2>9, <2>14, PublishedIsNews
  <2>17. QED
    BY <2>1, <2>10, <2>13, <2>15, <2>16, PairClose
<1>5. QED
  BY <1>3, <1>4

LEMMA InfoPair ==
  ASSUME WheelInvariant, PairInvariant, NEW c \in vehicle.status, NEW counted \in SUBSET Slots,
         NEW regressed \in BOOLEAN, Info(c, counted, regressed)
  PROVE  PairInvariant'
<1>1. /\ engine \in Engines /\ Owns(engine, measured) /\ vehicle \in Vehicles
      /\ Based(engine) /\ Covered(engine, OldNews, StillUnfenced)
  BY DEF WheelInvariant, TypeOK, PairInvariant
<1>2. c \in Components
  BY <1>1, WheelAssumption
<1>3. PICK base : base = IF engine.owner \in {0, c} THEN engine ELSE ResetCommon(engine)
  OBVIOUS
<1>4. /\ base \in Engines /\ Based(base) /\ Covered(base, OldNews, StillUnfenced)
  BY <1>1, <1>3, ResetCommonType, ResetCommonBased, UnseenCovered
<1>5. PICK e : e = [base EXCEPT !.owner = c]
  OBVIOUS
<1>6. e = InfoOwner(engine, c)
  BY <1>3, <1>5 DEF InfoOwner
<1>7. e \in Engines
  BY <1>1, <1>2, <1>6, InfoOwnerOwns
<1>8. Based(e) /\ Covered(e, OldNews, StillUnfenced)
  <2>1. SameBase(base, e) /\ SameFence(base, e)
    BY <1>4, <1>5 DEF Engines, SameBase, SameFence
  <2>2. QED
    BY <1>4, <2>1, SameBased, SameCovers
<1>9. PICK status : status = [w \in Slots |->
                      [e.status[w] EXCEPT !.valid = e.status[w].valid /\ w \in counted]]
  OBVIOUS
<1>10. PICK g : g = [e EXCEPT !.counted = counted, !.status = status]
  OBVIOUS
<1>11. g = Counted(e, counted) /\ g.status = status
  BY <1>7, <1>9, <1>10 DEF Counted, Engines
<1>12. \A w \in Slots : status[w].time = e.status[w].time
  BY <1>7, <1>9 DEF Engines
<1>13. g \in Engines
  BY <1>1, <1>2, <1>6, <1>7, <1>11, InfoOwnerOwns, CountedOwns
<1>14. Based(g) /\ Covered(g, OldNews, StillUnfenced)
  <2>1. SameBase(e, g)
    BY <1>7, <1>10 DEF Engines, SameBase
  <2>2. SameFence(e, g)
    BY <1>7, <1>10, <1>11, <1>12, WheelSlots DEF Engines, SameFence
  <2>3. QED
    BY <1>8, <2>1, <2>2, SameBased, SameCovers
<1>15. Quiet(engine) \/ Quiet(Selected(e)) \/ Quiet(Selected(g))
  BY <1>6, <1>11 DEF Info
<1>16. QED
  BY <1>1, <1>7, <1>8, <1>13, <1>14, <1>15, QuietPair, SelectedBased, SelectedCovered

LEMMA ResetDistanceParts ==
  ASSUME NEW e \in Engines, NEW f, f = ResetDistance(e)
  PROVE  /\ f.baseline = 0 /\ f.distance = NoDistance /\ Based(f)
         /\ f.connected = e.connected
         /\ f.active = IF e.active = "wheel_distance" THEN "none" ELSE e.active
         /\ e.active # "wheel_distance" => SameFence(e, f)
<1>1. PICK g : g = [e EXCEPT !.distance = NoDistance, !.baseline = 0]
  OBVIOUS
<1>2. /\ g.baseline = 0 /\ g.distance = NoDistance /\ g.active = e.active
      /\ g.connected = e.connected /\ SameFence(e, g)
  BY <1>1 DEF Engines, SameFence
<1>3. PICK h : h = [g EXCEPT !.active = "none", !.last_sample = 0]
  OBVIOUS
<1>4. /\ h.baseline = 0 /\ h.distance = NoDistance /\ h.active = "none"
      /\ h.connected = e.connected
  BY <1>1, <1>3 DEF Engines
<1>5. f = IF e.active = "wheel_distance" THEN h ELSE g
  BY <1>1, <1>2, <1>3 DEF ResetDistance, Leave
<1>6. QED
  BY <1>2, <1>4, <1>5 DEF Based

LEMMA DropDistancePair ==
  ASSUME NEW e \in Engines, Based(e), NEW fresh, NEW exempt
  PROVE  /\ Based(DropDistance(e))
         /\ Covered(e, fresh, exempt) => Covered(DropDistance(e), fresh, exempt)
         /\ e.active = "none" /\ DropDistance(e).active # "none"
              => Covered(DropDistance(e), fresh, exempt)
<1>1. PICK f : f = [e EXCEPT !.distance = NoDistance, !.baseline = 0]
  OBVIOUS
<1>2. f \in Engines /\ f.active = e.active /\ SameFence(e, f) /\ f.baseline = 0
  BY <1>1, Numbers, NothingSeen DEF Engines, Readings, SameFence
<1>3. Based(f)
  BY <1>2 DEF Based
<1>4. DropDistance(e) = Selected(f)
  BY <1>1 DEF DropDistance
<1>5. QED
  BY <1>2, <1>3, <1>4, SameCovers, SelectedBased, SelectedCovered, SelectedAfterNone

\* What a distance of component c finds: nothing has changed, or the reading of another
\* component is gone.
LEMMA DistanceOwnerParts ==
  ASSUME NEW e \in Engines, NEW c, Based(e), NEW f, f = DistanceOwner(e, c)
  PROVE  /\ f \in Engines /\ Based(f) /\ f.connected = e.connected
         /\ \/ f = e /\ e.distance.by \in {0, c}
            \/ f = ResetDistance(e) /\ f.distance = NoDistance /\ f.baseline = 0
         /\ f.active \in {e.active, "none"}
         /\ e.active # f.active => e.active = "wheel_distance"
         /\ f.active = e.active => SameFence(e, f)
<1>1. SameFence(e, e)
  BY DEF SameFence
<1>2. \/ f = e /\ e.distance.by \in {0, c}
      \/ f = ResetDistance(e)
  BY DEF DistanceOwner
<1>3. e.active = "none" => e.active # "wheel_distance"
  OBVIOUS
<1>4. QED
  BY <1>1, <1>2, <1>3, ResetDistanceType, ResetDistanceParts

LEMMA GoesOnParts ==
  ASSUME NEW e \in Engines, NEW time, Based(e), NEW f, f = GoesOn(e, time)
  PROVE  /\ Based(f) /\ f.connected = e.connected
         /\ f.baseline # 0 => f = e /\ Fresh(e.distance.age) /\ ~(time < e.distance.time)
         /\ e.active # "wheel_distance" => SameFence(e, f)
<1>1. PICK g : g = [e EXCEPT !.baseline = 0]
  OBVIOUS
<1>2. /\ SameFence(e, g) /\ SameFence(e, e) /\ g.baseline = 0 /\ g.active = e.active
      /\ g.connected = e.connected
  BY <1>1 DEF Engines, SameFence
<1>3. Based(g)
  BY <1>2 DEF Based
<1>4. \/ f = ResetDistance(e)
      \/ f = g
      \/ f = e /\ Fresh(e.distance.age) /\ ~(time < e.distance.time)
  BY <1>1 DEF GoesOn
<1>5. QED
  BY <1>2, <1>3, <1>4, ResetDistanceParts

\* A usable reading: it is the source where it may be, and if it has a baseline, that is the
\* reading before it, of the same component.
Reading(c, time) ==
  Selected([GoesOn(DistanceOwner(engine, c), time)
              EXCEPT !.distance = [by |-> c, time |-> time, age |-> 0]])

WithBaseline(s, time) ==
  IF s.active = "wheel_distance" THEN [s EXCEPT !.baseline = time] ELSE s

LEMMA WithBaselineParts ==
  ASSUME NEW s \in Engines, NEW time \in Times, NEW next, next = [s EXCEPT !.baseline = time]
  PROVE  /\ next \in Engines /\ next.active = s.active /\ next.distance = s.distance
         /\ next.baseline = time /\ next.floor = s.floor /\ next.fence = s.fence
         /\ next.status = s.status /\ next.epoch_baseline_needed = s.epoch_baseline_needed
<1>1. next \in Engines
  BY DEF Engines
<1>2. next.baseline = time
  BY DEF Engines
<1>3. QED
  BY <1>1, <1>2 DEF Engines

LEMMA ReadingSelected ==
  ASSUME engine \in Engines, Based(engine), engine.connected, NEW c \in Components,
         NEW time \in Times \ {0}, NEW fresh, NEW exempt, Covered(engine, fresh, exempt),
         NEW s, s = Reading(c, time), NEW next, next = WithBaseline(s, time)
  PROVE  /\ s \in Engines /\ next \in Engines /\ Based(next) /\ next.active = s.active
         /\ next.distance.by = c /\ next.distance.time = time
         /\ Covered(next, fresh, exempt)
         /\ s.active = "wheel_distance" /\ s.baseline # 0 /\ time > s.baseline =>
              /\ engine.active = "wheel_distance" /\ engine.distance.by = c
              /\ engine.baseline = engine.distance.time /\ engine.distance.time < time
              /\ Fresh(engine.distance.age)
<1> DEFINE e == DistanceOwner(engine, c)
           on == GoesOn(e, time)
           read == [on EXCEPT !.distance = [by |-> c, time |-> time, age |-> 0]]
<1>0. s = Selected(read)
  BY DEF Reading
<1> HIDE DEF read
<1>1. /\ e \in Engines /\ Based(e) /\ e.connected
      /\ \/ e = engine /\ engine.distance.by \in {0, c}
         \/ e = ResetDistance(engine) /\ e.distance = NoDistance /\ e.baseline = 0
      /\ e.active \in {engine.active, "none"}
      /\ engine.active # e.active => engine.active = "wheel_distance"
      /\ e.active = engine.active => SameFence(engine, e)
  BY DistanceOwnerParts
<1> HIDE DEF e
<1>2. /\ on \in Engines /\ Based(on) /\ on.connected
      /\ on.baseline # 0 => on = e /\ Fresh(e.distance.age) /\ ~(time < e.distance.time)
      /\ e.active # "wheel_distance" => SameFence(e, on)
  BY <1>1, GoesOnType, GoesOnParts
<1> HIDE DEF on
<1>3. c # 0 /\ time \in Nat /\ time # 0
  BY Numbers DEF Components
<1>4. [by |-> c, time |-> time, age |-> 0] \in Readings
  BY Numbers DEF Readings
<1>5. /\ read \in Engines /\ SameFence(on, read) /\ read.connected
      /\ read.active = on.active /\ read.baseline = on.baseline
      /\ read.distance.by = c /\ read.distance.time = time /\ read.distance.age = 0
  BY <1>2, <1>4 DEF Engines, Readings, SameFence, read
<1>6. /\ s \in Engines /\ s.distance = read.distance /\ s.active = Choice(read)
      /\ Choice(read) = read.active => s = read
      /\ Choice(read) # read.active =>
           s.baseline = IF Choice(read) = "wheel_distance" THEN read.distance.time ELSE 0
  <2>1. s \in Engines
    BY <1>0, <1>5, SelectedType
  <2>2. QED
    BY <1>0, <1>5, <2>1, SelectedParts
<1>7. MayUse("wheel_distance") => s.active = "wheel_distance"
  <2>1. Fresh(read.distance.age)
    BY <1>5, WheelAssumption DEF Fresh
  <2>2. QED
    BY <1>3, <1>5, <1>6, <2>1 DEF Choice, WheelConfigured
<1>8. s.active = "wheel_distance" => MayUse("wheel_distance")
  BY <1>6, ChoiceKinds
<1>9. s.active # "wheel_distance" => s.baseline = 0
  BY <1>2, <1>5, <1>6 DEF Based
<1>10. /\ next \in Engines /\ next.active = s.active
       /\ next.distance.by = c /\ next.distance.time = time
       /\ next.baseline = IF s.active = "wheel_distance" THEN time ELSE s.baseline
       /\ SameFence(s, next)
  <2>1. s.distance.by = c /\ s.distance.time = time /\ s \in Engines /\ time \in Times
    BY <1>5, <1>6
  <2>2. CASE s.active = "wheel_distance"
    <3>1. next = [s EXCEPT !.baseline = time]
      BY <2>2 DEF WithBaseline
    <3>2. /\ next \in Engines /\ next.active = s.active /\ next.distance = s.distance
          /\ next.baseline = time /\ next.floor = s.floor /\ next.fence = s.fence
          /\ next.status = s.status /\ next.epoch_baseline_needed = s.epoch_baseline_needed
      BY <2>1, <3>1, WithBaselineParts
    <3>3. SameFence(s, next)
      BY <3>2 DEF SameFence
    <3>4. QED
      BY <2>1, <2>2, <3>2, <3>3
  <2>3. CASE s.active # "wheel_distance"
    <3>1. next = s
      BY <2>3 DEF WithBaseline
    <3>2. SameFence(s, s)
      BY DEF SameFence
    <3>3. QED
      BY <2>1, <2>3, <3>1, <3>2
  <2>4. QED
    BY <2>2, <2>3
<1>11. Based(next)
  BY <1>3, <1>8, <1>9, <1>10 DEF Based
<1>12. Covered(next, fresh, exempt)
  <2>1. CASE engine.active = "wheel_distance"
    <3>1. s.active = "wheel_distance"
      BY <1>7, <2>1 DEF Based
    <3>2. QED
      BY <1>10, <3>1 DEF Covered, Others
  <2>2. CASE engine.active # "wheel_distance"
    <3>1. SameFence(engine, e) /\ e.active = engine.active
      BY <1>1, <2>2
    <3>2. SameFence(e, on)
      BY <1>2, <2>2, <3>1
    <3>3. Covered(read, fresh, exempt)
      BY <1>5, <3>1, <3>2, SameCovers
    <3>4. Covered(s, fresh, exempt)
      BY <1>0, <1>5, <3>3, SelectedCovered
    <3>5. QED
      BY <1>10, <3>4, SameCovers
  <2>3. QED
    BY <2>1, <2>2
<1>13. ASSUME s.active = "wheel_distance", s.baseline # 0, time > s.baseline
       PROVE  /\ engine.active = "wheel_distance" /\ engine.distance.by = c
              /\ engine.baseline = engine.distance.time /\ engine.distance.time < time
              /\ Fresh(engine.distance.age)
  <2>1. Choice(read) = read.active
    BY <1>3, <1>5, <1>6, <1>13
  <2>2. on.baseline = s.baseline /\ on.baseline # 0
    BY <1>5, <1>6, <1>13, <2>1
  <2>3. on = e /\ Fresh(e.distance.age) /\ e.baseline = s.baseline
    BY <1>2, <2>2
  <2>4. e = engine /\ engine.distance.by \in {0, c}
    BY <1>1, <2>2, <2>3
  <2>5. QED
    BY <1>13, <2>2, <2>3, <2>4 DEF Based
<1>14. QED
  BY <1>6, <1>10, <1>11, <1>12, <1>13

LEMMA DistancePair ==
  ASSUME WheelInvariant, PairInvariant, NEW c \in vehicle.encoders,
         NEW time \in 1..vehicle.times, NEW good \in BOOLEAN, NEW conflict \in BOOLEAN,
         NEW plausible \in BOOLEAN, Distance(c, time, good, conflict, plausible)
  PROVE  /\ PairInvariant'
         /\ output' = "wheel_distance" =>
              /\ engine.active = "wheel_distance" /\ engine.distance.by = engine'.distance.by
              /\ engine.baseline = engine.distance.time
              /\ Fresh(engine.distance.age) /\ engine.distance.time < engine'.distance.time
<1>1. /\ engine \in Engines /\ vehicle \in Vehicles /\ engine.connected
      /\ Based(engine) /\ Covered(engine, OldNews, StillUnfenced)
  BY DEF WheelInvariant, TypeOK, PairInvariant, Distance
<1>2. c \in Components /\ time \in Times \ {0}
  BY <1>1, WheelAssumption, Numbers
<1>3. PICK e : e = DistanceOwner(engine, c)
  OBVIOUS
<1>4. PICK s : s = Reading(c, time)
  OBVIOUS
<1>5. PICK next : next = WithBaseline(s, time)
  OBVIOUS
<1>6. PICK interval \in BOOLEAN :
        interval = (/\ s.active = "wheel_distance" /\ s.baseline # 0 /\ time > s.baseline
                    /\ time - s.baseline <= Interval)
  OBVIOUS
<1>7. PICK sampled : sampled = [next EXCEPT !.last_sample = time]
  OBVIOUS
<1>8. \/ Quiet(engine)
      \/ /\ engine' = DropDistance(e) /\ output' = "none" /\ news' = OldNews
         /\ unfenced' = (StillUnfenced \/ (e.active # engine.active /\ engine'.active = "none"))
         /\ UNCHANGED <<config, measured, vehicle>>
      \/ time = e.distance.time /\ Quiet(DropDistance(e))
      \/ time = e.distance.time /\ Quiet(e)
      \/ Quiet(DropDistance(next))
      \/ /\ engine' \in {sampled, next} /\ news' = OldNews /\ unfenced' = StillUnfenced
         /\ \/ output' = "none"
            \/ interval /\ output' \in {"none", "wheel_distance"}
         /\ UNCHANGED <<config, measured, vehicle>>
  BY <1>3, <1>4, <1>5, <1>6, <1>7 DEF Distance, Publish, Reading, WithBaseline
<1>9. /\ e \in Engines /\ Based(e)
      /\ \/ e = engine /\ engine.distance.by \in {0, c}
         \/ e = ResetDistance(engine) /\ e.distance = NoDistance
      /\ e.active \in {engine.active, "none"}
      /\ e.active = engine.active => SameFence(engine, e)
  BY <1>1, <1>3, DistanceOwnerParts
<1>10. /\ next \in Engines /\ Based(next) /\ next.active = s.active
       /\ next.distance.by = c /\ next.distance.time = time
       /\ Covered(next, OldNews, StillUnfenced)
       /\ s.active = "wheel_distance" /\ s.baseline # 0 /\ time > s.baseline =>
            /\ engine.active = "wheel_distance" /\ engine.distance.by = c
            /\ engine.baseline = engine.distance.time /\ engine.distance.time < time
            /\ Fresh(engine.distance.age)
  BY <1>1, <1>2, <1>4, <1>5, ReadingSelected
<1>11. CASE Quiet(engine)
  BY <1>1, <1>11, QuietPair DEF Quiet
<1>12. CASE /\ engine' = DropDistance(e) /\ output' = "none" /\ news' = OldNews
            /\ unfenced' = (StillUnfenced \/ (e.active # engine.active /\ engine'.active = "none"))
            /\ UNCHANGED <<config, measured, vehicle>>
  <2>1. Based(DropDistance(e))
    BY <1>9, DropDistancePair
  <2>2. Covered(DropDistance(e), news', unfenced')
    <3>1. CASE e.active = engine.active
      <4>1. Covered(e, OldNews, StillUnfenced)
        BY <1>1, <1>9, <3>1, SameCovers
      <4>2. Covered(DropDistance(e), OldNews, StillUnfenced)
        BY <1>9, <4>1, DropDistancePair
      <4>3. unfenced' <=> StillUnfenced
        BY <1>12, <3>1
      <4>4. QED
        BY <1>12, <4>2, <4>3 DEF Covered
    <3>2. CASE e.active # engine.active /\ DropDistance(e).active # "none"
      BY <1>9, <3>2, DropDistancePair
    <3>3. CASE e.active # engine.active /\ DropDistance(e).active = "none"
      BY <1>12, <3>3 DEF Covered
    <3>4. QED
      BY <3>1, <3>2, <3>3
  <2>3. QED
    BY <1>12, <2>1, <2>2, PairClose
<1>13. CASE time = e.distance.time /\ (Quiet(DropDistance(e)) \/ Quiet(e))
  <2>1. e = engine
    <3>1. e.distance.time # 0
      BY <1>2, <1>13
    <3>2. e.distance # NoDistance
      BY <3>1 DEF NoDistance
    <3>3. QED
      BY <1>9, <3>2
  <2>2. Based(DropDistance(e)) /\ Covered(DropDistance(e), OldNews, StillUnfenced)
    BY <1>1, <2>1, DropDistancePair
  <2>3. QED
    BY <1>1, <1>13, <2>1, <2>2, QuietPair DEF Quiet
<1>14. CASE Quiet(DropDistance(next))
  <2>1. Based(DropDistance(next)) /\ Covered(DropDistance(next), OldNews, StillUnfenced)
    BY <1>10, DropDistancePair
  <2>2. QED
    BY <1>14, <2>1, QuietPair DEF Quiet
<1>15. CASE /\ engine' \in {sampled, next} /\ news' = OldNews /\ unfenced' = StillUnfenced
            /\ \/ output' = "none"
               \/ interval /\ output' \in {"none", "wheel_distance"}
            /\ UNCHANGED <<config, measured, vehicle>>
  <2>1. /\ SameBase(next, sampled) /\ SameFence(next, sampled)
        /\ SameBase(next, next) /\ SameFence(next, next)
    BY <1>7, <1>10 DEF Engines, SameBase, SameFence
  <2>2. PICK f \in {sampled, next} : engine' = f
    BY <1>15
  <2>3. SameBase(next, f) /\ SameFence(next, f)
    BY <2>1, <2>2
  <2>4. Based(f) /\ Covered(f, news', unfenced')
    BY <1>10, <1>15, <2>3, SameBased, SameCovers
  <2>5. output' # "none" => f.active \in Others
    <3>1. interval => s.active = "wheel_distance"
      BY <1>6
    <3>2. f.active = s.active
      BY <1>10, <2>3 DEF SameBase
    <3>3. QED
      BY <1>15, <3>1, <3>2 DEF Others
  <2>6. config' = config /\ output' # "esc_status"
    BY <1>15
  <2>7. PairInvariant'
    BY <2>2, <2>4, <2>5, <2>6, PairClose
  <2>8. engine'.distance.by = c /\ engine'.distance.time = time
    BY <1>10, <2>2, <2>3 DEF SameBase
  <2>9. output' # "none" => s.active = "wheel_distance" /\ s.baseline # 0 /\ time > s.baseline
    BY <1>6, <1>15
  <2>10. QED
    BY <1>10, <2>7, <2>8, <2>9
<1>16. QED
  BY <1>8, <1>11, <1>12, <1>13, <1>14, <1>15

LEMMA RpmPair ==
  ASSUME WheelInvariant, PairInvariant, NEW kind, Rpm(kind)
  PROVE  PairInvariant' /\ output' # "wheel_distance"
<1>1. engine \in Engines /\ Based(engine) /\ Covered(engine, OldNews, StillUnfenced)
  BY DEF WheelInvariant, TypeOK, PairInvariant
<1>2. PICK age : age = IF kind = "infinite" THEN Stale
                       ELSE IF kind = "genuine" /\ config.mapped THEN 0 ELSE engine.legacy_age
  OBVIOUS
<1>3. PICK heard : heard = [engine EXCEPT !.legacy_age = age]
  OBVIOUS
<1>4. heard \in Engines /\ SameBase(engine, heard) /\ SameFence(engine, heard)
  <2>1. age \in Ages
    BY <1>1, <1>2, Numbers DEF Engines
  <2>2. QED
    BY <1>1, <1>3, <2>1 DEF Engines, SameBase, SameFence
<1>5. PICK e : e = Selected(heard)
  OBVIOUS
<1>6. /\ engine' = e /\ news' = OldNews /\ unfenced' = StillUnfenced /\ config' = config
      /\ \/ output' = "none"
         \/ output' = "ardupilot_legacy" /\ e.active = "ardupilot_legacy"
  BY <1>2, <1>3, <1>5 DEF Rpm, Publish
<1>7. Based(e) /\ Covered(e, OldNews, StillUnfenced)
  BY <1>1, <1>4, <1>5, SameBased, SameCovers, SelectedBased, SelectedCovered
<1>8. output' # "none" => e.active \in Others
  BY <1>6 DEF Others
<1>9. Covered(e, news', unfenced')
  BY <1>6, <1>7
<1>10. output' \notin {"esc_status", "wheel_distance"}
  BY <1>6
<1>11. QED
  BY <1>6, <1>7, <1>8, <1>9, <1>10, PairClose

LEMMA PollPair ==
  ASSUME WheelInvariant, PairInvariant, Poll
  PROVE  PairInvariant'
<1>1. engine \in Engines /\ Based(engine) /\ Covered(engine, OldNews, StillUnfenced)
  BY DEF WheelInvariant, TypeOK, PairInvariant
<1>2. QED
  BY <1>1, QuietPair, SelectedBased, SelectedCovered DEF Poll

LEMMA ForgetPair ==
  ASSUME NEW connected \in BOOLEAN, Forget(connected)
  PROVE  PairInvariant'
<1>1. PICK b : b = Blank(connected)
  OBVIOUS
<1>2. b \in Engines /\ \A w \in Slots : b.status[w].time = 0
  BY <1>1, BlankType
<1>3. b.active = "none" /\ b.baseline = 0
  BY <1>1 DEF Blank
<1>4. Based(b) /\ Covered(b, news', unfenced')
  BY <1>2, <1>3, UnseenCovered DEF Based
<1>5. engine' = b /\ config' = config /\ output' = "none"
  BY <1>1 DEF Forget
<1>6. QED
  BY <1>4, <1>5, PairClose

LEMMA RetainedParts ==
  ASSUME NEW e, NEW next, NEW swap
  PROVE  /\ Retained(e, next, swap).fence = Wheels
         /\ Retained(e, next, swap).active = "none" /\ Retained(e, next, swap).baseline = 0
BY DEF Retained, Blank

LEMMA ReconfigurePair ==
  ASSUME NEW next, NEW swap, Reconfigure(next, swap)
  PROVE  PairInvariant'
<1>1. PICK f : f = Retained(engine, next, swap)
  OBVIOUS
<1>2. f.fence = Wheels /\ f.active = "none" /\ f.baseline = 0
  BY <1>1, RetainedParts
<1>3. engine' = f /\ output' = "none"
  BY <1>1 DEF Reconfigure
<1>4. Based(engine)'
  BY <1>2, <1>3 DEF Based
<1>5. Covered(engine, OldNews, StillUnfenced)'
  BY <1>2, <1>3 DEF Covered, Fenced
<1>6. QED
  BY <1>3, <1>4, <1>5 DEF PairInvariant, FreshPair

LEMMA TickPair ==
  ASSUME WheelInvariant, PairInvariant, Tick
  PROVE  PairInvariant'
<1>1. engine \in Engines /\ Based(engine) /\ Covered(engine, OldNews, StillUnfenced)
  BY DEF WheelInvariant, TypeOK, PairInvariant
<1>2. PICK status : status = [w \in Slots |->
                      [engine.status[w] EXCEPT !.age = Older(engine.status[w].age)]]
  OBVIOUS
<1>3. \A w \in Slots : status[w].time = engine.status[w].time
  BY <1>1, <1>2 DEF Engines
<1>4. PICK distance : distance = [engine.distance EXCEPT !.age = Older(engine.distance.age)]
  OBVIOUS
<1>5. distance.time = engine.distance.time /\ distance.by = engine.distance.by
  BY <1>1, <1>4 DEF Engines
<1>6. PICK e : e = [engine EXCEPT !.owner_age = Older(engine.owner_age),
                                  !.legacy_age = Older(engine.legacy_age),
                                  !.distance = distance, !.status = status]
  OBVIOUS
<1>7. e.status = status /\ e.distance = distance
  BY <1>1, <1>6 DEF Engines
<1>8. Quiet(e)
  BY <1>1, <1>2, <1>4, <1>6 DEF Tick, Engines
<1>9. SameBase(engine, e) /\ SameFence(engine, e)
  BY <1>1, <1>3, <1>5, <1>6, <1>7, WheelSlots DEF Engines, SameBase, SameFence
<1>10. QED
  BY <1>1, <1>8, <1>9, SameBased, SameCovers, QuietPair

LEMMA PairInit ==
  ASSUME Init
  PROVE  PairInvariant
<1>1. PICK b : b = engine
  OBVIOUS
<1>2. b \in Engines /\ \A w \in Slots : b.status[w].time = 0
  BY <1>1, BlankType DEF Init
<1>3. b.active = "none" /\ b.baseline = 0
  BY <1>1 DEF Init, Blank
<1>4. Based(b) /\ Covered(b, OldNews, StillUnfenced)
  BY <1>2, <1>3, UnseenCovered DEF Based
<1>5. QED
  BY <1>1, <1>4 DEF Init, PairInvariant, FreshPair

\* A step keeps the invariant, and publishes a distance over time only for one encoder.
LEMMA PairStep ==
  ASSUME WheelInvariant, PairInvariant, [Next]_vars
  PROVE  /\ PairInvariant'
         /\ [output' = "wheel_distance" =>
               /\ engine.active = "wheel_distance"
               /\ engine.distance.by = engine'.distance.by
               /\ engine.baseline = engine.distance.time
               /\ Fresh(engine.distance.age)
               /\ engine.distance.time < engine'.distance.time]_vars
<1>1. CASE \E c \in vehicle.status : StatusFrom(c)
  <2>1. PICK c \in vehicle.status, slots \in SUBSET Slots, time \in 1..vehicle.times :
          \E conflict \in SUBSET slots : Status(c, slots, time, conflict)
    BY <1>1, StatusReported
  <2>2. PICK conflict \in SUBSET slots : Status(c, slots, time, conflict)
    BY <2>1
  <2>3. output' # "wheel_distance"
    BY <2>2 DEF Status, Quiet, Publish
  <2>4. QED
    BY <2>2, <2>3, StatusPair
<1>2. CASE \E c \in vehicle.status : InfoFrom(c)
  <2>1. PICK c \in vehicle.status, counted \in SUBSET Slots, regressed \in BOOLEAN :
          Info(c, counted, regressed)
    BY <1>2, InfoReported
  <2>2. output' # "wheel_distance"
    BY <2>1 DEF Info, Quiet
  <2>3. QED
    BY <2>1, <2>2, InfoPair
<1>3. CASE \E c \in vehicle.encoders, time \in 1..vehicle.times,
              good, conflict, plausible \in BOOLEAN :
             Distance(c, time, good, conflict, plausible)
  BY <1>3, DistancePair
<1>4. CASE \E kind \in {"infinite", "unpaired", "genuine"} : Rpm(kind)
  BY <1>4, RpmPair
<1>5. CASE Poll
  BY <1>5, PollPair DEF Poll, Quiet
<1>6. CASE ClockBack \/ LinkChanges
  <2>1. PICK connected \in BOOLEAN : connected = ~engine.connected
    OBVIOUS
  <2>2. engine.connected \in BOOLEAN
    BY DEF WheelInvariant, TypeOK, Engines
  <2>3. output' # "wheel_distance"
    BY <1>6 DEF ClockBack, LinkChanges, Forget
  <2>4. QED
    BY <1>6, <2>1, <2>2, <2>3, ForgetPair DEF ClockBack, LinkChanges
<1>7. CASE \E next \in Configs, swap \in BOOLEAN : Reconfigure(next, swap)
  <2>1. PICK next, swap : Reconfigure(next, swap)
    BY <1>7
  <2>2. output' # "wheel_distance"
    BY <2>1 DEF Reconfigure
  <2>3. QED
    BY <2>1, <2>2, ReconfigurePair
<1>8. CASE Tick
  BY <1>8, TickPair DEF Tick, Quiet
<1>9. CASE UNCHANGED vars
  <2>1. PairInvariant'
    BY <1>9 DEF vars, PairInvariant, Based, MayUse, Covered, Fenced, OldNews, StillUnfenced,
                Superseded, FreshPair
  <2>2. QED
    BY <1>9, <2>1
<1>10. QED
  BY <1>1, <1>2, <1>3, <1>4, <1>5, <1>6, <1>7, <1>8, <1>9 DEF Next

-----------------------------------------------------------------------------
(***************************************************************************)
(* The lease of the owner.  While it is fresh only the connection, the     *)
(* clock and the parameters can replace the owner, and only a measurement  *)
(* it had not made before renews it; so it takes two facts of every state  *)
(* (a lease has an owner, whom the parameters admit) and a look at every   *)
(* step, the beginning of an epoch above all: what went back is measured   *)
(* anew, so the age that NewEpoch makes stale becomes 0 in the same step.  *)
(***************************************************************************)
LeaseInvariant ==
  /\ engine.lease => engine.owner # 0
  /\ engine.owner # 0 => Admitted(engine.owner)

LeaseStep ==
  /\ engine.lease /\ Fresh(engine.owner_age) /\ engine'.owner # engine.owner =>
       ClockBack \/ LinkChanges \/ config'.component \notin {0, engine.owner}
  /\ engine'.owner = engine.owner /\ engine'.owner_age < engine.owner_age =>
       \E s \in Slots :
         /\ engine'.status[s].age = 0 /\ engine'.status[s].time # engine.status[s].time
         /\ measured'[s] = engine.owner
  /\ engine'.owner = engine.owner /\ engine.lease => engine'.lease

\* The age of the owner is a number, and no age is beyond Stale.
LEMMA OwnerAge ==
  ASSUME NEW e \in Engines
  PROVE  e.owner_age \in Nat /\ e.owner_age <= Stale /\ Stale \in Nat
BY WheelAssumption DEF Engines, Ages, Stale

LEMMA ElsewhereLease ==
  ASSUME WheelInvariant, LeaseInvariant, Elsewhere
  PROVE  LeaseInvariant' /\ LeaseStep
<1>1. engine'.owner = engine.owner /\ engine'.lease = engine.lease
  BY DEF Elsewhere, SameWheels
<1>2. engine'.owner_age = engine.owner_age /\ engine.owner_age \in Nat
  BY OwnerAge DEF Elsewhere, SameWheels, WheelInvariant, TypeOK
<1>3. LeaseInvariant'
  BY <1>1 DEF Elsewhere, LeaseInvariant, Admitted
<1>4. QED
  BY <1>1, <1>2, <1>3 DEF LeaseStep

LEMMA ResetCommonLease ==
  ASSUME NEW e \in Engines
  PROVE  /\ ~ResetCommon(e).lease /\ ResetCommon(e).owner_age = Stale
         /\ ResetCommon(e).counted = Slots
<1>1. PICK b : b = Blank(e.connected)
  OBVIOUS
<1>2. PICK f :
        f = [e EXCEPT !.owner = 0, !.lease = FALSE, !.owner_age = Stale, !.status = b.status,
                      !.counted = Slots, !.floor = b.floor, !.epoch_baseline_needed = FALSE,
                      !.fence = {}]
  OBVIOUS
<1>3. ~f.lease /\ f.owner_age = Stale /\ f.counted = Slots
  BY <1>2 DEF Engines
<1>4. PICK g : g = [f EXCEPT !.active = "none", !.last_sample = 0]
  OBVIOUS
<1>5. g.lease = f.lease /\ g.owner_age = f.owner_age /\ g.counted = f.counted
  BY <1>2, <1>4 DEF Engines
<1>6. ResetCommon(e) = IF f.active = "esc_status" THEN g ELSE f
  BY <1>1, <1>2, <1>4 DEF ResetCommon, Leave
<1>7. QED
  BY <1>3, <1>5, <1>6

\* The sender of a STATUS that is accepted has the lease, as old as it was if it had it before.
LEMMA StatusOwnerLease ==
  ASSUME NEW e \in Engines, NEW c \in Components
  PROVE  /\ StatusOwner(e, c).lease
         /\ e.owner = c => /\ StatusOwner(e, c).owner_age = e.owner_age
                           /\ StatusOwner(e, c).status = e.status
<1>1. PICK base : base = IF e.owner \in {0, c} THEN e ELSE ResetCommon(e)
  OBVIOUS
<1>2. base \in Engines
  BY <1>1, ResetCommonType
<1>3. PICK f : f = [base EXCEPT !.owner = c, !.lease = TRUE]
  OBVIOUS
<1>4. f.lease /\ f.owner_age = base.owner_age /\ f.status = base.status
  BY <1>2, <1>3 DEF Engines
<1>5. StatusOwner(e, c) = f
  BY <1>1, <1>3 DEF StatusOwner
<1>6. QED
  BY <1>1, <1>4, <1>5

LEMMA NewEpochLease ==
  ASSUME NEW e \in Engines
  PROVE  /\ NewEpoch(e).lease /\ NewEpoch(e).owner_age = Stale /\ NewEpoch(e).counted = Slots
         /\ \A w \in Slots : NewEpoch(e).status[w].time = 0
<1>1. PICK base : base = ResetCommon(e)
  OBVIOUS
<1>2. /\ base \in Engines /\ base.owner_age = Stale /\ base.counted = Slots
      /\ \A w \in Slots : base.status[w].time = 0
  BY <1>1, ResetCommonType, ResetCommonLease
<1>3. PICK f : f = [base EXCEPT !.owner = e.owner, !.lease = TRUE,
                               !.epoch_baseline_needed = TRUE]
  OBVIOUS
<1>4. /\ f.lease /\ f.owner_age = base.owner_age /\ f.counted = base.counted
      /\ f.status = base.status
  BY <1>2, <1>3 DEF Engines
<1>5. NewEpoch(e) = f
  BY <1>1, <1>3 DEF NewEpoch
<1>6. QED
  BY <1>2, <1>4, <1>5

\* What measuring these slots anew does to the lease, and to them.
MeasuredNow(e, f, new, time) ==
  /\ f.lease = e.lease
  /\ f.owner_age = IF new = {} THEN e.owner_age ELSE 0
  /\ \A w \in new : f.status[w].age = 0 /\ f.status[w].time = time

LEMMA MeasureLease ==
  ASSUME NEW e \in Engines, NEW slots \in SUBSET Slots, NEW time \in Times,
         NEW conflict \in SUBSET slots
  PROVE  MeasuredNow(e, Measure(e, slots, time, conflict),
                     NewlyMeasured(e, slots, time), time)
<1>0. PICK new : new = NewlyMeasured(e, slots, time)
  OBVIOUS
<1>1. PICK status :
        status = [w \in Slots |->
                    IF w \in new THEN [time |-> time, age |-> 0, valid |-> TRUE]
                    ELSE IF w \in conflict \cap slots \cap e.counted
                    THEN [e.status[w] EXCEPT !.valid = FALSE]
                    ELSE e.status[w]]
  OBVIOUS
<1>2. PICK age : age = IF new = {} THEN e.owner_age ELSE 0
  OBVIOUS
<1>3. PICK g : g = [e EXCEPT !.status = status, !.owner_age = age, !.fence = e.fence \ new]
  OBVIOUS
<1>4. g.lease = e.lease /\ g.owner_age = age /\ g.status = status
  BY <1>3 DEF Engines
<1>5. Measure(e, slots, time, conflict) = g
  BY <1>0, <1>1, <1>2, <1>3 DEF Measure, Engines
<1>6. new \subseteq Slots
  BY <1>0 DEF NewlyMeasured
<1>7. \A w \in new : status[w] = [time |-> time, age |-> 0, valid |-> TRUE]
  BY <1>1, <1>6
<1>8. \A w \in new : g.status[w].age = 0 /\ g.status[w].time = time
  BY <1>4, <1>7
<1>9. MeasuredNow(e, g, new, time)
  BY <1>2, <1>4, <1>8 DEF MeasuredNow
<1>10. QED
  BY <1>0, <1>5, <1>9

\* What is heard from the owner renews its lease only by a measurement: a slot that goes back
\* makes the engine forget all of them, and is then measured anew.
LEMMA StatusRenews ==
  ASSUME NEW e \in Engines, NEW slots \in SUBSET Slots, NEW time \in Times, time # 0,
         NEW epoch, NEW now, NEW new,
         Regressed(e, slots, time) => epoch = NewEpoch(e),
         ~Regressed(e, slots, time) => epoch = e,
         new = NewlyMeasured(epoch, slots, time),
         MeasuredNow(epoch, now, new, time), now.owner_age < e.owner_age
  PROVE  \E w \in new : /\ w \in Slots /\ now.status[w].age = 0
                        /\ now.status[w].time # e.status[w].time
<1>1. now.owner_age = IF new = {} THEN epoch.owner_age ELSE 0
  BY DEF MeasuredNow
<1>2. \A w \in new : now.status[w].age = 0 /\ now.status[w].time = time
  BY DEF MeasuredNow
<1>3. new = {w \in slots \cap epoch.counted : epoch.status[w].time # time}
  BY DEF NewlyMeasured
<1>4. CASE Regressed(e, slots, time)
  <2>1. PICK w \in slots : time < e.status[w].time
    BY <1>4 DEF Regressed
  <2>2. epoch.counted = Slots /\ epoch.status[w].time = 0
    BY <1>4, NewEpochLease
  <2>3. w \in new
    BY <1>3, <2>2
  <2>4. time # e.status[w].time
    <3>1. time \in Nat /\ e.status[w].time \in Nat
      BY Numbers DEF Engines
    <3>2. QED
      BY <2>1, <3>1
  <2>5. QED
    BY <1>2, <2>3, <2>4
<1>5. CASE ~Regressed(e, slots, time)
  <2>1. new # {}
    <3>1. e.owner_age \in Nat
      BY OwnerAge
    <3>2. QED
      BY <1>1, <1>5, <3>1
  <2>2. PICK w \in new : TRUE
    BY <2>1
  <2>3. e.status[w].time # time /\ w \in Slots
    BY <1>3, <1>5
  <2>4. QED
    BY <1>2, <2>2, <2>3
<1>6. QED
  BY <1>4, <1>5

LEMMA StatusLease ==
  ASSUME WheelInvariant, LeaseInvariant, NEW c \in vehicle.status, NEW slots \in SUBSET Slots,
         NEW time \in 1..vehicle.times, NEW conflict \in SUBSET slots,
         Status(c, slots, time, conflict)
  PROVE  LeaseInvariant' /\ LeaseStep
<1>1. engine \in Engines /\ vehicle \in Vehicles /\ Owns(engine, measured)
  BY DEF WheelInvariant, TypeOK
<1>2. c \in Components /\ c # 0 /\ time \in Times \ {0}
  BY <1>1, WheelAssumption, Numbers DEF Components
<1>3. CASE StatusRefused(engine, c)
  <2>1. Elsewhere
    BY <1>1, <1>3, QuietElsewhere DEF Status, SameWheels
  <2>2. QED
    BY <2>1, ElsewhereLease
<1>4. CASE ~StatusRefused(engine, c)
  <2>0. PICK owned, epoch, now, new, e :
          StatusAccepted(c, slots, time, conflict, owned, epoch, now, new, e)
    BY <1>4, StatusParts, Zenon
  <2>1. /\ owned = StatusOwner(engine, c)
        /\ epoch = IF Regressed(owned, slots, time) THEN NewEpoch(owned) ELSE owned
        /\ now = Measure(epoch, slots, time, conflict)
        /\ new = NewlyMeasured(epoch, slots, time)
        /\ e = Select(now, TRUE, TimesOf(owned))
        /\ engine' = AfterPair(e)
        /\ measured' = [w \in Slots |-> IF w \in new THEN c ELSE measured[w]]
        /\ config' = config
    BY <2>0 DEF StatusAccepted
  <2>2. owned \in Engines /\ owned.owner = c /\ Owns(owned, measured) /\ owned.lease
    BY <1>1, <1>2, <2>1, StatusOwnerOwns, StatusOwnerLease
  <2>3. epoch \in Engines /\ epoch.owner = c /\ Owns(epoch, measured) /\ epoch.lease
    BY <2>1, <2>2, NewEpochOwns, NewEpochLease
  <2>4. MeasuredNow(epoch, now, new, time)
    <3>1. time \in Times
      BY <1>2
    <3>2. MeasuredNow(epoch, Measure(epoch, slots, time, conflict),
                      NewlyMeasured(epoch, slots, time), time)
      BY <2>3, <3>1, MeasureLease
    <3>3. QED
      BY <2>1, <3>2
  <2>5. now \in Engines /\ now.owner = c /\ now.lease
    <3>1. measured' = [w \in Slots |-> IF w \in NewlyMeasured(epoch, slots, time)
                                       THEN epoch.owner ELSE measured[w]]
      BY <2>1, <2>3
    <3>2. epoch.owner # 0 /\ time \in Times
      BY <1>2, <2>3
    <3>3. now = Measure(epoch, slots, time, conflict)
      BY <2>1
    <3>4. now \in Engines /\ now.owner = epoch.owner /\ Owns(now, measured')
      BY <2>3, <3>1, <3>2, <3>3, MeasureOwns
    <3>5. now.lease = epoch.lease
      BY <2>4 DEF MeasuredNow
    <3>6. QED
      BY <2>3, <3>4, <3>5
  <2>6. engine' \in Engines /\ SameWheels(now, engine')
    BY <2>1, <2>2, <2>5, TimesOfType, SelectType, AfterPairType, SameTrans
  <2>7. engine'.owner = c /\ engine'.lease
    BY <2>5, <2>6 DEF SameWheels
  <2>8. LeaseInvariant'
    BY <1>2, <1>4, <2>1, <2>7 DEF LeaseInvariant, StatusRefused, Admitted
  <2>9. engine.lease /\ Fresh(engine.owner_age) => engine.owner = c
    BY <1>4 DEF StatusRefused, LeaseInvariant
  <2>10. ASSUME engine.owner = c, engine'.owner_age < engine.owner_age
        PROVE  \E w \in Slots :
                 /\ engine'.status[w].age = 0 /\ engine'.status[w].time # engine.status[w].time
                 /\ measured'[w] = engine.owner
    <3>1. owned.owner_age = engine.owner_age /\ owned.status = engine.status
      BY <1>1, <1>2, <2>1, <2>10, StatusOwnerLease
    <3>2. engine'.status = now.status /\ now.owner_age < owned.owner_age
      BY <2>6, <2>10, <3>1 DEF SameWheels
    <3>3. PICK w \in new : /\ w \in Slots /\ now.status[w].age = 0
                           /\ now.status[w].time # owned.status[w].time
      <4>1. time \in Times /\ time # 0
        BY <1>2
      <4>2. /\ Regressed(owned, slots, time) => epoch = NewEpoch(owned)
            /\ ~Regressed(owned, slots, time) => epoch = owned
            /\ new = NewlyMeasured(epoch, slots, time)
        BY <2>1
      <4>3. now.owner_age < owned.owner_age
        BY <3>2
      <4>4. QED
        BY <2>2, <2>4, <4>1, <4>2, <4>3, StatusRenews
    <3>4. measured'[w] = engine.owner
      BY <2>1, <2>10, <3>3
    <3>5. QED
      BY <3>1, <3>2, <3>3, <3>4
  <2>11. QED
    BY <2>7, <2>8, <2>9, <2>10 DEF LeaseStep
<1>5. QED
  BY <1>3, <1>4

LEMMA CountedLease ==
  ASSUME NEW e \in Engines, NEW counted, NEW f, f = Counted(e, counted)
  PROVE  f.owner = e.owner /\ f.lease = e.lease /\ f.owner_age = e.owner_age
<1>1. PICK status :
        status = [w \in Slots |->
                    [e.status[w] EXCEPT !.valid = e.status[w].valid /\ w \in counted]]
  OBVIOUS
<1>2. f = [e EXCEPT !.counted = counted, !.status = status]
  BY <1>1 DEF Counted
<1>3. QED
  BY <1>2 DEF Engines

\* ESC_INFO takes the slots only where nobody has the lease, and renews nothing.
LEMMA InfoLease ==
  ASSUME WheelInvariant, LeaseInvariant, NEW c \in vehicle.status, NEW counted \in SUBSET Slots,
         NEW regressed \in BOOLEAN, Info(c, counted, regressed)
  PROVE  LeaseInvariant' /\ LeaseStep
<1>1. engine \in Engines /\ vehicle \in Vehicles /\ Owns(engine, measured)
  BY DEF WheelInvariant, TypeOK
<1>2. c \in Components /\ c # 0
  BY <1>1, WheelAssumption DEF Components
<1>3. CASE ~Admitted(c) \/ (engine.owner \notin {0, c} /\ engine.lease)
  <2>1. Elsewhere
    BY <1>1, <1>3, QuietElsewhere DEF Info, SameWheels
  <2>2. QED
    BY <2>1, ElsewhereLease
<1>4. CASE Admitted(c) /\ (engine.owner \in {0, c} \/ ~engine.lease)
  <2>1. PICK base : base = IF engine.owner \in {0, c} THEN engine ELSE ResetCommon(engine)
    OBVIOUS
  <2>2. base \in Engines /\ (engine.owner \notin {0, c} => ~base.lease)
    BY <1>1, <2>1, ResetCommonType, ResetCommonLease
  <2>3. PICK e : e = [base EXCEPT !.owner = c]
    OBVIOUS
  <2>4. e.owner = c /\ e.lease = base.lease /\ e.owner_age = base.owner_age
    BY <1>2, <2>2, <2>3 DEF Engines
  <2>5. e = InfoOwner(engine, c) /\ e \in Engines /\ Owns(e, measured)
    BY <1>1, <1>2, <2>1, <2>3, InfoOwnerOwns DEF InfoOwner
  <2>6. PICK f : f = IF regressed THEN e ELSE Counted(e, counted)
    OBVIOUS
  <2>7. /\ f \in Engines /\ f.owner = c /\ f.lease = e.lease /\ f.owner_age = e.owner_age
    BY <2>4, <2>5, <2>6, CountedOwns, CountedLease
  <2>8. Quiet(Selected(f))
    BY <1>4, <2>5, <2>6 DEF Info
  <2>9. engine' = Selected(f) /\ config' = config
    BY <2>8 DEF Quiet
  <2>10. /\ engine'.owner = c /\ engine'.lease = base.lease
         /\ engine'.owner_age = base.owner_age
    BY <2>4, <2>7, <2>9, SelectedType DEF SameWheels
  <2>11. LeaseInvariant'
    BY <1>2, <1>4, <2>9, <2>10 DEF LeaseInvariant, Admitted
  <2>12. engine.lease => engine.owner = c
    BY <1>4 DEF LeaseInvariant
  <2>13. engine.owner = c => engine'.lease = engine.lease /\ engine'.owner_age = engine.owner_age
    BY <2>1, <2>10
  <2>14. engine.owner_age \in Nat
    BY <1>1, OwnerAge
  <2>15. QED
    BY <2>10, <2>11, <2>12, <2>13, <2>14 DEF LeaseStep
<1>5. QED
  BY <1>3, <1>4

LEMMA ForgetLease ==
  ASSUME WheelInvariant, LeaseInvariant, ClockBack \/ LinkChanges
  PROVE  LeaseInvariant' /\ LeaseStep
<1>1. PICK connected : engine' = Blank(connected)
  BY DEF ClockBack, LinkChanges, Forget
<1>2. engine'.owner = 0 /\ ~engine'.lease /\ engine'.owner_age = Stale
  BY <1>1 DEF Blank
<1>3. ~(engine'.owner_age < engine.owner_age)
  BY <1>2, OwnerAge DEF WheelInvariant, TypeOK
<1>4. QED
  BY <1>2, <1>3 DEF LeaseStep, LeaseInvariant

LEMMA RetainedLease ==
  ASSUME NEW e \in Engines, NEW next, NEW swap, NEW f, f = Retained(e, next, swap)
  PROVE  /\ next.component \in {0, e.owner} =>
              f.owner = e.owner /\ f.lease = e.lease /\ f.owner_age = e.owner_age
         /\ next.component \notin {0, e.owner} =>
              f.owner = 0 /\ ~f.lease /\ f.owner_age = Stale
<1>1. PICK b : b = Blank(e.connected)
  OBVIOUS
<1>2. PICK status : status = [w \in Slots |-> e.status[Seat(w, swap)]]
  OBVIOUS
<1>3. PICK counted : counted = {Seat(w, swap) : w \in e.counted}
  OBVIOUS
<1>4. PICK g : g = [b EXCEPT !.owner = e.owner, !.lease = e.lease, !.owner_age = e.owner_age,
                             !.status = status, !.counted = counted, !.fence = Wheels]
  OBVIOUS
<1>5. PICK h : h = [b EXCEPT !.fence = Wheels]
  OBVIOUS
<1>6. g.owner = e.owner /\ g.lease = e.lease /\ g.owner_age = e.owner_age
  BY <1>1, <1>4 DEF Blank
<1>7. h.owner = 0 /\ ~h.lease /\ h.owner_age = Stale
  BY <1>1, <1>5 DEF Blank
<1>8. f = IF next.component = 0 \/ next.component = e.owner THEN g ELSE h
  BY <1>1, <1>2, <1>3, <1>4, <1>5 DEF Retained
<1>9. QED
  BY <1>6, <1>7, <1>8

LEMMA ReconfigureLease ==
  ASSUME WheelInvariant, LeaseInvariant, NEW next, NEW swap, Reconfigure(next, swap)
  PROVE  LeaseInvariant' /\ LeaseStep
<1>1. engine \in Engines
  BY DEF WheelInvariant, TypeOK
<1>2. engine' = Retained(engine, next, swap) /\ config' = next
  BY DEF Reconfigure
<1>3. engine.owner_age \in Nat /\ engine.owner_age <= Stale /\ Stale \in Nat
  BY <1>1, OwnerAge
<1>4. CASE next.component \in {0, engine.owner}
  <2>1. /\ engine'.owner = engine.owner /\ engine'.lease = engine.lease
        /\ engine'.owner_age = engine.owner_age
    BY <1>1, <1>2, <1>4, RetainedLease
  <2>2. LeaseInvariant'
    BY <1>2, <1>4, <2>1 DEF LeaseInvariant, Admitted
  <2>3. QED
    BY <1>3, <2>1, <2>2 DEF LeaseStep
<1>5. CASE next.component \notin {0, engine.owner}
  <2>1. engine'.owner = 0 /\ ~engine'.lease /\ engine'.owner_age = Stale
    BY <1>1, <1>2, <1>5, RetainedLease
  <2>2. LeaseInvariant'
    BY <2>1 DEF LeaseInvariant
  <2>3. engine.lease => engine.owner # 0
    BY DEF LeaseInvariant
  <2>4. QED
    BY <1>2, <1>3, <1>5, <2>1, <2>2, <2>3 DEF LeaseStep
<1>6. QED
  BY <1>4, <1>5

LEMMA TickLease ==
  ASSUME WheelInvariant, LeaseInvariant, Tick
  PROVE  LeaseInvariant' /\ LeaseStep
<1>1. engine \in Engines
  BY DEF WheelInvariant, TypeOK
<1>2. PICK status : status = [w \in Slots |->
                      [engine.status[w] EXCEPT !.age = Older(engine.status[w].age)]]
  OBVIOUS
<1>3. PICK distance : distance = [engine.distance EXCEPT !.age = Older(engine.distance.age)]
  OBVIOUS
<1>4. PICK e : e = [engine EXCEPT !.owner_age = Older(engine.owner_age),
                                  !.legacy_age = Older(engine.legacy_age),
                                  !.distance = distance, !.status = status]
  OBVIOUS
<1>5. /\ e.owner = engine.owner /\ e.lease = engine.lease
      /\ e.owner_age = Older(engine.owner_age)
  BY <1>1, <1>4 DEF Engines
<1>6. Quiet(e)
  BY <1>1, <1>2, <1>3, <1>4 DEF Tick, Engines
<1>7. engine' = e /\ config' = config
  BY <1>6 DEF Quiet
<1>8. ~(Older(engine.owner_age) < engine.owner_age)
  BY <1>1, OwnerAge DEF Older
<1>9. LeaseInvariant'
  BY <1>5, <1>7 DEF LeaseInvariant, Admitted
<1>10. QED
  BY <1>5, <1>7, <1>8, <1>9 DEF LeaseStep

LEMMA LeaseKeeps ==
  ASSUME WheelInvariant, LeaseInvariant, [Next]_vars
  PROVE  LeaseInvariant' /\ [LeaseStep]_vars
<1>1. CASE \E c \in vehicle.status : StatusFrom(c)
  BY <1>1, StatusReported, StatusLease
<1>2. CASE \E c \in vehicle.status : InfoFrom(c)
  BY <1>2, InfoReported, InfoLease
<1>3. CASE \E c \in vehicle.encoders, time \in 1..vehicle.times,
              good, conflict, plausible \in BOOLEAN :
             Distance(c, time, good, conflict, plausible)
  BY <1>3, DistanceElsewhere, ElsewhereLease
<1>4. CASE \E kind \in {"infinite", "unpaired", "genuine"} : Rpm(kind)
  BY <1>4, RpmElsewhere, ElsewhereLease
<1>5. CASE Poll
  BY <1>5, PollElsewhere, ElsewhereLease
<1>6. CASE ClockBack \/ LinkChanges
  BY <1>6, ForgetLease
<1>7. CASE \E next \in Configs, swap \in BOOLEAN : Reconfigure(next, swap)
  BY <1>7, ReconfigureLease
<1>8. CASE Tick
  BY <1>8, TickLease
<1>9. CASE UNCHANGED vars
  BY <1>9 DEF vars, LeaseInvariant, Admitted
<1>10. QED
  BY <1>1, <1>2, <1>3, <1>4, <1>5, <1>6, <1>7, <1>8, <1>9 DEF Next

-----------------------------------------------------------------------------
(* The theorems. *)

\* Typing of the engine and its plugin, and a measurement has an owner.
THEOREM WheelInvariance == Spec => []WheelInvariant
<1>1. Init => WheelInvariant
  BY WheelInit
<1>2. WheelInvariant /\ [Next]_vars => WheelInvariant'
  BY WheelStep
<1>3. QED
  BY <1>1, <1>2, PTL DEF Spec

\* Both wheels, and whatever else is cached, are measurements of the owner, through takeovers,
\* restarts of a clock, exchanged wheels and other parameters.
THEOREM WheelsHaveOneOwner == Spec => []OneOwner
<1>1. WheelInvariant => OneOwner
  BY DEF WheelInvariant, Owns, OneOwner
<1>2. QED
  BY <1>1, WheelInvariance, PTL

\* The floors cover what is not news, and the baseline is the last reading of one encoder.
THEOREM PairInvariance == Spec => []PairInvariant
<1>1. Init => PairInvariant
  BY PairInit
<1>2. WheelInvariant /\ PairInvariant /\ [Next]_vars => PairInvariant'
  BY PairStep
<1>3. QED
  BY <1>1, <1>2, WheelInvariance, PTL DEF Spec

\* Odometry from ESC_STATUS uses a new measurement of each wheel, whatever other sources come
\* and go, unless another encoder took over the distance with a reading that cannot be used.
THEOREM PairsAreFresh == Spec => []FreshPair
<1>1. PairInvariant => FreshPair
  BY DEF PairInvariant
<1>2. QED
  BY <1>1, PairInvariance, PTL

\* Odometry from distances is over an interval of one encoder, between two readings in a row of
\* which the first was the source and fresh.
THEOREM IntervalsAreSound == Spec => SoundInterval
<1>1. WheelInvariant /\ PairInvariant /\ [Next]_vars =>
        [output' = "wheel_distance" =>
           /\ engine.active = "wheel_distance"
           /\ engine.distance.by = engine'.distance.by
           /\ engine.baseline = engine.distance.time
           /\ Fresh(engine.distance.age)
           /\ engine.distance.time < engine'.distance.time]_vars
  BY PairStep
<1>2. QED
  BY <1>1, WheelInvariance, PairInvariance, PTL DEF Spec, SoundInterval

\* "A different STATUS sender is ignored until the established STATUS owner expires": while the
\* lease is fresh, the owner changes only with the connection, the clock or parameters that ask
\* for another; and what makes the lease younger is a measurement of the owner, of a wheel or of
\* another of its slots, with a time that slot did not have.  A lease is lost only with the owner.
LeaseHolds == [][LeaseStep]_vars

\* No INFO, no repeated STATUS and no other source takes the slots from their owner or keeps
\* its lease alive; and the owner is at any time one that the parameters admit.
THEOREM LeasesAreHeld == Spec => []LeaseInvariant /\ LeaseHolds
<1>1. Init => LeaseInvariant
  BY DEF Init, Blank, LeaseInvariant
<1>2. WheelInvariant /\ LeaseInvariant /\ [Next]_vars => LeaseInvariant' /\ [LeaseStep]_vars
  BY LeaseKeeps
<1>3. QED
  BY <1>1, <1>2, WheelInvariance, PTL DEF Spec, LeaseHolds
=============================================================================
