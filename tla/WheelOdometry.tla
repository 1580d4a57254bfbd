--------------------------- MODULE WheelOdometry ----------------------------
(***************************************************************************)
(* The normalizer of the ESC wheel odometry plugin: up to three kinds of   *)
(* producers measure the wheels, each with a clock of its own, and one of  *)
(* them at a time is the source of /wheel_odom.                            *)
(*                                                                         *)
(* The plugin runs every handler under its mutex.  Reception times are     *)
(* ages in ticks, up to stale; measurement times are numbers up to MaxTime *)
(* that go on, repeat or start again.  Speeds, currents and metadata are   *)
(* left out: what matters of them is whether a repeated measurement        *)
(* contradicts the first (conflict), whether a distance is usable (good)   *)
(* and whether a speed is possible (plausible).  Of the legacy protocol    *)
(* the model has whether an RPM comes with fresh advances of both counters *)
(* (genuine).  The slots of the wheels follow their parameters: swap is a  *)
(* configuration that exchanges them.  ESC_STATUS and ESC_INFO speak of    *)
(* other ESCs too, a blade's or none at all, whose slots make no odometry  *)
(* but count for the lease and the measurement clock of the sender.        *)
(***************************************************************************)
EXTENDS Integers, FiniteSets

CONSTANTS
  Timeout,   \* observation_timeout_s, in ticks of the clock
  MaxSkew,   \* common_pair_max_skew_s, in units of measurement time
  Interval,  \* observation_timeout_s again, in units of measurement time
  MaxTime,   \* bound: measurement times
  OtherSlots, \* the slots of ESCs that are no wheels
  Vehicles,  \* who measures: [status, encoders : SUBSET Components, legacy : BOOLEAN,
             \*                times : 1..MaxTime, slots : SUBSET Slots]
  Configs    \* the parameters: [source : Modes, component : Components \cup {0}, mapped : BOOLEAN]

Wheels == {"left", "right"}
Slots == Wheels \cup OtherSlots
Other(w) == IF w = "left" THEN "right" ELSE "left"
Components == 1..255
Modes == {"auto", "wheel_distance", "esc_status", "ardupilot_legacy"}
Sources == Modes \ {"auto"}

ASSUME WheelAssumption ==
  /\ Timeout \in Nat /\ MaxSkew \in Nat /\ Interval \in Nat /\ MaxTime \in Nat \ {0}
  /\ OtherSlots \cap Wheels = {}
  /\ \A v \in Vehicles : /\ v.status \cup v.encoders \subseteq Components
                         /\ v.legacy \in BOOLEAN /\ v.times \in 1..MaxTime
                         /\ v.slots \subseteq Slots
  /\ \A c \in Configs : c.source \in Modes /\ c.component \in Components \cup {0}
                        /\ c.mapped \in BOOLEAN

VARIABLES
  engine,    \* the ObservationEngine
  config,    \* its ObservationConfig
  output,    \* the source of the odometry the last step published, or "none"
  news,      \* history: the wheels measured since the last odometry, or since another
             \* source was active, the configuration or the measurement clock changed
  unfenced,  \* history: the distance was dropped as the source, and no selection put the
             \* floors under what was cached meanwhile
  measured,  \* history: who measured each slot
  vehicle

vars == <<engine, config, output, news, unfenced, measured, vehicle>>

Stale == Timeout + 1
Ages == 0..Stale
Times == 0..MaxTime     \* 0: never
Fresh(age) == age <= Timeout

\* status_ of the slots; distance_ with its component; owner is common_component_ and lease
\* common_status_owner_; counted, the slots below common_count_; fence, the wheels not
\* measured since common_configuration_ns_; floor, published_left_ and published_right_.
Unseen == [time |-> 0, age |-> Stale, valid |-> FALSE]
NoDistance == [by |-> 0, time |-> 0, age |-> Stale]
Engines ==
  [connected : BOOLEAN, owner : Components \cup {0}, lease : BOOLEAN, owner_age : Ages,
   status : [Slots -> [time : Times, age : Ages, valid : BOOLEAN]], counted : SUBSET Slots,
   floor : [Wheels -> Times], epoch_baseline_needed : BOOLEAN, fence : SUBSET Wheels,
   distance : [by : Components \cup {0}, time : Times, age : Ages], baseline : Times,
   legacy_age : Ages, active : Sources \cup {"none"}, last_sample : Times]

Blank(connected) ==
  [connected |-> connected, owner |-> 0, lease |-> FALSE, owner_age |-> Stale,
   status |-> [s \in Slots |-> Unseen], counted |-> Slots, floor |-> [w \in Wheels |-> 0],
   epoch_baseline_needed |-> FALSE, fence |-> {}, distance |-> NoDistance, baseline |-> 0,
   legacy_age |-> Stale, active |-> "none", last_sample |-> 0]

-----------------------------------------------------------------------------
(* Methods of the engine; e is the engine. *)

TimesOf(e) == [w \in Wheels |-> e.status[w].time]

\* The core forgets its last sample with the source that gave it.
Leave(e, source) ==
  IF e.active = source THEN [e EXCEPT !.active = "none", !.last_sample = 0] ELSE e

ResetCommon(e) ==
  LET b == Blank(e.connected) IN
  Leave([e EXCEPT !.owner = 0, !.lease = FALSE, !.owner_age = Stale, !.status = b.status,
                  !.counted = Slots, !.floor = b.floor, !.epoch_baseline_needed = FALSE,
                  !.fence = {}], "esc_status")

ResetDistance(e) ==
  Leave([e EXCEPT !.distance = NoDistance, !.baseline = 0], "wheel_distance")

Admitted(component) == config.component \in {0, component}

MayUse(source) == config.source \in {"auto", source}

CommonAvailable(e) ==
  /\ config.mapped
  /\ Wheels \subseteq e.counted
  /\ \A w \in Wheels : e.status[w].valid /\ Fresh(e.status[w].age)
  /\ \A v, w \in Wheels : e.status[v].time - e.status[w].time <= MaxSkew

WheelConfigured == MayUse("wheel_distance") \/ config.mapped

Choice(e) ==
  IF ~e.connected \/ ~WheelConfigured THEN "none"
  ELSE IF MayUse("wheel_distance") /\ e.distance.by # 0 /\ Fresh(e.distance.age)
       THEN "wheel_distance"
  ELSE IF MayUse("esc_status") /\ CommonAvailable(e) THEN "esc_status"
  ELSE IF MayUse("ardupilot_legacy") /\ config.mapped /\ Fresh(e.legacy_age)
       THEN "ardupilot_legacy"
  ELSE "none"

\* Wrong on purpose: what is cached while the pair returns counts as new.
FloorKept(e, next, update, previous) == e.floor

\* Floors fence cached wheels when another source was active; a gap of the pair alone keeps
\* its pending wheel.
FloorAfter(e, next, update, previous) ==
  IF ~config.mapped THEN e.floor
  ELSE IF \/ next # "esc_status" /\ (next # "none" \/ e.active # "esc_status")
          \/ next = "esc_status" /\ ~update
       THEN TimesOf(e)
  ELSE IF next = "esc_status" /\ e.active # "none" THEN previous
  ELSE e.floor

Select(e, update, previous) ==
  LET next == Choice(e) IN
  IF next = e.active THEN e
  ELSE [e EXCEPT !.last_sample = 0,
                 !.floor = FloorAfter(e, next, update, previous),
                 !.baseline = IF next = "wheel_distance" THEN e.distance.time ELSE 0,
                 !.active = next]

Selected(e) == Select(e, FALSE, e.floor)

\* A new STATUS sender takes over when the lease of the old one has expired.
StatusRefused(e, c) ==
  ~Admitted(c) \/ (e.owner \notin {0, c} /\ e.lease /\ Fresh(e.owner_age))

\* Wrong on purpose: the new owner keeps what the old one measured.
StatusOwnerKeeps(e, c) == [e EXCEPT !.owner = c, !.lease = TRUE]

StatusOwner(e, c) ==
  [(IF e.owner \in {0, c} THEN e ELSE ResetCommon(e)) EXCEPT !.owner = c, !.lease = TRUE]

\* The clock of the sender went back: its epoch starts again.
Regressed(e, slots, time) == \E s \in slots : time < e.status[s].time

NewEpoch(e) ==
  [ResetCommon(e) EXCEPT !.owner = e.owner, !.lease = TRUE, !.epoch_baseline_needed = TRUE]

\* The slots of a STATUS that the engine takes as measured anew; any of them renews the lease.
NewlyMeasured(e, slots, time) ==
  {s \in slots \cap e.counted : e.status[s].time # time}

Measure(e, slots, time, conflict) ==
  LET new == NewlyMeasured(e, slots, time) IN
  [e EXCEPT
     !.status = [s \in Slots |->
                   IF s \in new THEN [time |-> time, age |-> 0, valid |-> TRUE]
                   ELSE IF s \in conflict \cap slots \cap e.counted
                   THEN [e.status[s] EXCEPT !.valid = FALSE]
                   ELSE e.status[s]],
     !.owner_age = IF new = {} THEN @ ELSE 0,
     !.fence = @ \ new]

LargerTime(e) ==
  IF e.status["left"].time > e.status["right"].time
  THEN e.status["left"].time ELSE e.status["right"].time

PairIsNew(e) == \A w \in Wheels : e.status[w].time > e.floor[w]

\* The end of common_status: the pair is the baseline of its epoch, or odometry, or neither.
PublishesPair(e) ==
  /\ e.active = "esc_status" /\ CommonAvailable(e)
  /\ e.fence = {} /\ ~e.epoch_baseline_needed
  /\ PairIsNew(e) /\ LargerTime(e) > e.last_sample

AfterPair(e) ==
  IF PublishesPair(e)
  THEN [e EXCEPT !.floor = TimesOf(e), !.last_sample = LargerTime(e)]
  ELSE IF /\ e.active = "esc_status" /\ CommonAvailable(e)
          /\ e.fence = {} /\ e.epoch_baseline_needed
  THEN [e EXCEPT !.floor = TimesOf(e), !.epoch_baseline_needed = FALSE]
  ELSE e

\* distance_.valid = false
DropDistance(e) == Selected([e EXCEPT !.distance = NoDistance, !.baseline = 0])

\* Whose slot this one was before the parameters changed.
Seat(s, swap) == IF swap /\ s \in Wheels THEN Other(s) ELSE s

\* retain_esc_observations, by an engine that is new but for what it takes over.
Retained(e, next, swap) ==
  LET b == Blank(e.connected) IN
  IF next.component = 0 \/ next.component = e.owner
  THEN [b EXCEPT !.owner = e.owner, !.lease = e.lease, !.owner_age = e.owner_age,
                 !.status = [s \in Slots |-> e.status[Seat(s, swap)]],
                 !.counted = {Seat(s, swap) : s \in e.counted},
                 !.fence = Wheels]
  ELSE [b EXCEPT !.fence = Wheels]

-----------------------------------------------------------------------------
(* Handlers of the plugin. *)

Init ==
  /\ engine \in {Blank(connected) : connected \in BOOLEAN}
  /\ config \in Configs
  /\ output = "none"
  /\ news = {}
  /\ unfenced = FALSE
  /\ measured = [s \in Slots |-> 0]
  /\ vehicle \in Vehicles

\* publish_wheel, if the source has a wheel configuration at all.
Publish(source) == output' = IF WheelConfigured THEN source ELSE "none"

\* What was measured before the last odometry, or while another source was active, is old news.
Superseded == output # "none" \/ engine.active \in {"wheel_distance", "ardupilot_legacy"}
OldNews == IF Superseded THEN {} ELSE news
StillUnfenced == unfenced /\ ~Superseded

Quiet(e) ==
  /\ engine' = e
  /\ output' = "none"
  /\ news' = OldNews
  /\ unfenced' = StillUnfenced
  /\ UNCHANGED <<config, measured, vehicle>>

\* handle_status: ESC_STATUS of a group of four ESCs, with a wheel among them or none.
Status(c, slots, time, conflict) ==
  /\ engine.connected
  /\ IF StatusRefused(engine, c) THEN Quiet(engine)
     ELSE \E owned \in {StatusOwner(engine, c)} :
          \E epoch \in {IF Regressed(owned, slots, time) THEN NewEpoch(owned) ELSE owned} :
          \E e \in {Select(Measure(epoch, slots, time, conflict), TRUE, TimesOf(owned))} :
            LET new == NewlyMeasured(epoch, slots, time) IN
            /\ engine' = AfterPair(e)
            /\ IF PublishesPair(e) THEN Publish("esc_status") ELSE output' = "none"
            /\ news' = IF Regressed(owned, slots, time) THEN {}
                       ELSE (IF engine.owner \in {0, c} THEN OldNews ELSE {})
                              \cup (new \cap Wheels)
            /\ unfenced' = (StillUnfenced /\ engine.owner \in {0, c})
            /\ measured' = [s \in Slots |-> IF s \in new THEN c ELSE measured[s]]
            /\ UNCHANGED <<config, vehicle>>

\* Wrong on purpose: INFO renews the lease.
InfoOwnerRenews(e, c) ==
  [(IF e.owner \in {0, c} THEN e ELSE ResetCommon(e)) EXCEPT !.owner = c, !.owner_age = 0]

\* handle_info: ESC_INFO says which of the slots are counted; its own clock may go back.
InfoOwner(e, c) ==
  [(IF e.owner \in {0, c} THEN e ELSE ResetCommon(e)) EXCEPT !.owner = c]

Counted(e, counted) ==
  [e EXCEPT !.counted = counted,
            !.status = [s \in Slots |->
                          [e.status[s] EXCEPT !.valid = e.status[s].valid /\ s \in counted]]]

Info(c, counted, regressed) ==
  /\ engine.connected
  /\ regressed => engine.owner = c
  /\ IF ~Admitted(c) \/ (engine.owner \notin {0, c} /\ engine.lease) THEN Quiet(engine)
     ELSE \E e \in {InfoOwner(engine, c)} :
            Quiet(Selected(IF regressed THEN e ELSE Counted(e, counted)))

\* handle_distance
DistanceOwner(e, c) == IF e.distance.by \in {0, c} THEN e ELSE ResetDistance(e)

\* Wrong on purpose: the baseline outlives the reading.
GoesOnAnyway(e, time) == IF time < e.distance.time THEN ResetDistance(e) ELSE e

\* The clock of the encoder goes back, or nothing was heard for too long: a new baseline.
GoesOn(e, time) ==
  IF time < e.distance.time THEN ResetDistance(e)
  ELSE IF ~Fresh(e.distance.age) THEN [e EXCEPT !.baseline = 0] ELSE e

Distance(c, time, good, conflict, plausible) ==
  LET e == DistanceOwner(engine, c)
      old == e.distance
      s == Selected([GoesOn(e, time) EXCEPT !.distance = [by |-> c, time |-> time, age |-> 0]])
      next == IF s.active = "wheel_distance" THEN [s EXCEPT !.baseline = time] ELSE s
      interval == s.active = "wheel_distance" /\ s.baseline # 0 /\ time > s.baseline
                    /\ time - s.baseline <= Interval IN
  /\ engine.connected
  /\ IF engine.distance.by \notin {0, c} /\ Fresh(engine.distance.age) THEN Quiet(engine)
     ELSE IF ~good
     THEN /\ engine' = DropDistance(e)
          /\ output' = "none"
          /\ news' = OldNews
          /\ unfenced' = (StillUnfenced \/ (e.active # engine.active /\ engine'.active = "none"))
          /\ UNCHANGED <<config, measured, vehicle>>
     ELSE IF time = old.time THEN Quiet(IF conflict THEN DropDistance(e) ELSE e)
     ELSE IF interval /\ ~plausible THEN Quiet(DropDistance(next))
     ELSE /\ engine' = IF interval /\ time > s.last_sample
                       THEN [next EXCEPT !.last_sample = time] ELSE next
          /\ IF interval /\ time > s.last_sample
             THEN Publish("wheel_distance") ELSE output' = "none"
          /\ news' = OldNews
          /\ unfenced' = StillUnfenced
          /\ UNCHANGED <<config, measured, vehicle>>

\* handle_rpm: of two RPM, not both of them finite, or not both counters advanced, or genuine.
\* (Its measurement time is the time of its reception, which no other has.)
Rpm(kind) ==
  /\ engine.connected
  /\ \E e \in {Selected([engine EXCEPT !.legacy_age =
                 IF kind = "infinite" THEN Stale
                 ELSE IF kind = "genuine" /\ config.mapped THEN 0 ELSE @])} :
       /\ engine' = e
       /\ IF kind = "genuine" /\ e.active = "ardupilot_legacy"
          THEN Publish("ardupilot_legacy") ELSE output' = "none"
       /\ news' = OldNews
       /\ unfenced' = StillUnfenced
       /\ UNCHANGED <<config, measured, vehicle>>

\* The 500 ms timer.
Poll == Quiet(Selected(engine))

\* A handler that finds the ROS clock behind its last reception first forgets everything.
Forget(connected) ==
  /\ engine' = Blank(connected)
  /\ output' = "none"
  /\ news' = {}
  /\ unfenced' = FALSE
  /\ measured' = [s \in Slots |-> 0]
  /\ UNCHANGED <<config, vehicle>>

ClockBack == Forget(engine.connected)

\* connection_cb
LinkChanges == Forget(~engine.connected)

\* Parameters were set: validated in one callback, applied in another.
Reconfigure(next, swap) ==
  /\ next # config \/ swap
  /\ engine' = Retained(engine, next, swap)
  /\ config' = next
  /\ output' = "none"
  /\ news' = {}
  /\ unfenced' = FALSE
  /\ measured' = [s \in Slots |-> measured[Seat(s, swap)]]
  /\ UNCHANGED vehicle

Older(age) == IF age < Stale THEN age + 1 ELSE age

Tick ==
  Quiet([engine EXCEPT
    !.owner_age = Older(@), !.legacy_age = Older(@), !.distance.age = Older(@),
    !.status = [s \in Slots |->
                  [engine.status[s] EXCEPT !.age = Older(engine.status[s].age)]]])

\* A repeated measurement that contradicts the first makes it invalid, which matters of wheels.
StatusFrom(c) ==
  \E slots \in SUBSET vehicle.slots \ {{}}, time \in 1..vehicle.times :
    \E conflict \in SUBSET (slots \cap Wheels) : Status(c, slots, time, conflict)

\* INFO counts all slots but those beyond its count.
InfoFrom(c) ==
  \/ Info(c, {}, TRUE)
  \/ \E beyond \in SUBSET vehicle.slots : Info(c, Slots \ beyond, FALSE)

Next ==
  \/ \E c \in vehicle.status : StatusFrom(c)
  \/ \E c \in vehicle.status : InfoFrom(c)
  \/ \E c \in vehicle.encoders, time \in 1..vehicle.times, good, conflict, plausible \in BOOLEAN :
       Distance(c, time, good, conflict, plausible)
  \/ vehicle.legacy /\ \E kind \in {"infinite", "unpaired", "genuine"} : Rpm(kind)
  \/ Poll
  \/ ClockBack \/ LinkChanges
  \/ \E next \in Configs, swap \in BOOLEAN : Reconfigure(next, swap)
  \/ Tick

Spec == Init /\ [][Next]_vars

FairSpec == Spec /\ WF_vars(Tick)

-----------------------------------------------------------------------------
(* Properties. *)

TypeOK ==
  /\ engine \in Engines
  /\ config \in Configs
  /\ output \in Sources \cup {"none"}
  /\ news \subseteq Wheels
  /\ unfenced \in BOOLEAN
  /\ measured \in [Slots -> Components \cup {0}]
  /\ vehicle \in Vehicles

\* "Both wheel measurements must advance, including after a source transition; cached wheels
\* cannot be paired with a newly arrived wheel across that transition": odometry from ESC_STATUS
\* uses a new measurement of each wheel.  (But for the case of unfenced.)
FreshPair == output = "esc_status" => news = Wheels \/ unfenced

\* A distance over time is one encoder's own: from its last reading, which was the source and
\* still fresh, to a later one.
SoundInterval ==
  [][output' = "wheel_distance" =>
       /\ engine.active = "wheel_distance"
       /\ engine.distance.by = engine'.distance.by
       /\ engine.baseline = engine.distance.time
       /\ Fresh(engine.distance.age)
       /\ engine.distance.time < engine'.distance.time]_vars

\* "COMMON STATUS and INFO share a single component owner": the wheels, and every other slot,
\* are its measurements.
OneOwner ==
  \A s \in Slots : engine.status[s].time # 0 => measured[s] = engine.owner

\* "A different STATUS sender is ignored until the established STATUS owner expires": and expire
\* it does, whatever INFO and repeated STATUS still arrive, once no slot of it, wheel or other,
\* is measured anew.
LeaseExpires ==
  \A c \in UNION {v.status : v \in Vehicles} :
    /\ <>[]Admitted(c)
    /\ <>[][\A s \in Slots : engine'.status[s].age >= engine.status[s].age]_vars
    => []<>~StatusRefused(engine, c)
=============================================================================
