----------------------------- MODULE WheelTicks -----------------------------
(***************************************************************************)
(* From the RPM of the wheel motors to the counts of /wheel_ticks: two     *)
(* integrators in the observation engine, one for ESC_STATUS and one for   *)
(* the legacy RPM, and the projector of the plugin, which outlives the     *)
(* engines that a change of parameters replaces.                           *)
(*                                                                         *)
(* The projector adds up differences of an integrator's ticks as long as   *)
(* source, epoch and segment say that they belong together.  A new         *)
(* measurement moves a wheel by one of Steps; ticks, counts and steps are  *)
(* whole, so nothing is kept as a fraction.                                *)
(***************************************************************************)
EXTENDS Integers

CONSTANTS
  Timeout,    \* observation_timeout_s, in ticks of the clock
  Steps,      \* how far a wheel may turn between two measurements
  MaxTravel,  \* bound: how far it turns in all
  MaxEpoch    \* bound: resets of an integrator

VARIABLES
  connected,
  motors,     \* common_motor_ticks_ and legacy_motor_ticks_
  lease,      \* how long ago the producer of STATUS measured any slot anew
  unusable,   \* the wheels whose STATUS is invalid or not counted
  counters,   \* the counters of LegacyWheelAdapter
  projector,  \* the WheelTickProjector; count is what was published
  travel      \* history: how far each wheel turned between measurements that were integrated

vars == <<connected, motors, lease, unusable, counters, projector, travel>>

Wheels == {"left", "right"}
Series == {"esc_status", "ardupilot_legacy"}
Stale == Timeout + 1
Fresh(age) == age <= Timeout
Size(n) == IF n < 0 THEN -n ELSE n

\* unread: measured since the projector looked.
Motor == [ticks |-> 0, valid |-> FALSE, segment |-> 0, age |-> Stale, unread |-> FALSE]
Integrator(epoch) == [epoch |-> epoch, wheels |-> [w \in Wheels |-> Motor]]
Counter == [seen |-> FALSE, advanced |-> FALSE, age |-> Stale]
Reference == [valid |-> FALSE, segment |-> 0, ticks |-> 0, count |-> 0]

\* The first engine is told of the link, which resets its integrators.
Init ==
  /\ connected = TRUE
  /\ motors = [s \in Series |-> Integrator(1)]
  /\ lease = Stale
  /\ unusable = Wheels
  /\ counters = [w \in Wheels |-> Counter]
  /\ projector = [source |-> "none", epoch |-> 0, wheels |-> [w \in Wheels |-> Reference]]
  /\ travel = [w \in Wheels |-> 0]

-----------------------------------------------------------------------------
(* MotorTickIntegrator; m is an integrator. *)

Contiguous(m, w, gap) == m.wheels[w].valid /\ ~gap /\ Fresh(m.wheels[w].age)

\* observe() of the wheels that have a new measurement.
Observe(m, moved, steps, gap) ==
  [m EXCEPT !.wheels = [w \in Wheels |->
     IF w \notin moved THEN @[w]
     ELSE [ticks |-> @[w].ticks + (IF Contiguous(m, w, gap) THEN steps[w] ELSE 0),
           valid |-> TRUE, age |-> 0, unread |-> TRUE,
           segment |-> @[w].segment + (IF Contiguous(m, w, gap) THEN 0 ELSE 1)]]]

Travelled(m, moved, steps, gap) ==
  travel' = [w \in Wheels |->
               travel[w] + (IF w \in moved /\ Contiguous(m, w, gap) THEN Size(steps[w]) ELSE 0)]

Reset(m) == Integrator(m.epoch + 1)

Invalidate(m, wheels) ==
  [m EXCEPT !.wheels = [w \in Wheels |-> [@[w] EXCEPT !.valid = @ /\ w \notin wheels]]]

\* ObservationEngine::motor_ticks
Ticks(ms, bad, s) ==
  [ms[s] EXCEPT !.wheels = [w \in Wheels |->
     [@[w] EXCEPT !.valid = @ /\ connected /\ Fresh(ms[s].wheels[w].age)
                              /\ (s = "esc_status" => w \notin bad)]]]

HasTicks(t) == \E w \in Wheels : t.wheels[w].valid

-----------------------------------------------------------------------------
(* WheelTickProjector. *)

NoReferences(p) ==
  [p EXCEPT !.wheels = [w \in Wheels |-> [@[w] EXCEPT !.valid = FALSE]]]

\* project_wheel: a new reference, or the difference to the old one.
ProjectWheel(r, m) ==
  IF ~m.valid THEN [r EXCEPT !.valid = FALSE]
  ELSE IF ~r.valid \/ r.segment # m.segment
  THEN [r EXCEPT !.valid = TRUE, !.segment = m.segment, !.ticks = m.ticks]
  ELSE IF ~m.unread THEN r
  ELSE [r EXCEPT !.ticks = m.ticks, !.count = @ + Size(m.ticks - r.ticks)]

Project(p, source, t) ==
  LET q == IF p.source = source /\ p.epoch = t.epoch THEN p
           ELSE [NoReferences(p) EXCEPT !.source = source, !.epoch = t.epoch] IN
  [q EXCEPT !.wheels = [w \in Wheels |-> ProjectWheel(@[w], t.wheels[w])]]

\* publish_wheel_ticks, at the end of handle_status and handle_rpm.
PublishWheelTicks(ms, bad) ==
  LET esc == Ticks(ms, bad, "esc_status")
      legacy == Ticks(ms, bad, "ardupilot_legacy")
      source == IF HasTicks(esc) THEN "esc_status" ELSE "ardupilot_legacy"
      read(s) == [ms[s] EXCEPT !.wheels = [w \in Wheels |-> [@[w] EXCEPT !.unread = FALSE]]] IN
  IF HasTicks(esc) \/ HasTicks(legacy)
  THEN /\ projector' = Project(projector, source, IF HasTicks(esc) THEN esc ELSE legacy)
       /\ motors' = [ms EXCEPT ![source] = read(source)]
  ELSE projector' = NoReferences(projector) /\ motors' = ms

-----------------------------------------------------------------------------
(* Handlers. *)

\* handle_status with new measurements of some wheels, or of none: a slot that is no wheel
\* renews the lease too.
Status(moved, steps, gap) ==
  /\ connected
  /\ lease' \in IF moved = {} THEN {lease, 0} ELSE {0}
  /\ unusable' = unusable \ moved
  /\ PublishWheelTicks([motors EXCEPT !["esc_status"] = Observe(@, moved, steps, gap)],
                       unusable \ moved)
  /\ Travelled(motors["esc_status"], moved, steps, gap)
  /\ UNCHANGED <<connected, counters>>

\* ... that says something else of the measurement it repeats.
Contradiction(wheels) ==
  /\ connected
  /\ unusable' = unusable \cup wheels
  /\ PublishWheelTicks([motors EXCEPT !["esc_status"] = Invalidate(@, wheels)],
                       unusable \cup wheels)
  /\ UNCHANGED <<connected, counters, travel, lease>>

\* ... from an earlier time, or from another component once the lease of the first has expired:
\* reset_common, then the measurement.
\* The projector does not take a time that is behind the last one it used; by the next STATUS
\* the clock has caught up.
Unread(m, ahead) ==
  [m EXCEPT !.wheels = [w \in Wheels |-> [@[w] EXCEPT !.unread = @ /\ ahead]]]

NewProducer(moved, steps, ahead) ==
  /\ connected /\ motors["esc_status"].epoch < MaxEpoch
  /\ ahead => ~Fresh(lease)
  /\ lease' \in IF moved = {} THEN {Stale, 0} ELSE {0}
  /\ unusable' = Wheels \ moved
  /\ PublishWheelTicks(
       [motors EXCEPT !["esc_status"] = Unread(Observe(Reset(@), moved, steps, FALSE), ahead)],
       Wheels \ moved)
  /\ UNCHANGED <<connected, counters, travel>>

\* handle_info: these wheels are not counted.
Uncounted(wheels) ==
  /\ connected
  /\ unusable' = unusable \cup wheels
  /\ UNCHANGED <<connected, motors, counters, projector, travel, lease>>

\* receive_esc_counts
LegacyTelemetry(advanced) ==
  /\ connected
  /\ counters' = [w \in Wheels |->
       IF ~counters[w].seen THEN [counters[w] EXCEPT !.seen = TRUE]
       ELSE IF w \in advanced THEN [seen |-> TRUE, advanced |-> TRUE, age |-> 0]
       ELSE counters[w]]
  /\ UNCHANGED <<connected, motors, unusable, projector, travel, lease>>

\* handle_rpm: one RPM for both counters advanced, which it uses up; RPM that is not finite
\* only breaks the series.
Rpm(steps) ==
  LET genuine == \A w \in Wheels : counters[w].advanced /\ Fresh(counters[w].age)
      moved == IF genuine THEN Wheels ELSE {} IN
  /\ connected
  /\ counters' = IF \A w \in Wheels : counters[w].advanced
                 THEN [w \in Wheels |-> [counters[w] EXCEPT !.advanced = FALSE]]
                 ELSE counters
  /\ PublishWheelTicks([motors EXCEPT !["ardupilot_legacy"] = Observe(@, moved, steps, FALSE)],
                       unusable)
  /\ Travelled(motors["ardupilot_legacy"], moved, steps, FALSE)
  /\ UNCHANGED <<connected, unusable, lease>>

RpmInfinite ==
  /\ connected
  /\ PublishWheelTicks([motors EXCEPT !["ardupilot_legacy"] = Invalidate(@, Wheels)], unusable)
  /\ UNCHANGED <<connected, unusable, counters, travel, lease>>

\* connection_cb
LinkChanges ==
  /\ \A s \in Series : motors[s].epoch < MaxEpoch
  /\ connected' = ~connected
  /\ motors' = [s \in Series |-> Reset(motors[s])]
  /\ unusable' = Wheels
  /\ lease' = Stale
  /\ counters' = [w \in Wheels |-> Counter]
  /\ projector' = IF connected THEN NoReferences(projector) ELSE projector
  /\ UNCHANGED travel

\* New parameters, a new engine: it keeps the integrators whose wheels are the same.
Reconfigure(same) ==
  /\ motors' = [s \in Series |-> IF s \in same THEN motors[s] ELSE Integrator(0)]
  /\ counters' = [w \in Wheels |-> Counter]
  /\ unusable' = IF "esc_status" \in same THEN unusable ELSE Wheels
  /\ UNCHANGED <<connected, projector, travel, lease>>

Older(age) == IF age < Stale THEN age + 1 ELSE age

Tick ==
  /\ motors' = [s \in Series |-> [motors[s] EXCEPT !.wheels =
                  [w \in Wheels |-> [@[w] EXCEPT !.age = Older(@)]]]]
  /\ lease' = Older(lease)
  /\ counters' = [w \in Wheels |-> [counters[w] EXCEPT !.age = Older(@)]]
  /\ UNCHANGED <<connected, unusable, projector, travel>>

Next ==
  \/ \E steps \in [Wheels -> Steps] :
       /\ \A w \in Wheels : travel[w] + Size(steps[w]) <= MaxTravel
       /\ \/ \E moved \in SUBSET Wheels, flag \in BOOLEAN :
               NewProducer(moved, steps, flag) \/ Status(moved, steps, flag)
          \/ Rpm(steps)
  \/ \E wheels \in SUBSET Wheels : Contradiction(wheels) \/ Uncounted(wheels)
  \/ \E advanced \in SUBSET Wheels : LegacyTelemetry(advanced)
  \/ RpmInfinite \/ LinkChanges \/ Tick
  \/ \E same \in {{}, {"ardupilot_legacy"}, {"esc_status"}, Series} : Reconfigure(same)

Spec == Init /\ [][Next]_vars

-----------------------------------------------------------------------------
\* "A source, epoch or segment change establishes a new reference while retaining published
\* magnitude counts, rather than inventing a delta": no wheel is said to have turned further
\* than it turned between two measurements of an unbroken series.
CountsAreTravel == \A w \in Wheels : projector.wheels[w].count <= travel[w]
=============================================================================
