# TLA+ models of the Mowgli MAVROS stack

This directory specifies the control logic of the mower's ROS 2 stack: the node that sits
between MowgliNext (the planner) and an ArduPilot flight controller (FCU) reached through
MAVROS, and the adapters around it.  Modules are checked with TLC on small instances, and the
ones that carry the safety argument are proved with TLAPS for every value of their constants.
Paths below are relative to `ros2/src/`.

## 1. The system

| Component | Source | State | Operations |
|---|---|---|---|
| Blade controller | `mowgli_mavros_bridge/.../blade_control.hpp` | requested and confirmed direction, command in flight, queued neutral, stop proof, fault | connection, permission, request, force_off, service_timeout, sample, tick, next, complete, output |
| Session sequencer | `.../fcu_session_controller.hpp` | wanted and observed MODE/ARM, pending command, latched failures, owed DISARM | demand, observe, tick, next, complete |
| Safety projection | `.../safety_state.hpp`, `button_change_decoder.hpp` | buttons, hardware switch, tilt, service emergency, their latches | observe_*, set_service_emergency, clear_released_latches, disconnect, project |
| Bridge node | `mowgli_mavros_bridge/src/mavros_hardware_bridge_node.cpp` | the three above, callers waiting for a blade reply, blade test, traction gate | one handler per topic, service, timer and service answer |
| Readiness | `readiness_state.*` | freshness of every stream since the last connection | one observer per stream, project |
| ESC telemetry tracker | `esc_telemetry_tracker.hpp` | last sample per ESC slot | observe, project, reset |
| Firmware detection | `detect_mavros_firmware.cpp`, launch file | AUTOPILOT_VERSION/HEARTBEAT seen | one-shot detection |
| NTRIP client | `mowgli_ntrip_client/src/ntrip_connection.cpp` | resolve, connect, handshake, read, watchdog, reconnect | asynchronous handlers on one io_context |
| GNSS adapter | `mavros_gnss_adapter/.../adapter_state.hpp` | queued fixes, status and altitude with their receipt | observe_*, take_fixes, expire |
| ESC wheel odometry | `mavros_esc_wheel_odometry/src/*.cpp` | per-ESC identity and counters, tick integration | observation engine, projections |
| Battery observer | `mavros_battery_observer/.../power_state.hpp` | battery and charger samples | observe, project |
| Interfaces, tools, images | `mowgli_interfaces`, `tools`, Docker files | none | generated or build-time |

Interaction.  The node runs in `rclcpp::spin`, one handler at a time, and holds `mutex_` while it
touches shared state: a handler is one atomic step.  Almost every handler ends in
`drive_session_locked()` and/or `drive_blade_locked()`, which project the safety inputs, let the two
controllers age what is outstanding, and hand at most one command each to MAVROS through an
asynchronous service call.  The answer is another handler.  Between the call and the answer
anything may happen: the link drops, the demand changes, an emergency comes, the answer is lost or
says "failed" of a command that was executed.

Around the node, each with a mutex and a clock of its own: three MAVROS plugins (GNSS adapter, battery
observer, ESC wheel odometry) keep a state per sensor and publish from it, and the bridge keeps the age of
what they publish (`ReadinessState`).  The plugins do not hear of the link the way the bridge does, and any
message may be lost.  The NTRIP client is one thread with an `io_context`; its destructor stops it from another.

What is hard in the node: answers of commands that were given up (the wire cannot be recalled), lost answers,
safety inputs that must not wait for a transaction, position knowledge that must be rebuilt after
a disturbance, and the promise that stable state causes no repeated commands.

What is hard around it: completions that were queued before the timer, the failure or the `stop()` that
makes them obsolete; old data that new messages carry along; sources that repeat, regress, restart, or fall silent
without saying so; values cached for one configuration or one owner and used under the next.

## 2. Modules

| Module | What it is |
|---|---|
| `BladeControl` | class `BladeControl`, one operator per method on a record of its fields |
| `BladeActuation` | the bridge's handlers calling it, MAVROS, the servo output, the blade, the clock |
| `BladeInterlock` | abstract specification of the machine: rotations start from neutral and rest |
| `FcuSession` | class `FcuSessionController`, one operator per method |
| `FcuSessionActuation` | `drive_session_locked` and the handlers that end in it, MAVROS, FCU, pilot |
| `FcuSessionContract` | abstract specification of the command stream |
| `MowerControl` | the bridge node's handlers around the `mower_control` service: callers, blade test, session and blade together |
| `SafetyState` | class `SafetyState`, one operator per method |
| `TractionGate` | the same node seen from MowgliNext: movement, velocities, safety inputs and what they ask for |
| `NtripConnection` | class `NtripConnection` of the NTRIP client on its `io_context` |
| `GnssAdapter`, `PowerState`, `ReadinessState` | the classes `AdapterState` (status path), `PowerState` with its plugin's handler, `ReadinessState`: one operator per method |
| `SensorChain` | the three together, with their timers, their messages and the link |
| `WheelOdometry` | class `ObservationEngine` of the ESC wheel odometry and the handlers of its plugin |
| `WheelTicks` | class `MotorTickIntegrator`, twice, and class `WheelTickProjector`: the counts of `/wheel_ticks` |
| `MC*` and `.cfg` | instances |
| `BladeProofs`, `FcuSessionTypes`, `FcuSessionProofs`, `MowerControlProofs`, `TractionGateProofs`, `NtripProofs`, `SensorChainProofs`, `WheelOdometryProofs` | theorems |

**Records and operators.**  A handler calls several methods in a row.  Each class is therefore a
record (one field per member) and each method an operator from the record before to the record
after, and a handler composes them in one primed assignment.

**Time.**  The code stores absolute milliseconds and compares `now - stamp` with limits.  The
records keep that difference as an age that stops at the limit; `ClockTick` advances them.  The
limits are constants, and the proofs hold for all of them.  In the instances a tick is a second or
so: what matters to the code is the order of the limits, not their ratio.

**Identifiers.**  Tokens and serials only serve to be compared for equality; the code counts, the
models take a free identifier (`FreeTokens`, `FreeSerials`).  An identifier is free when neither the
wire, nor an undelivered answer, nor the controller holds it, so reuse is invisible.

**Deliberate mistakes.**  Most modules contain operators that stand just before another and bear its name with
a suffix (`CurrentAny`, `FailAny`, `TickedNever`, ...).  Nothing uses
them.  Each is a plausible error; when it replaces the operator after it, TLC finds the property
listed with it in `PROJECT.json` violated, which shows that the property constrains the code.

### Blade

`BladeActuation` keeps `blade` (the object), `wire` (commands MAVROS emitted, in order), `replies`
(answers under way), `servo` (the FCU's output) and `rotation` (the blade), and `issued`, a history
of the last direction handed out.  The callers are left unconstrained: any request, permission
edge, connection edge, forced OFF, reply deadline, observation or RC output may come at any time.  This
covers every order the bridge can produce, and more.  The environment keeps order but may lose a
command, lose an answer, or answer "failed" after applying the command.  ESC samples say zero RPM
exactly when the blade is at rest; they may be stale, repeated, or from another source.

Not in this model: PWM values (a direction stands for its PWM), the 32-reply limit and the replies
themselves (`MowerControl`), `token_` and `revision_` wrapping at 2^64 (`RevisionMod` gives the
modulus; nothing here depends on it).

### Session

`FcuSessionActuation` keeps `session` (the object), `intent` (what the bridge's inputs call for: idle,
blade test, movement in a mode, an emergency with HOLD, an emergency that leaves the mode), `calls`
(commands MAVROS holds), `answer`, `fcu` and the last `heartbeat`.  `spent` and `asked` are histories.
`Drive` is `drive_session_locked`: demand, tick, end of a failed blade test, emission, and a send
that may throw.  `request_safety_disarm` demands once more before it (`SafetyRequest`).  `BladeTestEnds`
is the demand of `end_failed_blade_test_locked` reached from `drive_blade_locked`; the handlers run that
function after the session, so in the model it is a step of its own.  `on_cmd_vel` drives
the session and nothing else: it is `Timer`.

MODE answers mean "sent" (MAVROS replies before the FCU acts); ARM answers come after the FCU acted
or refused, and may falsely say "failed".  `Pilot` changes the FCU at will.

### Mower control

`MowerControl` is the bridge node seen from its callers.  `node` is the bridge object: link, movement,
emergency and switch; `blade_test_active_` (`test`); `pending_blade_starts_` (`starts`) and `blade_replies_`
(`replies`); and `told`, the answers the last handler sent.  `clients` is a history: what each caller asked
and whether its ON was called off since.  One action is one handler; inside it the bridge's methods
are operators on the record, applied in the order of the code: `DriveBlade` is the six stages of
`drive_blade_locked`, `TurnOff` and `TurnOn` the two branches of `on_mower_control`.

The two controllers appear here by what this code reads of them: demand, `satisfied()`, `failed()`,
`revision()` of the blade; `requested_arm()`, `ready()`, `failed()` of the session.  How they come to be
ready or failed is an input (`SessionOutcomes`, `Troubles`), taken from all that `BladeActuation` and
`FcuSessionActuation` allow and more: a session may be ready or failed after any drive, a transition may
settle, be refused or run out of time at any moment.  Some simplifications are worth knowing:

* The clock stands still within a handler, so one set of troubles holds for all it does.
* A revision is only compared with the current one, so each handler starts from revision 0.
* A deadline is a flag that `DeadlinePasses` raises at any time after the request.
* Requests with invalid fields are refused at once by the code and not modelled.  `mowing_enabled_` and a
  blade ESC slot are configured.
* A second drive of the session in one handler finds what the first left, unless its demand is new
  (`SecondDrive`); a fresh demand clears the failures, and the first command is only sent after
  `session_control_.tick`.
* `replies` keeps a set; which of several equal callers gets the last place is left open, and none of
  the properties depends on it.

### Traction gate

`TractionGate` is the bridge node again, this time with the real session record (`FcuSession`) and the real
safety record (`SafetyState`), and with the outputs: `output` says for each transport (MANUAL_CONTROL, GUIDED
setpoint) whether what was published last is a velocity.  `DriveSession` is `drive_session_locked` in the order of
the code: demand, tick, neutral at the falling edge of readiness, end of a failed blade test, one command.
`drove`, `asked` and `sent` record what the last handler did; the properties read them.

The FCU, MAVROS and MowgliNext are an environment without memory: any state may be reported, any velocity or
movement may come, the pending command may be answered either way.  This includes everything
`FcuSessionActuation` allows and more, so what holds here does not rest on how well the FCU behaves.  Only the
answer to the pending command matters (`FcuSession` ignores others, and their handler is then the timer's), so one serial is enough.  Of the blade only the isolated test is kept: a drive of the blade
may end it at any time (`ends`), and does when the session failed, the link is down or an emergency holds.  The
inclination itself is an input; how long it lasted is counted up to `TiltTicks`.  RECORDING and MANUAL_MOWING are
one movement, which the code treats alike here.  A provider without GUIDED is `GuidedVelocity = FALSE`.

The causes of an emergency are a constant (`Causes`), and so is what MAVROS may report of the FCU (`Reports`).

### NTRIP connection

`NtripConnection` is a queue of completions (`ready`) that one thread runs in order, and what waits outside
it: the operation on the socket (`pending`), `getaddrinfo` (`resolving`), and the three timers (`armed`).  Closing the
socket sends the pending operation into the queue with an error; a completion that is already queued
cannot be recalled, neither by closing nor by `cancel()`.  So every handler may find that another overtook
it, which is what the handlers of the code test for.  The watchdog's deadline moves with each read; `beat`
tells two periods apart.  The bytes of the handshake are a classification (`Responses`).

One assumption is made of the machine: the thread is not stalled for a whole reconnect delay, so that what
the failure of an attempt left in the queue runs before the next attempt begins.  Three things the code does are
in the model and constrain no property: completions that are queued behind the handler of `stop()` may still post
"streaming" and arm the watchdog, so that `stop()` can take `read_timeout` to return; a connect deadline that
aborts an operation counts as two reconnects; a resolve cannot be cancelled, so `stop()` waits for it.

### Sensor chain

`SensorChain` composes the adapter of the GNSS position, the battery observer and the bridge's readiness, which
share nothing but messages.  Times of receipt are ages, and the three clocks advance together; a clock of ROS that
goes back is not modelled.  `position_age` and `traction_age` are histories: how long ago the adapter accepted a new
position, and the observer a sample of the traction battery.  The source of positions may say any sequence of any
incarnation in any order.

Reading the code for it showed four things no property states.  `charger_present_` is only cleared when
`project()` happens to run while the dock sample is too old: after a silence of both batteries, a dock
voltage inside the hysteresis finds the charger of before, against the comment in `power_state.hpp:64-65`.  `reset()`
of that class is called from nowhere, so a traction voltage of before a reconnection counts until it is
too old.  `readiness_state.cpp:55` says that the message has no field for the incarnation; it has one now, and the
bridge still tells a restart by the timeout alone.  An
adapter that says "invalid" with the sequence the bridge already has is ignored by the bridge, which finds out by its own
timeout.

### Wheel odometry

`WheelOdometry` has the engine of the plugin: who owns the measurements of the ESCs (`owner`, with a lease
that only a new measurement renews), what they are, and which source `/wheel_odom` follows.  The slots of ESC_STATUS
are those of the two wheels and `OtherSlots`, the blade's for instance: a group of four may hold none of a wheel, and still
is accepted, takes over, finds the clock restarted, and renews the lease.  `vehicle.slots` says which of them are
measured; the two wheels alone choose the source and make odometry.  Reception times
are ages; measurement times are small numbers that may go on, repeat or begin again.  Speeds and currents
are left out: of a message matters whether it contradicts what it repeats, whether a distance is usable and a
speed plausible.  `news` and `measured` are histories: which wheels were measured since the last odometry, and by
whom; `unfenced` is one too: a reading of another encoder just took the distance over without a selection, see 6.  After a takeover, two components whose clocks both stand still are new to each other; if they alternate
exactly at the expiry of the lease, their old measurements are taken as new, which the properties leave open.

`WheelTicks` has the other output, the counts of `/wheel_ticks`: one integrator per series, whose `epoch` and
`segment` say what may be subtracted from what, and the projector, which the plugin keeps while it replaces the engine.
The clock of a new producer may be behind what the projector last used (`Unread`).

## 3. Runs

| Run | Question | Bounds |
|---|---|---|
| `BladeActuation` | Is a rotation ever started on a turning blade?  Is success ever reported of a servo that is elsewhere?  Does a withdrawn ON stay behind?  Does an owed neutral get out, does every transition end? | 2 tokens, 2 commands or answers outstanding, limits of 1 and 2 ticks, 2 stop samples |
| `FcuSession` | Are commands called for, unrepeated, and failures the current target's? | modes HOLD, MANUAL and "nothing seen"; 2 serials, 1 command on the wire |
| `FcuSessionRecovery` | With a retired command that may land after its successor: is a vehicle armed in an emergency disarmed, or the refusal shown; does the session settle? | 1 mode (so no MODE command), 2 on the wire, all eight combinations of services and switch, pilot |
| `FcuSessionLateArm` | The documented corrective DISARM (violated, see 6) | 1 mode, 2 on the wire, services up, no pilot |
| `MowerControl` | Does each caller get one answer, and a true one?  Do callers who join, supersede and crowd out one another agree with the blade?  Is every caller answered? | 3 callers, lists of 2, ESC silent or not |
| `MowerControlFull` | Does a refused ON leave no demand behind (violated, see 6)? | 2 callers, lists of 1 |
| `TractionGate` | Does a velocity stand only under a confirmed session of the current movement, and get its neutral?  Is every onset of an emergency announced?  Does a tilt leave the mode alone, a persistent cause its latch? | GUIDED and MANUAL, all four causes, services up, a tilt counts at once |
| `TractionGateLift` | Does a double lift leave the mode alone (violated, see 6)? | no GUIDED; switch, lift |
| `NtripConnection` | Do attempts overlap; is what is announced as a stream read and timed; does the client go on trying, and does `stop()` return? | none but the length of the queue, which is shown never to exceed 4 |
| `SensorChain` | Is what makes the bridge ready recent; is a restarted source accepted again? | timeouts of 1 tick, 2 incarnations, sequences up to 2, GNSS required, dock samples without a voltage |
| `WheelOdometry` | Does odometry pair new with cached wheels, or wheels of two owners?  Is a distance divided by an interval of its own?  Does a frozen owner lose its lease? | seven vehicles with up to two producers each, two of which measure the ESC of a blade too, measurement times up to 2 or 3, 2 configurations and the exchange of the wheels |
| `WheelTicks` | Do the counts stay within what was turned (violated, see 6)? | a step of 0 or 1, one step in all |

Why the bounds suffice: two outstanding commands are what a race between a retired command and its
successor needs (a third would have to be emitted while both are on the wire, and neither
controller distinguishes which retired command an answer belongs to); two modes make a mode that is
wanted, one that is observed, and one that was wanted before; limits of one and two ticks let each
timeout expire before, with or after the others.  Every safety property of the blade and session
runs is also proved without the bounds.

Three callers with lists of two give callers who share a list while a third changes its mind or finds no
room.  Every session outcome is possible in every drive.  Of what may go wrong in one handler only the silent ESC is
in the instance; `MowerControlProofs` covers any number of callers, any limit and any combination of troubles for
every safety property of that run.

For the gate, each pair of modes the code tells apart occurs (wanted, observed, HOLD, not yet seen), every
safety input occurs with every other, and one tick lets a timeout expire before or after each handler.  The run
does not exercise the delay before a tilt counts, a missing GUIDED, or services that are down;
`TractionGateProofs` covers any delay, modes and services for every safety property of that run.

The NTRIP connection is finite as it is.  The system stops once the client is destroyed, hence
`CHECK_DEADLOCK FALSE`.  In the sensor chain a timeout of one tick distinguishes fresh, just fresh and too old, two
incarnations make a restart and its return, and sequences up to 2 a repetition, an advance and a
regression; the two safety properties are proved for all of them.  For the odometry, two producers at a time
are what a takeover, a change of source or a conflict of owners needs; a clock with two values repeats, advances and
goes back, a third value is needed only where the interval itself matters.  The third vehicle has one ESC producer and two
encoders, which is what a takeover of the distance without a selection needs.  The last two measure the ESC of a blade beside
one wheel or both, so that groups without a wheel keep, lose and take over the lease.

**Fairness.**  The 50 ms wall timer drives both controllers for ever: `Dispatch` and `Timer` are weakly
fair (`Timer(Everything)`: the drive that finds both services and the switch released; with a service
gone for good nothing can be promised).  Time passes (`ClockTick`, `Tick`).  MAVROS disposes of every command by
delivering or losing it.  An answer that exists is delivered by rclcpp; that one exists is not assumed.
FCU reports keep coming and are heard.  Nothing is assumed of callers, MowgliNext or the pilot.  For `MowerControl` the
timer and the clock suffice: `Timer` is fair whatever it finds, and each caller's deadline passes.  For `TractionGate`
only `Timer` is fair.  For `NtripConnection` the thread runs what is queued, timers expire (the watchdog once per
period, since a read begins a new one), `getaddrinfo` and `join` return; nothing is assumed of the network.  In
`SensorChain` the 20 ms timer of the adapter is fair, messages are not: `GnssRecovers` names the arrivals it needs.

## 4. Properties

*Blade.*  `IssuedWanted`: an ON handed out is still the demand, or a neutral is queued behind it.
`SatisfiedIsTrue`: when `satisfied()` lets the bridge report success, the wire is empty and the servo is
where `confirmed_` says.  `KeepsInterlock`: the machine with the software refines `BladeInterlock`.
`NeutralGetsOut`, `TransitionEnds`: liveness as in the table.

*Session.*  `KeepsContract`: the command stream refines `FcuSessionContract`: each command is called for by
the current target, ARM only in a confirmed mode and never in an emergency, and no command is
repeated unless the target or the observed state changed or an emergency was declared again.
`FailureIsOwn`: a latched failure is that of a command the current target calls for.
`EmergencyRetiresArm`: during an emergency no ARM is pending.  `EmergencyDisarms`, `SessionSettles`: liveness.

*Callers.*  `OneAnswerEach`: a caller is in exactly one list or was just answered, never both and never
neither.  `SuccessIsTrue`: when a success is told, the blade is demanded
and confirmed as its caller asked, an OFF by its neutral too (the history field `achieved` of the answer), and the demand
stands at the end of the handler; after an ON also the confirmation, the permission, link, switch and session.
`CalledOffFails`: an ON called off by an OFF, an announced emergency, the end of movement or a change of the
link never succeeds, not even when a later ON in the same direction does.  `LateFails`: no success after the
20 s.  `CallersAgree`: callers waiting for the session ask for one direction, and a current reply waits for
what is demanded.  `TestHasReason`: the temporary arming has an owner.  `CallersAnswered`: liveness.

*Traction.*  `GateHolds`: after any drive of the session a velocity stands on the outputs only while the FCU is seen
connected, armed and in the mode of the movement, with no command pending and no emergency.  `OneTransport`: a
change of movement leaves no velocity on the transport it leaves.  `RetainsMode`: a row of the input table in
`docs/architecture/fcu-session-controller.md`, which does not hold of the wheels (see 6); `TiltRetainsMode` is what does.
`LatchCovers`: a cause that is active is also latched,
whatever the operator released (wheels excepted, which are not latched).  `OnsetAnnounced`: the flags that avoid
repeated announcements never swallow the first one (for the wheels they do, see 6).  `TractionStops`: liveness; a lift of both wheels that was not announced is left out
of it, because it may end between two steps of the timer.

*NTRIP.*  `OneAttempt`: of the delay before an attempt, its resolve and its operation on the socket at most one is
under way.  `ConnectedIsLive`: a stream that is announced is being read and timed.  `StoppedStaysDown`: nothing queued
behind `stop()` brings the connection up again.  `KeepsTrying`, `SilenceNoticed`, `StopEnds`: liveness.

*Sensors.*  `ReadyPositionRecent`, `ReadyTractionRecent`: the bridge is ready only with a position and a traction
sample that are no older than the timeouts of plugin and bridge together, whatever was repeated or lost on the
way.  `GnssRecovers`: a source that begins its sequence again is accepted again.

*Wheels.*  `FreshPair`: odometry from ESC_STATUS uses a measurement of each wheel that is newer than the last
odometry, the last configuration, the last restart of the clock and the last time another source was active, except
after a takeover of the distance by a reading that is then refused (`unfenced`, see 6).
`OneOwner`: all slots are measurements of the owner.  `SoundInterval`: a distance is divided by the time since the
previous reading of the same encoder.  `LeaseExpires`: an owner that measures no slot anew, of a
wheel or another, loses its lease, whatever it repeats.  `CountsAreTravel`: no count exceeds the travel (violated).

## 5. Proofs

All theorems hold for any timeouts, modes, identifiers and bounds within the named assumptions
(`BladeTimingAssumption`, `BladeIdAssumption`, `MaxOutstandingAssumption`, `SessionAssumption`,
`SessionPlantAssumption`, `MowerControlAssumption`, `TractionGateAssumption`, `NtripAssumption`, `WheelAssumption` and those
of the sensor chain).  `NtripAssumption` says that `MaxReady` is at least four: the type invariant promises that the queue stays
within it, and four is what the code can have queued at once.

* `TypeCorrect`, `SessionTypeCorrect`: typing, method by method.
* `IssuedStaysWanted`.  `IssuedWanted` alone is not inductive: a late answer could confirm an ON that is no
  longer wanted.  `DemandInv` adds that what is in flight is what was issued last, that an ON in flight
  left a settled neutral and has no neutral queued, and that an answered ON is not waiting for a stop.
* `SatisfiedTellsTruth`, `ImplementsInterlock`.  `PlantInv` ties the controller to the machine: the command in
  flight is the last on the wire and its answer comes after it was processed; a settled controller
  knows the servo; zero samples of a settled neutral are of a blade at rest; an ON travels alone, with
  servo and blade at rest ahead of it.  The lemmas `...Quiet` say that a method which emits nothing cannot
  make a controller settled; the rest is case analysis on the transport.
* `SessionInvariance` proves `SessionInv`, which explains every spent command: it is pending, or it failed and
  is latched, or the FCU was seen to obey it and no DISARM is owed.  `FailureStaysOwn` and
  `EmergencyLeavesNoArm` follow, and `ImplementsContract` uses it to show that a command that may be chosen has
  not been emitted since the last change.

* `MowerTypeCorrect`, `EveryCallerOnce`.  The invariant is `Sound`: a bridge record is typed, no caller has two
  entries, both lists are within `Capacity`, and the callers it holds or has told are exactly a given set.
  Every operator of `MowerControl` keeps `Sound` for the same set (with the caller added where one
  comes in), which gives a lemma per operator and composes along each handler.  The assumptions are
  `MowerControlAssumption`; the choice of who gets the last places rests on `SubsetOfSize`.
  The same composition carries three more predicates.  A lemma `...Fields` says what each method does to the fields of the
  record, one `...Start` per handler what the record is when the bridge's methods begin, and the rest is
  `...Reasoned`, `...Leads`, `...Orderly`, `...Within` or `...Tidy`.

* `ReasonInvariance`, `TestsHaveReasons`.  `TestHasReason` speaks of an armed session; between the drive that arms it and
  the handler that opened the test the flag and its reason come and go separately.  `Reasoned` keeps them
  apart: a session armed without a motion demand has the test flag (`Armed`), and a test without a motion demand has a reason
  (`Reason`), whether the session is armed already or not.  `end_failed_blade_test_locked` is why it is kept: each
  way to take the last reason away ends in a stage that clears the flag or forces the session idle.

* `OrderInvariance`, `WaitingCallersAgree`, `CalledOffNeverSucceeds`, `LateNeverSucceeds`.  `Orderly(n, ask, X)` says of the lists,
  for the directions `ask` the callers wanted and the set `X` of those who must not succeed any more: all starts have
  one direction; each entry has the direction its caller asked for; a reply of the current revision has what is demanded
  of the blade; the start of a caller in `X` is late, and the reply of one is late or of a revision that has passed.
  Two facts make it inductive: revisions only grow within a handler (`Newer`), so that what is superseded stays
  superseded; and the blade demands nothing while it is failed or the link is down (`SafeBlade`), so that what calls the
  callers off also takes their demand away.  `CalledOffFails` takes for `X` the callers called off, `LateFails` those whose
  deadline has passed: the same lemmas serve both.

* `SuccessInvariance`, `SuccessesAreTrue`.  That a success is `achieved` when it is told follows where it is told
  (`ConfirmedAchieved`).  The rest of `SuccessIsTrue` is about the end of a handler, a success is told in its middle:
  each stage after `ServeReplies` could make it false, and a handler may drive session and blade twice.  Between handlers
  `Tidy` suffices: the blade is demanded ON only while it is permitted, and nobody waits for a settled blade.  Within
  one, what was told is what is demanded and confirmed (`Told`), and it survives the rest: a permission
  just brought up to date stays as it is (`Clear`, `Holds`), the callers left in the first list have the same direction
  and their deadline before them (`Agreeing`), so neither ageing nor expiry takes the demand back (`Backed`).  A request for ON
  tells its answers in the first drive already; `Promised` carries them over the second, which finds what the first left
  (`SecondDrive`).  Where the demand has just been forced OFF, `Orderly` shows that nobody was told a success
  (`QuietByOrder`).

* `GateTypeCorrect`, `GateAlwaysHolds`, `GateOneTransport`.  `GateHolds` is not inductive: a handler that does not drive
  the session may leave a velocity standing in an emergency, until the next drive.  `Stands` says what holds in between:
  a velocity stands only with `was_ready` set, in the mode of the movement and on its transport, so the next
  drive either finds the gate open or neutralises.  `Before` is what any input may leave, `Strong` what each stage
  of the drive keeps; with the gate open `next()` asks for nothing (`OpenAsksNothing`), and a drive of the blade
  changes the outputs only to neutral.  Assumptions: `SessionAssumption`, `TractionGateAssumption`; any services
  (also sends that throw) and all causes together.

* `CauseInvariance`, `CausesAreLatched`, `TiltKeepsMode`, `OnsetsAreAnnounced`.  `CauseInv` says what an emergency is made of: an active
  cause other than the wheels is latched, `tilt_sent_` is the tilt of the cache, a latched node tests no blade, and
  where the mode is to be retained nothing but DISARM is sent.  The tilt flag is needed for the onset: a flag that stayed set
  after the tilt ended would swallow the next announcement.  That no test is open is needed for the mode: the end of a test
  demands HOLD, and a test open under a tilt would let it out.  The wheels have neither: `double_lift_disarm_sent_`
  outlives what it stands for (see 6), which is why the three properties leave them out.

* `NtripInvariance`, `NtripTypeCorrect`, `NtripOneAttempt`, `NtripConnectedLives`, `NtripStoppedStaysDown`.  `OneAttempt` and
  `ConnectedIsLive` say nothing of the queue, where a stale completion may wait.  `Sound` adds it: resolve, operation and what
  they left in the queue are one token together (`OneToken`); during the delay what is left of the last attempt can only
  fail, and an attempt starts without a timeout armed or queued (`CleanStart`, with the assumption on stalls made
  above); at most two timeouts are ever queued, counting what may still expire (`FewTimeouts`, which gives the bound of
  the queue); a stream has a read and a watchdog under way or queued (`Live`); after `stop()` nothing is open or
  pending, and after the join nothing is left (`Down`).

* `NtripNeverHangs`.  What the liveness properties of the client need of every state: until the stop is handled an attempt is under
  way, queued or scheduled; an operation of the handshake is under the deadline and a read of the stream under the watchdog, armed or
  queued, with `handshake_complete` as the handler of that timeout wants it; a requested stop is queued.  `Watched` is carried beside
  `Sound`; it adds that what begins or resolves an attempt finds `handshake_complete` taken back (`Afresh`), without
  which the deadline of that attempt would expire unheeded.  That the timers expire and the queue is served is fairness and stays with TLC.

* `ChainInvariance`, `ReadyHasPosition`, `ReadyHasTraction`.  The two properties of readiness are not inductive: they
  speak of the bridge alone.  `PluginsKnowAge` says that what a plugin holds as fresh is as old as it takes it
  for (only a new sequence makes a position young, `ObserveKeepsAge`), `BridgeKnowsAge` that what the bridge holds as valid was
  fresh when it was sent, so that its age is the plugin's timeout and the age of the message at most.  Assumptions:
  those on the timeouts and sets of the four modules.

* `WheelInvariance`, `WheelsHaveOneOwner`.  `OneOwner` compares the slots with each other; that it holds after a takeover
  needs to know whose they are: every measurement is of the owner, and there is one (`Owns`).  Only `Measure` adds a
  measurement, for the sender `StatusOwner` has just made the owner; each other method keeps the slots and their owner or
  drops them.  Assumption: `WheelAssumption`; any producers, limits and parameters.

* `PairInvariance`, `PairsAreFresh`, `IntervalsAreSound`.  `FreshPair` is about one output, what makes it true about two floors
  in the engine.  `PairInvariant` relates them to the history: a wheel without news is at or below the floor that the next
  odometry must exceed, or in the fence of a new owner (`Fenced`), unless another source is active or a new epoch waits
  for its baseline, which set the floors when they end (`Covered`).  The one exemption, `unfenced`, is a step of the code
  that sets no floor (see 6).  `SoundInterval` rests on `Based`: a baseline exists only while the distance is the source, and
  is the last reading of the encoder that owns it.

* `LeasesAreHeld`.  The step half of `LeaseExpires`, an action property of every step: while a lease is fresh, only the connection, the
  clock or parameters that ask for another component replace the owner, and the age of a lease falls only with a measurement
  of the owner, of a wheel or another slot, that the slot did not have before.  `LeaseInvariant` (a lease has an owner, whom the parameters admit) is enough; the
  case that needs an argument is a clock that goes back: `NewEpoch` makes the lease stale and forgets all slots, and the
  slot that went back is measured anew in the same step (`StatusRenews`).

Only model-checked: the liveness properties (`NeutralGetsOut`, `TransitionEnds`, `EmergencyDisarms`, `SessionSettles`,
`CallersAnswered`, `TractionStops`, `KeepsTrying`, `SilenceNoticed`, `StopEnds`, `GnssRecovers`, `LeaseExpires`), because fairness and ENABLED
are outside the proof system's reach.  The properties of the runs that find a violation are not theorems.

## 6. Findings

`docs/architecture/fcu-session-controller.md` lines 72-73 (and the comment in
`fcu_session_controller.hpp` 82-84) promise one corrective DISARM for an ARM observed late during an
emergency.  The run `FcuSessionLateArm` shows a case without one: an ARM retired by the emergency
lands after the safety DISARM was emitted and accepted but before its confirmation was observed.
`observe()` sets `force_disarm_`, but the pending DISARM can no longer be confirmed, times out after 3 s, and
latches `arm_failed_`, which `next()` checks before it looks at `force_disarm_`.  The vehicle stays armed with
the failure reported until a new observation or demand clears the latch.

The same document says in lines 91-92 that a "Refused/expired isolated ON releases its temporary ARM and
cancels the cutting intent".  The run `MowerControlFull` shows a refused ON that does neither: when
`blade_replies_` already holds 32 callers, the bridge answers the new one with false after
`BladeControl::request` has taken its demand (671-675 and 761-765 of the node).  If the others were waiting for
OFF, the new revision supersedes them in the same drive; nobody waits for the ON, and the blade starts.

Line 35 of that document has tilt and double lift "retain observed FCU mode", and `test_bridge_regressions.cpp:194`
expects no MODE request.  The run `TractionGateLift` shows one.  When the link drops while both wheels are lifted,
`disconnect()` forgets the wheels but `double_lift_disarm_sent_` (487-488 of the node) stays set.  After the
reconnection a blade test may start; the double lift reported next is an emergency but makes no
`request_blade_disarm`, so `blade_test_active_` survives it.  If the next drive comes from `on_cmd_vel` and its DISARM is
refused before the blade is driven, `end_failed_blade_test_locked` demands HOLD and the same drive sends it.

`mavros_esc_wheel_odometry/README.md` says in lines 54-56 of the tick counts that a "source, epoch or segment change
establishes a new reference [...] rather than inventing a delta".  The run `WheelTicks` shows a delta that is invented.  A
change of the wheel mapping makes a new engine, whose integrators begin at epoch 0 and, with the first
measurement, at segment 1.  The projector outlives the engines; after two such changes in a row, each followed by a
measurement, it finds the source, epoch and segment it knows and counts the difference between the ticks of two
engines as travel.

The same README says in lines 105-108 that "Both wheel measurements must advance, including after a source transition;
cached wheels cannot be paired with a newly arrived wheel across that transition".  There is one transition after which they
can.  While the encoder reading is the source, a reading of another encoder that takes the distance over calls
`reset_distance()` (`observation_engine.cpp:408`), which leaves the engine without an active source (95-98).  If that reading is
refused (415) and ESC_STATUS is not available at that moment, `select()` finds "none" where it looks for "none" and sets no
floors, neither then nor when the next measurement of a wheel makes ESC_STATUS available (196-214).  That wheel is
paired with one cached while the distance was the source.  The history `unfenced` marks these states, and `FreshPair` excepts them; checking `FreshPair` without
the disjunct `unfenced` in `MCWheelOdometry` shows the pair, which needs the third vehicle.  The proof shows
that it is the only such transition in the model.

## 7. Not modelled

* Bridge node: publication of the status, emergency and high-level messages, and the diagnostics: they read the state and
  change none.
* ESC telemetry tracker: of its projection only the age and the identity of a sample reach a decision, and
  `BladeActuation` lets an observation be any usable or unusable sample.
* GNSS adapter: the correlation of fixes with ellipsoidal altitudes (`observe_altitude`, `observe_fix`, `take_fixes`).  It ends in
  what `/gps` publishes and has no influence on the status path.
* NTRIP client: the split of the stream into RTCM messages, the statistics, the request's text.
* ESC wheel odometry: the ESC reports with their metadata (`esc()`), equal stamps of the
  legacy protocol, frames, covariances and diagnostics, and the arithmetic of speeds and distances.
* Firmware detection: one bounded probe in a process of its own that prints a family; the launch file is declarative.
* Firmware providers (real arithmetic on velocities), message definitions, images, tools, and the wording of logs.

What would be worth doing next: the fix path of the GNSS adapter; an integrator that
continues over a change of mapping, once the code decides what its counts should then say.
