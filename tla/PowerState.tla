----------------------------- MODULE PowerState -----------------------------
(***************************************************************************)
(* The power projection of the battery observer (PowerState, and of its    *)
(* plugin the handler of BATTERY_STATUS): the last sample of the dock      *)
(* battery and of the traction battery, each valid for a while, and the    *)
(* charger seen on the dock voltage with a hysteresis.                     *)
(*                                                                         *)
(* A sample has the age of its receipt; one that is too old behaves like   *)
(* one that never came.  Of a voltage only its side of the two charger     *)
(* thresholds matters; the currents are left out.                          *)
(***************************************************************************)
EXTENDS Integers

CONSTANT ObserverTimeout    \* observation_timeout_s, in ticks

ASSUME PowerAssumption == ObserverTimeout \in Nat

Batteries == {"dock", "traction"}

\* "between" is from the OFF to the ON threshold; of "none" no cell was available.
Voltages == {"none", "low", "between", "high"}

SampleAges == 0..ObserverTimeout + 1    \* the last one: too old, or never

Powers ==
  [dock : [age : SampleAges, voltage : Voltages],
   traction : [age : SampleAges, voltage : Voltages],
   charger_present : BOOLEAN]

NoSample == [age |-> ObserverTimeout + 1, voltage |-> "none"]

PowerInitial == [dock |-> NoSample, traction |-> NoSample, charger_present |-> FALSE]

SampleFresh(sample) == sample.age <= ObserverTimeout

\* Inside the hysteresis the charger stays what it was.
ChargerHeld(p) ==
  CASE p.dock.voltage = "high" -> TRUE
    [] p.dock.voltage = "between" -> p.charger_present
    [] OTHER -> FALSE

\* project() is const, and yet decides here and only here whether the charger is present.
Projected(p) ==
  [p EXCEPT !.charger_present = SampleFresh(p.dock) /\ ChargerHeld(p)]

PowerMessageCached(p) ==
  [v_battery |-> p.traction.voltage # "none", charger_enabled |-> p.charger_present]

\* What is published of a projection.
PowerMessage(p) ==
  [v_battery |-> SampleFresh(p.traction) /\ p.traction.voltage # "none",
   charger_enabled |-> p.charger_present]

\* handle_battery_status: the sample of one battery makes a message about both.
Observed(p, battery, voltage) ==
  Projected([p EXCEPT ![battery] = [age |-> 0, voltage |-> voltage]])

PowerAged(p) ==
  [p EXCEPT !.dock.age = IF @ <= ObserverTimeout THEN @ + 1 ELSE @,
            !.traction.age = IF @ <= ObserverTimeout THEN @ + 1 ELSE @]
=============================================================================
