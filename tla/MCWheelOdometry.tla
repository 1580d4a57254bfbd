--------------------------- MODULE MCWheelOdometry --------------------------
(***************************************************************************)
(* The instances of WheelOdometry.                                         *)
(***************************************************************************)
EXTENDS WheelOdometry

Producers(status, encoders, legacy, times) ==
  [status |-> status, encoders |-> encoders, legacy |-> legacy, times |-> times,
   slots |-> Wheels]

Measuring(slots, v) == [v EXCEPT !.slots = slots]

\* The producers of a vehicle, two kinds at a time or two components of a kind; and with the
\* ESC of a blade, besides both wheels or one.
MCVehicles ==
  {Producers({1, 2}, {}, FALSE, 2), Producers({1}, {5}, FALSE, 2),
   Producers({1}, {5, 6}, FALSE, 1),
   Producers({1}, {}, TRUE, 3), Producers({}, {5, 6}, TRUE, 3),
   Measuring({"left", "blade"}, Producers({1, 2}, {}, FALSE, 2)),
   Measuring(Slots, Producers({1, 2}, {}, FALSE, 1))}

MCConfigs ==
  {[source |-> "auto", component |-> 0, mapped |-> TRUE],
   [source |-> "esc_status", component |-> 1, mapped |-> TRUE]}
=============================================================================
