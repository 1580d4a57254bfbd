--------------------------- MODULE BladeInterlock ---------------------------
(***************************************************************************)
(* What the blade stack promises of the machine, with no software in it:   *)
(* the servo leaves neutral only while the blade is at rest, and one       *)
(* direction never follows the other without neutral in between.           *)
(***************************************************************************)
VARIABLES servo, rotation

Init ==
  /\ servo \in {"Off", "Forward", "Reverse"}
  /\ rotation = servo

Start ==
  /\ servo = "Off" /\ rotation = "Off"
  /\ servo' \in {"Forward", "Reverse"}
  /\ UNCHANGED rotation

Neutralise ==
  /\ servo' = "Off"
  /\ UNCHANGED rotation

Turn ==
  /\ rotation' = IF rotation = "Off" THEN servo ELSE "Off"
  /\ UNCHANGED servo

Next == Start \/ Neutralise \/ Turn

Spec == Init /\ [][Next]_<<servo, rotation>>
=============================================================================
