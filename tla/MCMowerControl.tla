--------------------------- MODULE MCMowerControl ---------------------------
(***************************************************************************)
(* Instances of MowerControl.                                              *)
(***************************************************************************)
EXTENDS MowerControl

MCNoTrouble == {{}}
\* A step of the environment refuses, settles or disturbs a transition as well.
MCTroubles == {{}, {"esc"}}

\* Failed now, failed when the command was sent, not there yet, and there.
MCOutcomes ==
  {[broken |-> TRUE, ready |-> FALSE, failed |-> TRUE],
   [broken |-> FALSE, ready |-> FALSE, failed |-> TRUE],
   [broken |-> FALSE, ready |-> FALSE, failed |-> FALSE],
   [broken |-> FALSE, ready |-> TRUE, failed |-> FALSE]}
=============================================================================
