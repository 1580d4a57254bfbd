-------------------------- MODULE MCBladeActuation --------------------------
(***************************************************************************)
(* Instances of BladeActuation.  One clock tick stands for a second or so; *)
(* what matters is the order of the limits, not their ratio.               *)
(***************************************************************************)
EXTENDS BladeActuation

MCFewTokens == 1..2
=============================================================================
