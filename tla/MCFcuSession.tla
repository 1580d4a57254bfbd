---------------------------- MODULE MCFcuSession ----------------------------
(***************************************************************************)
(* Instances of FcuSessionActuation.                                       *)
(***************************************************************************)
EXTENDS FcuSessionActuation

MCModes == {"", "HOLD", "MANUAL"}
MCOneMode == {"", "HOLD"}
MCSerials == 1..2
MCAllServices == [mode : BOOLEAN, arm : BOOLEAN, released : BOOLEAN]
MCModeMayBeDown == {e \in MCAllServices : e.arm /\ e.released}
MCAllUp == {Everything}
=============================================================================
