--------------------------- MODULE MCSensorChain ----------------------------
(***************************************************************************)
(* The instances of SensorChain.                                           *)
(***************************************************************************)
EXTENDS SensorChain
=============================================================================
