--------------------------- MODULE MCTractionGate ---------------------------
(***************************************************************************)
(* Instances of TractionGate.                                              *)
(***************************************************************************)
EXTENDS TractionGate

MCModes == {"", "HOLD", "MANUAL", "GUIDED"}
MCPlainModes == {"", "HOLD", "MANUAL"}
MCReports == BOOLEAN \X BOOLEAN \X Modes
\* Without a link nothing is known, and a connected FCU names its mode.
MCPlainReports == {<<FALSE, FALSE, "">>} \cup ({TRUE} \X BOOLEAN \X (Modes \ {""}))
MCUp == {[mode |-> TRUE, arm |-> TRUE, throw |-> FALSE]}
=============================================================================
