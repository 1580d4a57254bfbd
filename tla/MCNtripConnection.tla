------------------------- MODULE MCNtripConnection --------------------------
(***************************************************************************)
(* The instance of NtripConnection.                                        *)
(***************************************************************************)
EXTENDS NtripConnection
=============================================================================
