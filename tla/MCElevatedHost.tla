--------------------------- MODULE MCElevatedHost ---------------------------
(***************************************************************************)
(* Small instances of ElevatedHost for TLC.                                *)
(***************************************************************************)
EXTENDS ElevatedHost
=============================================================================
