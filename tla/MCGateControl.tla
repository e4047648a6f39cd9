---------------------------- MODULE MCGateControl ----------------------------
(* GateControl on small instances; liveness is checked, so nothing is symmetric. *)
EXTENDS GateControl
==============================================================================
