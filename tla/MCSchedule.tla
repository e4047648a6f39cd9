------------------------------ MODULE MCSchedule ------------------------------
(* Schedule on small instances; liveness is checked, so nothing is symmetric. *)
EXTENDS Schedule
==============================================================================
