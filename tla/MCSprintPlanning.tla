-------------------------- MODULE MCSprintPlanning --------------------------
(* The initial phase on small instances. *)
EXTENDS SprintPlanning
=============================================================================
