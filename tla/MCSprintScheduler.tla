-------------------------- MODULE MCSprintScheduler --------------------------
(* The scheduler on small instances. *)
EXTENDS SprintScheduler

\* What the properties that except crossed states say is settled once a state is
\* crossed: it is checked, and not explored further.
Uncrossed == ~crossed
=============================================================================
