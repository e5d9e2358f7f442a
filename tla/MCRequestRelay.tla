--------------------------- MODULE MCRequestRelay ---------------------------
(***************************************************************************)
(* Small instances of RequestRelay for TLC.                                *)
(***************************************************************************)
EXTENDS RequestRelay

TwoRoles == {"planner", "developer"}

\* What the properties that except crossed states say is settled once a state is
\* crossed: it is checked, and not explored further.
Uncrossed == ~crossed
=============================================================================
