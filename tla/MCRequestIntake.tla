-------------------------- MODULE MCRequestIntake --------------------------
(* Two messages say the same, the first of them forwarded and the second,  *)
(* perhaps, with an attachment; a third says something else, and a request *)
(* from before waits for a document.                                       *)
EXTENDS RequestIntake

MCTextOf == <<"login", "login", "report", "budget">>
=============================================================================
