--------------------------- MODULE MCSprintClosing ---------------------------
\* A sprint that ends up to three times; two artifacts share a marker, and the
\* comments of the last end may not fit on a page.
EXTENDS SprintClosing

CONSTANTS spec, report, artifact, namesake

MCMarker == [s \in Sections |-> IF s = namesake THEN artifact ELSE s]
MCDocs == <<<<spec>>, <<report, spec>>, <<spec, artifact, namesake>>>>

=============================================================================
