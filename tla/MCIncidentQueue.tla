--------------------------- MODULE MCIncidentQueue ---------------------------
(* One or two incidents, two or three requests in flight.                  *)
EXTENDS IncidentQueue

CONSTANTS i1, i2, r1, r2, r3
=============================================================================
