------------------------- MODULE MCAttendeeRefresh -------------------------
\* Instances of AttendeeRefresh for TLC.  Liveness is checked: no symmetry.
EXTENDS AttendeeRefresh
=============================================================================
