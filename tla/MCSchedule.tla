----------------------------- MODULE MCSchedule -----------------------------
\* The scheduler on small instances.
EXTENDS Schedule
=============================================================================
