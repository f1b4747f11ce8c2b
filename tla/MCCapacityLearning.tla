------------------------- MODULE MCCapacityLearning -------------------------
(* CapacityLearning on a small instance.                                   *)
EXTENDS CapacityLearning

\* A quiet host, pressure on the CPU, a memory emergency.
MCReadings == {<<50, 50>>, <<99, 50>>, <<50, 92>>}
MCQuiet == {<<50, 50>>}
=============================================================================
