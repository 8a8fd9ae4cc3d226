--------------------------- MODULE MCProbeWorker ---------------------------
(* Instances of ProbeWorker, alone and under Observe, for TLC. *)
EXTENDS Observe
=============================================================================
