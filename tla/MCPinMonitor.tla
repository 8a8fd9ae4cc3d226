---------------------------- MODULE MCPinMonitor ----------------------------
(* Instances of PinMonitor for TLC. *)
EXTENDS PinMonitor, TLC

\* The pins are interchangeable.
Symmetry == Permutations(Pins)
=============================================================================
