---------------------------- MODULE MCTelemetryGate ----------------------------
(* TelemetryGate on a small instance.                                         *)
EXTENDS TelemetryGate, TLC

Symmetry == Permutations(ToolCalls)
==============================================================================
