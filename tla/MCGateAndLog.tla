----------------------------- MODULE MCGateAndLog -----------------------------
(* The connection of a run and the audit log, on a small instance each.  No   *)
(* row and no step of one is read by the other, so a behaviour is one of one  *)
(* of them, and the other waits in its initial state, where none of its fair  *)
(* actions is enabled.                                                        *)
EXTENDS AuditLog, TelemetryGate

VARIABLE part
allVars == <<part, vars, gateVars>>

PartsInit == part \in {"log", "gate"} /\ Init /\ GateInit

PartsNext == \/ part = "log" /\ Next /\ UNCHANGED <<part, gateVars>>
             \/ part = "gate" /\ GateNext /\ UNCHANGED <<part, vars>>

PartsSpec == PartsInit /\ [][PartsNext]_allVars /\ Fairness /\ SdkFairness
==============================================================================
