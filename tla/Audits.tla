-------------------------------- MODULE Audits --------------------------------
(***************************************************************************)
(* From the end of a run to the end of its incident.  StoreRunResult of    *)
(* AuditPipeline is where the two meet: the incident that it opens is      *)
(* OpenForFlag of Incident.  Nothing of the incident is read by a later    *)
(* audit, so a behaviour is one of either part.                            *)
(***************************************************************************)
EXTENDS AuditPipeline, Incident

VARIABLE part
vars == <<part, pipelineVars, incidentVars>>

Init == /\ PipelineInit /\ IncidentInit
        /\ part \in {"pipeline", "incidents"}
        /\ part = "incidents" => settings.mode = "never"

Next == /\ \/ part = "pipeline" /\ PipelineNext /\ UNCHANGED incidentVars
           \/ part = "incidents" /\ IncidentNext /\ UNCHANGED pipelineVars
        /\ UNCHANGED part

Spec == Init /\ [][Next]_vars
==============================================================================
