-------------------------------- MODULE Incident --------------------------------
(***************************************************************************)
(* The incident lifecycle: store_run_result opens an incident with a High  *)
(* or Critical flag, and reviewers and admins move it with concurrent      *)
(* POST /incidents/{id}/transition requests.                               *)
(*                                                                         *)
(* A request reads the row in a transaction of its own (no row lock, READ  *)
(* COMMITTED), checks the transition on what it read, and commits an       *)
(* UPDATE of the columns it changed.  Other requests may commit in         *)
(* between.  The audit-log entry is appended after the commit.             *)
(***************************************************************************)
EXTENDS Verdicts

CONSTANTS
    Incidents,       \* the incidents that may be opened
    Requests,        \* the requests that may be in progress at the same time
    MaxTransitions   \* bound: transitions committed per incident

ASSUME MaxTransitionsAssumption == MaxTransitions \in Nat

States == {"OPEN", "TRIAGING", "INVESTIGATING", "CONTAINED", "RESOLVED", "POST_MORTEM_COMPLETE", "DISMISSED"}
Roles == {"admin", "reviewer", "readonly"}

LEGAL_TRANSITIONS ==
    [s \in States |->
        CASE s = "OPEN" -> {"TRIAGING", "DISMISSED"}
          [] s = "TRIAGING" -> {"INVESTIGATING"}
          [] s = "INVESTIGATING" -> {"CONTAINED"}
          [] s = "CONTAINED" -> {"RESOLVED"}
          [] s = "RESOLVED" -> {"POST_MORTEM_COMPLETE"}
          [] OTHER -> {}]

REVIEWER_TARGETS == {"TRIAGING", "INVESTIGATING", "CONTAINED", "DISMISSED"}

\* The columns a transition sets besides the state.
Columns == {"triaged_at", "contained_at", "resolved_at", "dismissal_rationale", "post_mortem_uri"}

VARIABLES
    row,      \* incident -> its row
    request,  \* request -> what it is doing
    byAdmin,  \* incidents an admin has moved to RESOLVED
    applied,  \* incident -> transitions committed
    trail     \* incident -> target states the audit log has entries of

incidentVars == <<row, request, byAdmin, applied, trail>>

NoRow == [state |-> "none", severity |-> "low", set |-> {}]
NoRequest == [stage |-> "idle"]

IncidentInit ==
    /\ row = [i \in Incidents |-> NoRow]
    /\ request = [q \in Requests |-> NoRequest]
    /\ byAdmin = {}
    /\ applied = [i \in Incidents |-> 0]
    /\ trail = [i \in Incidents |-> {}]

\* open_incident_for_flag, in the transaction that stores the flag: only High and Critical.
OpenForFlag(i) ==
    /\ row[i] = NoRow
    /\ \E severity \in {"high", "critical"} :
         row' = [row EXCEPT ![i] = [state |-> "OPEN", severity |-> severity, set |-> {}]]
    /\ UNCHANGED <<request, byAdmin, applied, trail>>

\* require_role and _get_incident: the request goes on with a copy of the row.
ReadIncident(q, i, role) ==
    /\ request[q] = NoRequest
    /\ row[i].state \in States
    /\ role \in {"admin", "reviewer"}
    /\ request' = [request EXCEPT ![q] = [stage |-> "read", incident |-> i, role |-> role, seen |-> row[i]]]
    /\ UNCHANGED <<row, byAdmin, applied, trail>>

\* _validate_rbac
Authorised(target, role) == role = "admin" \/ (role = "reviewer" /\ target \in REVIEWER_TARGETS)

\* _require_rationale and _check_post_mortem_gate: what the request must come with.
Supplied(target, severity, rationale, uri) ==
    /\ target = "DISMISSED" => rationale
    /\ (target = "POST_MORTEM_COMPLETE" /\ severity = "critical") => uri

\* Mutated form: any later state may be entered.
LegalForward(seen, target) == target \notin {"OPEN", seen}

\* _validate_legal
Legal(seen, target) == target \in LEGAL_TRANSITIONS[seen]

\* _apply: the columns set on the way into target.
ColumnsFor(target, uri) ==
    CASE target = "TRIAGING" -> {"triaged_at"}
      [] target = "CONTAINED" -> {"contained_at"}
      [] target = "RESOLVED" -> {"resolved_at"}
      [] target = "DISMISSED" -> {"dismissal_rationale"}
      [] target = "POST_MORTEM_COMPLETE" /\ uri -> {"post_mortem_uri"}
      [] OTHER -> {}

\* The row after the UPDATE: what the request did not set keeps its value.
Updated(old, target, uri) ==
    [state |-> target, severity |-> old.severity, set |-> old.set \cup ColumnsFor(target, uri)]

\* Mutated form: the commit is inside the try of the audit entry, and may fail unnoticed.
TransitionLost(q, target, rationale, uri) ==
    LET r == request[q] IN
    /\ r.stage = "read"
    /\ Legal(r.seen.state, target)
    /\ Authorised(target, r.role)
    /\ applied[r.incident] < MaxTransitions
    /\ row' \in {row, [row EXCEPT ![r.incident] = Updated(row[r.incident], target, uri)]}
    /\ applied' = [applied EXCEPT ![r.incident] = @ + 1]
    /\ request' = [request EXCEPT ![q] = [stage |-> "log", incident |-> r.incident, target |-> target]]
    /\ UNCHANGED <<byAdmin, trail>>

\* IncidentStateMachine.transition on the copy, then commit: an UPDATE of state and of the columns set.
Transition(q, target, rationale, uri) ==
    LET r == request[q] IN
    /\ r.stage = "read"
    /\ Legal(r.seen.state, target)
    /\ Authorised(target, r.role)
    /\ Supplied(target, r.seen.severity, rationale, uri)
    /\ applied[r.incident] < MaxTransitions
    /\ row' = [row EXCEPT ![r.incident] = Updated(row[r.incident], target, uri)]
    /\ applied' = [applied EXCEPT ![r.incident] = @ + 1]
    /\ byAdmin' = IF target = "RESOLVED" /\ r.role = "admin" THEN byAdmin \cup {r.incident} ELSE byAdmin
    /\ request' = [request EXCEPT ![q] = [stage |-> "log", incident |-> r.incident, target |-> target]]
    /\ UNCHANGED trail

\* IncidentTransitionError, or a failing commit: nothing is written.
Reject(q) ==
    /\ request[q].stage = "read"
    /\ request' = [request EXCEPT ![q] = NoRequest]
    /\ UNCHANGED <<row, byAdmin, applied, trail>>

\* The audit-log entry, best effort.
AppendTrail(q) ==
    LET r == request[q] IN
    /\ r.stage = "log"
    /\ \/ trail' = [trail EXCEPT ![r.incident] = @ \cup {r.target}]
       \/ UNCHANGED trail
    /\ request' = [request EXCEPT ![q] = NoRequest]
    /\ UNCHANGED <<row, byAdmin, applied>>

RequestStep(q) ==
    \/ \E i \in Incidents, role \in Roles : ReadIncident(q, i, role)
    \/ \E target \in States, rationale, uri \in BOOLEAN : Transition(q, target, rationale, uri)
    \/ Reject(q)
    \/ AppendTrail(q)

IncidentNext ==
    \/ \E i \in Incidents : OpenForFlag(i)
    \/ \E q \in Requests : RequestStep(q)

------------------------------------------------------------------------------

Row == [state : States \cup {"none"}, severity : Severities, set : SUBSET Columns]

IncidentTypes ==
    /\ row \in [Incidents -> Row]
    /\ request \in [Requests ->
         {NoRequest} \cup [stage : {"read"}, incident : Incidents, role : Roles, seen : Row]
                \cup [stage : {"log"}, incident : Incidents, target : States]]
    /\ byAdmin \subseteq Incidents
    /\ applied \in [Incidents -> 0 .. MaxTransitions]
    /\ trail \in [Incidents -> SUBSET States]

\* The columns an incident in each state must have.
Required(s, severity) ==
    CASE s \in {"TRIAGING", "INVESTIGATING"} -> {"triaged_at"}
      [] s = "CONTAINED" -> {"triaged_at", "contained_at"}
      [] s = "RESOLVED" -> {"triaged_at", "contained_at", "resolved_at"}
      [] s = "POST_MORTEM_COMPLETE" ->
           {"triaged_at", "contained_at", "resolved_at"}
             \cup IF severity = "critical" THEN {"post_mortem_uri"} ELSE {}
      [] s = "DISMISSED" -> {"dismissal_rationale"}
      [] OTHER -> {}

\* However requests overwrite each other, an incident has every timestamp of the states on the way to
\* its own, a dismissed one has its rationale, and a critical one is only closed with a post-mortem.
MilestonesRecorded == \A i \in Incidents : Required(row[i].state, row[i].severity) \subseteq row[i].set

\* Only an admin resolves: a resolved_at means that an admin's request set it.
ResolvedByAdmin == \A i \in Incidents : "resolved_at" \in row[i].set => i \in byAdmin

\* The audit log speaks only of states whose transition was committed: where it says RESOLVED, or what
\* only comes after RESOLVED, the row has resolved_at.
TrailIsTrue ==
    \A i \in Incidents :
        trail[i] \cap {"RESOLVED", "POST_MORTEM_COMPLETE"} # {} => "resolved_at" \in row[i].set

\* A resolution is accounted for: an admin made it, and the audit log names none that was not committed.
ResolutionsAccounted == ResolvedByAdmin /\ TrailIsTrue
==============================================================================
