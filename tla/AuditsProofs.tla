----------------------------- MODULE AuditsProofs -----------------------------
(***************************************************************************)
(* For any number of detectors, traces, settings, incidents and requests:  *)
(* what compute_run_signals and the modes of the policy promise, that flag,*)
(* severity and incident agree with the verdicts, that an incident has the *)
(* milestones of its state, that only admins resolve, and that the audit   *)
(* log does not speak of a resolution that did not happen.                 *)
(*                                                                         *)
(* Incidents: columns are only ever added, and the severity never changes, *)
(* so the milestones a request saw when it read the row are still there    *)
(* when it commits, however stale the state it read is.  Verdicts: from the*)
(* end of analyze_trace on the task carries its result, and the rows are   *)
(* the task's exactly once they are stored.  Signals: an induction over the*)
(* trace, with a least counterexample.  Modes: the counter is the number of*)
(* decisions that were the mode's, and the last audit the latest of its own.*)
(***************************************************************************)
EXTENDS Audits, FiniteSetTheorems, WellFoundedInduction, TLAPS

\* A request that has read a row read one that exists, and what was required of it is still recorded.
ReadersRight ==
    \A q \in Requests : request[q].stage = "read" =>
        /\ request[q].seen.state \in States
        /\ row[request[q].incident].state \in States
        /\ request[q].seen.severity = row[request[q].incident].severity
        /\ Required(request[q].seen.state, request[q].seen.severity) \subseteq row[request[q].incident].set

\* A request about to log a resolution has committed it.
LoggersRight ==
    \A q \in Requests : request[q].stage = "log" =>
        (request[q].target \in {"RESOLVED", "POST_MORTEM_COMPLETE"} =>
            "resolved_at" \in row[request[q].incident].set)

IncidentInv == IncidentTypes /\ MilestonesRecorded /\ ResolvedByAdmin /\ TrailIsTrue /\ ReadersRight /\ LoggersRight

\* A legal transition finds the milestones of the target in what was required before and what it sets.
LEMMA TransitionMilestones ==
    ASSUME NEW s \in States, NEW target \in States, NEW severity \in Severities,
           NEW rationale \in BOOLEAN, NEW uri \in BOOLEAN,
           Legal(s, target), Supplied(target, severity, rationale, uri)
    PROVE  /\ Required(target, severity) \subseteq Required(s, severity) \cup ColumnsFor(target, uri)
           /\ ColumnsFor(target, uri) \subseteq Columns
           /\ "resolved_at" \in ColumnsFor(target, uri) => target = "RESOLVED"
           /\ target \in {"RESOLVED", "POST_MORTEM_COMPLETE"} =>
                "resolved_at" \in Required(target, severity)
<1>1. target \in LEGAL_TRANSITIONS[s]
  BY DEF Legal
<1>2. \/ s = "OPEN" /\ target \in {"TRIAGING", "DISMISSED"}
      \/ s = "TRIAGING" /\ target = "INVESTIGATING"
      \/ s = "INVESTIGATING" /\ target = "CONTAINED"
      \/ s = "CONTAINED" /\ target = "RESOLVED"
      \/ s = "RESOLVED" /\ target = "POST_MORTEM_COMPLETE"
  BY <1>1 DEF LEGAL_TRANSITIONS, States
<1> QED BY <1>2 DEF Required, ColumnsFor, Columns, Supplied

\* The initial state satisfies the inductive invariant.
LEMMA IncidentStart == IncidentInit => IncidentInv
<1> SUFFICES ASSUME IncidentInit PROVE IncidentInv
  OBVIOUS
<1> USE DEF IncidentInit
<1>1. IncidentTypes
  BY MaxTransitionsAssumption DEF IncidentTypes, NoRow, Row, NoRequest, States, Severities, Columns
<1>2. MilestonesRecorded
  BY DEF MilestonesRecorded, Required, NoRow
<1>3. ResolvedByAdmin /\ TrailIsTrue
  BY DEF ResolvedByAdmin, TrailIsTrue, NoRow
<1>4. ReadersRight /\ LoggersRight
  BY DEF ReadersRight, LoggersRight, NoRequest
<1> QED BY <1>1, <1>2, <1>3, <1>4 DEF IncidentInv

\* A committed transition preserves the inductive invariant.
LEMMA TransitionInv ==
    ASSUME IncidentInv, NEW q \in Requests, NEW target \in States, NEW rationale \in BOOLEAN, NEW uri \in BOOLEAN,
           Transition(q, target, rationale, uri)
    PROVE  IncidentInv'
<1> DEFINE r == request[q]
           inc == request[q].incident
           cols == ColumnsFor(target, uri)
<1> USE DEF IncidentInv
<1>1. /\ r \in [stage : {"read"}, incident : Incidents, role : Roles, seen : Row]
      /\ inc \in Incidents
      /\ r.stage = "read"
  BY DEF IncidentTypes, Transition, NoRequest
<1>2. /\ r.seen.state \in States
      /\ r.seen.severity = row[inc].severity
      /\ r.seen.severity \in Severities
      /\ Required(r.seen.state, r.seen.severity) \subseteq row[inc].set
  BY <1>1 DEF ReadersRight, Row
<1>3. /\ Required(target, r.seen.severity) \subseteq Required(r.seen.state, r.seen.severity) \cup cols
      /\ cols \subseteq Columns
      /\ "resolved_at" \in cols => target = "RESOLVED"
      /\ target \in {"RESOLVED", "POST_MORTEM_COMPLETE"} => "resolved_at" \in Required(target, r.seen.severity)
  BY <1>2, TransitionMilestones DEF Transition
<1>4. row[inc] \in Row /\ row' = [row EXCEPT ![inc] = Updated(row[inc], target, uri)]
  BY <1>1 DEF IncidentTypes, Transition
<1>5. /\ row'[inc] = [state |-> target, severity |-> row[inc].severity, set |-> row[inc].set \cup cols]
      /\ \A i \in Incidents \ {inc} : row'[i] = row[i]
  BY <1>1, <1>4 DEF IncidentTypes, Updated
<1>6. /\ request' = [request EXCEPT ![q] = [stage |-> "log", incident |-> inc, target |-> target]]
      /\ trail' = trail
      /\ applied' = [applied EXCEPT ![inc] = @ + 1]
      /\ applied[inc] < MaxTransitions
      /\ byAdmin' = IF target = "RESOLVED" /\ r.role = "admin" THEN byAdmin \cup {inc} ELSE byAdmin
      /\ Authorised(target, r.role)
  BY DEF Transition
<1>7. \A i \in Incidents : row[i].set \subseteq row'[i].set /\ row'[i].severity = row[i].severity
  BY <1>5
<1>8. Required(target, row[inc].severity) \subseteq row'[inc].set
  BY <1>2, <1>3, <1>5
<1>9. IncidentTypes'
  <2>1. row' \in [Incidents -> Row]
    <3>1. row'[inc] \in Row
      BY <1>3, <1>4, <1>5 DEF Row
    <3> QED BY <3>1, <1>1, <1>4, <1>5 DEF IncidentTypes
  <2>2. request' \in [Requests ->
         {NoRequest} \cup [stage : {"read"}, incident : Incidents, role : Roles, seen : Row]
                \cup [stage : {"log"}, incident : Incidents, target : States]]
    BY <1>1, <1>6 DEF IncidentTypes
  <2>3. applied' \in [Incidents -> 0 .. MaxTransitions]
    BY <1>1, <1>6, MaxTransitionsAssumption DEF IncidentTypes
  <2>4. byAdmin' \subseteq Incidents /\ trail' \in [Incidents -> SUBSET States]
    BY <1>1, <1>6 DEF IncidentTypes
  <2> QED BY <2>1, <2>2, <2>3, <2>4 DEF IncidentTypes
<1>10. MilestonesRecorded'
  <2> SUFFICES ASSUME NEW i \in Incidents
               PROVE  Required(row'[i].state, row'[i].severity) \subseteq row'[i].set
    BY DEF MilestonesRecorded
  <2>1. CASE i = inc
    BY <2>1, <1>5, <1>8
  <2>2. CASE i # inc
    BY <2>2, <1>5 DEF MilestonesRecorded
  <2> QED BY <2>1, <2>2
<1>11. ResolvedByAdmin'
  <2> SUFFICES ASSUME NEW i \in Incidents, "resolved_at" \in row'[i].set
               PROVE  i \in byAdmin'
    BY DEF ResolvedByAdmin
  <2>1. CASE "resolved_at" \in row[i].set
    BY <2>1, <1>6 DEF ResolvedByAdmin
  <2>2. CASE "resolved_at" \notin row[i].set
    <3>1. i = inc /\ "resolved_at" \in cols
      BY <2>2, <1>5
    <3>2. target = "RESOLVED" /\ r.role = "admin"
      BY <3>1, <1>3, <1>6 DEF Authorised, REVIEWER_TARGETS
    <3> QED BY <3>1, <3>2, <1>6
  <2> QED BY <2>1, <2>2
<1>12. TrailIsTrue'
  BY <1>6, <1>7 DEF TrailIsTrue
<1>13. ReadersRight'
  <2> SUFFICES ASSUME NEW p \in Requests, request'[p].stage = "read"
               PROVE  /\ request'[p].seen.state \in States
                      /\ row'[request'[p].incident].state \in States
                      /\ request'[p].seen.severity = row'[request'[p].incident].severity
                      /\ Required(request'[p].seen.state, request'[p].seen.severity)
                           \subseteq row'[request'[p].incident].set
    BY DEF ReadersRight
  <2>1. p # q /\ request'[p] = request[p]
    BY <1>6 DEF IncidentTypes
  <2>2. request[p].incident \in Incidents
    BY <2>1 DEF IncidentTypes, NoRequest
  <2>3. row'[request[p].incident].state \in States
    BY <2>1, <2>2, <1>5 DEF ReadersRight
  <2> QED BY <2>1, <2>2, <2>3, <1>7 DEF ReadersRight
<1>14. LoggersRight'
  <2> SUFFICES ASSUME NEW p \in Requests, request'[p].stage = "log",
                      request'[p].target \in {"RESOLVED", "POST_MORTEM_COMPLETE"}
               PROVE  "resolved_at" \in row'[request'[p].incident].set
    BY DEF LoggersRight
  <2>1. CASE p = q
    <3>1. request'[p].incident = inc /\ request'[p].target = target
      BY <2>1, <1>6 DEF IncidentTypes
    <3> QED BY <3>1, <1>2, <1>3, <1>8
  <2>2. CASE p # q
    <3>1. request'[p] = request[p]
      BY <2>2, <1>6 DEF IncidentTypes
    <3>2. request[p].incident \in Incidents
      BY <3>1 DEF IncidentTypes, NoRequest
    <3> QED BY <3>1, <3>2, <1>7 DEF LoggersRight
  <2> QED BY <2>1, <2>2
<1> QED BY <1>9, <1>10, <1>11, <1>12, <1>13, <1>14

\* Opening an incident preserves the inductive invariant: nobody has read its row.
LEMMA OpenInv == ASSUME IncidentInv, NEW i \in Incidents, OpenForFlag(i) PROVE IncidentInv'
<1> USE DEF IncidentInv
<1>1. PICK severity \in {"high", "critical"} :
        row' = [row EXCEPT ![i] = [state |-> "OPEN", severity |-> severity, set |-> {}]]
  BY DEF OpenForFlag
<1>2. /\ row[i] = NoRow
      /\ request' = request /\ byAdmin' = byAdmin /\ applied' = applied /\ trail' = trail
  BY DEF OpenForFlag
<1>3. /\ row'[i] = [state |-> "OPEN", severity |-> severity, set |-> {}]
      /\ \A k \in Incidents \ {i} : row'[k] = row[k]
  BY <1>1 DEF IncidentTypes
<1>4. IncidentTypes'
  BY <1>1, <1>2 DEF IncidentTypes, Row, States, Severities
<1>5. MilestonesRecorded'
  BY <1>3 DEF MilestonesRecorded, Required
<1>6. ResolvedByAdmin'
  BY <1>2, <1>3 DEF ResolvedByAdmin
<1>7. "resolved_at" \notin row[i].set
  BY <1>2 DEF NoRow
<1>8. TrailIsTrue'
  BY <1>2, <1>3, <1>7 DEF TrailIsTrue
<1>9. \A q \in Requests : request[q].stage = "log" => request[q].incident \in Incidents
  BY DEF IncidentTypes, NoRequest
<1>10. LoggersRight'
  BY <1>2, <1>3, <1>7, <1>9 DEF LoggersRight
<1>11. row[i].state \notin States
  BY <1>2 DEF NoRow, States
<1>12. \A q \in Requests : request[q].stage = "read" => request[q].incident \in Incidents \ {i}
  BY <1>11 DEF ReadersRight, IncidentTypes, NoRequest
<1>13. ReadersRight'
  BY <1>2, <1>3, <1>12 DEF ReadersRight
<1> QED BY <1>4, <1>5, <1>6, <1>8, <1>10, <1>13

\* Reading a row preserves the inductive invariant: what its state requires is recorded now.
LEMMA ReadInv ==
    ASSUME IncidentInv, NEW q \in Requests, NEW i \in Incidents, NEW role \in Roles, ReadIncident(q, i, role)
    PROVE  IncidentInv'
<1> USE DEF IncidentInv
<1>1. /\ request' = [request EXCEPT ![q] = [stage |-> "read", incident |-> i, role |-> role, seen |-> row[i]]]
      /\ row[i].state \in States
      /\ row' = row /\ byAdmin' = byAdmin /\ applied' = applied /\ trail' = trail
  BY DEF ReadIncident
<1>2. row[i] \in Row
  BY DEF IncidentTypes
<1>3. IncidentTypes'
  BY <1>1, <1>2 DEF IncidentTypes
<1>4. MilestonesRecorded' /\ ResolvedByAdmin' /\ TrailIsTrue'
  BY <1>1 DEF MilestonesRecorded, ResolvedByAdmin, TrailIsTrue
<1>6. ReadersRight'
  <2> SUFFICES ASSUME NEW p \in Requests, request'[p].stage = "read"
               PROVE  /\ request'[p].seen.state \in States
                      /\ row[request'[p].incident].state \in States
                      /\ request'[p].seen.severity = row[request'[p].incident].severity
                      /\ Required(request'[p].seen.state, request'[p].seen.severity)
                           \subseteq row[request'[p].incident].set
    BY <1>1 DEF ReadersRight
  <2>1. CASE p = q
    <3>1. request'[p].incident = i /\ request'[p].seen = row[i]
      BY <2>1, <1>1 DEF IncidentTypes
    <3> QED BY <3>1, <1>1 DEF MilestonesRecorded
  <2>2. CASE p # q
    <3>1. request'[p] = request[p]
      BY <2>2, <1>1 DEF IncidentTypes
    <3> QED BY <3>1 DEF ReadersRight
  <2> QED BY <2>1, <2>2
<1>7. LoggersRight'
  BY <1>1 DEF LoggersRight, IncidentTypes
<1> QED BY <1>3, <1>4, <1>6, <1>7

\* A request that ends, rejected or after its audit entry, preserves the inductive invariant.
LEMMA EndInv ==
    ASSUME IncidentInv, NEW q \in Requests, Reject(q) \/ AppendTrail(q)
    PROVE  IncidentInv'
<1> USE DEF IncidentInv
<1>1. /\ request' = [request EXCEPT ![q] = NoRequest]
      /\ row' = row /\ byAdmin' = byAdmin /\ applied' = applied
  BY DEF Reject, AppendTrail
<1>2. \/ trail' = trail
      \/ /\ request[q].stage = "log"
         /\ trail' = [trail EXCEPT ![request[q].incident] = @ \cup {request[q].target}]
  BY DEF Reject, AppendTrail
<1>3. request[q].stage = "log" => request[q].incident \in Incidents /\ request[q].target \in States
  BY DEF IncidentTypes, NoRequest
<1>4. IncidentTypes'
  <2>1. trail' \in [Incidents -> SUBSET States]
    BY <1>2, <1>3 DEF IncidentTypes
  <2> QED BY <2>1, <1>1 DEF IncidentTypes
<1>5. MilestonesRecorded' /\ ResolvedByAdmin'
  BY <1>1 DEF MilestonesRecorded, ResolvedByAdmin
<1>6. TrailIsTrue'
  <2>1. CASE trail' = trail
    BY <2>1, <1>1 DEF TrailIsTrue
  <2>2. CASE /\ request[q].stage = "log"
             /\ trail' = [trail EXCEPT ![request[q].incident] = @ \cup {request[q].target}]
    <3>1. /\ trail'[request[q].incident] = trail[request[q].incident] \cup {request[q].target}
          /\ \A i \in Incidents \ {request[q].incident} : trail'[i] = trail[i]
      BY <2>2, <1>3 DEF IncidentTypes
    <3>2. request[q].target \in {"RESOLVED", "POST_MORTEM_COMPLETE"} =>
            "resolved_at" \in row[request[q].incident].set
      BY <2>2 DEF LoggersRight
    <3> QED BY <3>1, <3>2, <1>1 DEF TrailIsTrue
  <2> QED BY <2>1, <2>2, <1>2
<1>7. \A p \in Requests : request'[p] = request[p] \/ request'[p].stage = "idle"
  BY <1>1 DEF IncidentTypes, NoRequest
<1>8. ReadersRight' /\ LoggersRight'
  BY <1>1, <1>7 DEF ReadersRight, LoggersRight
<1> QED BY <1>4, <1>5, <1>6, <1>8

\* Every step preserves the inductive invariant; an audit does not touch the incidents that are open.
LEMMA IncidentStep == IncidentInv /\ [Next]_vars => IncidentInv'
<1> SUFFICES ASSUME IncidentInv, [Next]_vars PROVE IncidentInv'
  OBVIOUS
<1>1. CASE \E i \in Incidents : OpenForFlag(i)
  BY <1>1, OpenInv
<1>2. ASSUME NEW q \in Requests, NEW i \in Incidents, NEW role \in Roles, ReadIncident(q, i, role)
      PROVE  IncidentInv'
  BY <1>2, ReadInv
<1>3. ASSUME NEW q \in Requests, NEW target \in States, NEW rationale \in BOOLEAN, NEW uri \in BOOLEAN,
             Transition(q, target, rationale, uri)
      PROVE  IncidentInv'
  BY <1>3, TransitionInv
<1>4. ASSUME NEW q \in Requests, Reject(q) \/ AppendTrail(q) PROVE IncidentInv'
  BY <1>4, EndInv
<1>5. CASE UNCHANGED incidentVars
  <2>1. IncidentTypes' /\ MilestonesRecorded' /\ ResolvedByAdmin' /\ TrailIsTrue'
    BY <1>5 DEF incidentVars, IncidentInv, IncidentTypes, MilestonesRecorded, ResolvedByAdmin, TrailIsTrue
  <2>2. ReadersRight' /\ LoggersRight'
    BY <1>5 DEF incidentVars, IncidentInv, ReadersRight, LoggersRight
  <2> QED BY <2>1, <2>2 DEF IncidentInv
<1>6. CASE IncidentNext
  BY <1>6, <1>1, <1>2, <1>3, <1>4 DEF IncidentNext, RequestStep
<1> QED BY <1>5, <1>6 DEF Next, vars

\* The inductive invariant holds in every reachable state.
LEMMA AlwaysIncidentInv == Spec => []IncidentInv
<1>1. Init => IncidentInv
  BY IncidentStart DEF Init
<1> QED BY <1>1, IncidentStep, PTL DEF Spec

\* Rows, requests and the trail keep their types.
THEOREM RowsWellTyped == Spec => []IncidentTypes
<1>1. IncidentInv => IncidentTypes
  BY DEF IncidentInv
<1> QED BY <1>1, AlwaysIncidentInv, PTL

\* For any number of concurrent transition requests an incident has every timestamp, rationale and
\* post-mortem its state calls for (_apply and the gates of IncidentStateMachine).
THEOREM MilestonesAlwaysRecorded == Spec => []MilestonesRecorded
<1>1. IncidentInv => MilestonesRecorded
  BY DEF IncidentInv
<1> QED BY <1>1, AlwaysIncidentInv, PTL

\* However stale the row a request checked, only an admin's request sets resolved_at (_validate_rbac).
THEOREM OnlyAdminsResolve == Spec => []ResolvedByAdmin
<1>1. IncidentInv => ResolvedByAdmin
  BY DEF IncidentInv
<1> QED BY <1>1, AlwaysIncidentInv, PTL

\* The audit log names a resolution only when the row was committed with it first.
THEOREM TrailAlwaysTrue == Spec => []TrailIsTrue
<1>1. IncidentInv => TrailIsTrue
  BY DEF IncidentInv
<1> QED BY <1>1, AlwaysIncidentInv, PTL

\* Both together, as the run checks them: a resolution has its admin, and the log's word for it its row.
THEOREM ResolutionsAlwaysAccounted == Spec => []ResolutionsAccounted
<1>1. ResolvedByAdmin /\ TrailIsTrue => ResolutionsAccounted
  BY DEF ResolutionsAccounted
<1> QED BY <1>1, OnlyAdminsResolve, TrailAlwaysTrue, PTL
-----------------------------------------------------------------------------
(* The verdicts of a run and its flag. *)

All(routing, outcome) == UNION {VerdictsOf(d, outcome[d]) : d \in Runnable(routing)}
Enforcing(routing, canary, outcome) ==
    UNION {VerdictsOf(d, outcome[d]) : d \in {c \in Runnable(routing) : Counts(c, routing, outcome[c], canary)}}

\* The task that analyze_trace leaves, in one of its later stages.
Analysed(stage, routing, canary, outcome) ==
    [stage |-> stage, routing |-> routing, canary |-> canary, outcome |-> outcome,
     verdicts |-> All(routing, outcome), flag |-> aggregate(Enforcing(routing, canary, outcome))]

\* A detector speaks against a run by a finding or by an exception.
LEMMA SpeaksAgainst ==
    ASSUME NEW d, NEW o \in Outcomes
    PROVE  /\ (\E v \in VerdictsOf(d, o) : v.result # "OK") <=> (o.raised \/ \E f \in o.findings : f.result # "OK")
           /\ \A v \in VerdictsOf(d, o) : v.result \in Results
<1>1. CASE o = [raised |-> TRUE, findings |-> {}]
  <2>1. VerdictsOf(d, o) = {CrashVerdict(d)} /\ o.raised
    BY <1>1 DEF VerdictsOf
  <2>2. CrashVerdict(d).result = "NEEDS_REVIEW"
    BY DEF CrashVerdict, VerdictBy
  <2> QED BY <2>1, <2>2 DEF Results
<1>2. CASE \E a \in Answers : o = [raised |-> FALSE, findings |-> a]
  <2> PICK a \in Answers : o = [raised |-> FALSE, findings |-> a]
    BY <1>2
  <2>1. VerdictsOf(d, o) = {VerdictBy(d, d \in JudgeDetectors, f) : f \in a} /\ ~o.raised /\ o.findings = a
    BY DEF VerdictsOf
  <2>2. \A f \in a : VerdictBy(d, d \in JudgeDetectors, f).result = f.result /\ f.result \in Results
    BY DataAssumption DEF VerdictBy
  <2> QED BY <2>1, <2>2
<1> QED BY <1>1, <1>2 DEF Outcomes

\* classify knows every verdict that is not OK.
LEMMA Classified ==
    ASSUME NEW v, v.result \in Results, v.result # "OK"
    PROVE  classify(v) \in Severities
<1>1. CASE v.result = "NEEDS_REVIEW"
  BY <1>1 DEF classify, Severities
<1>2. CASE v.result = "VIOLATION" /\ v.rubric \in Severities
  BY <1>2 DEF classify
<1>3. CASE v.result = "VIOLATION" /\ v.rubric \notin Severities
  <2>1. classify(v) = IF v.critical THEN "critical" ELSE IF v.confidence >= HIGH_CONFIDENCE THEN "high" ELSE "medium"
    BY <1>3 DEF classify
  <2> QED BY <2>1 DEF Severities
<1> QED BY <1>1, <1>2, <1>3 DEF Results

\* The order of the severities.
LEMMA SeverityOrder ==
    /\ ORDER["low"] = 0 /\ ORDER["medium"] = 1 /\ ORDER["high"] = 2 /\ ORDER["critical"] = 3
    /\ \A s \in Severities : s = "low" \/ s = "medium" \/ s = "high" \/ s = "critical"
BY DEF ORDER, Severities

\* Among severities one is the worst.
LEMMA WorstExists ==
    ASSUME NEW S \in SUBSET Severities, S # {}
    PROVE  \E s \in S : \A t \in S : ORDER[t] <= ORDER[s]
<1>1. CASE "critical" \in S
  BY <1>1, SeverityOrder
<1>2. CASE "critical" \notin S /\ "high" \in S
  BY <1>2, SeverityOrder
<1>3. CASE "critical" \notin S /\ "high" \notin S /\ "medium" \in S
  BY <1>3, SeverityOrder
<1>4. CASE "critical" \notin S /\ "high" \notin S /\ "medium" \notin S
  BY <1>4, SeverityOrder
<1> QED BY <1>1, <1>2, <1>3, <1>4

\* score_severity: the worst severity of the verdicts, which one of them has.
LEMMA ScoreIsWorst ==
    ASSUME NEW V, V # {}, \A v \in V : v.result \in Results /\ v.result # "OK"
    PROVE  /\ score_severity(V) \in Severities
           /\ \A v \in V : ORDER[classify(v)] <= ORDER[score_severity(V)]
           /\ \E v \in V : classify(v) = score_severity(V)
<1> PICK S : S = {classify(v) : v \in V}
  OBVIOUS
<1>1. S \subseteq Severities /\ S # {}
  BY Classified
<1>2. score_severity(V) = CHOOSE s \in S : \A t \in S : ORDER[t] <= ORDER[s]
  BY <1>1 DEF score_severity
<1>3. score_severity(V) \in S /\ \A t \in S : ORDER[t] <= ORDER[score_severity(V)]
  <2>1. \E s \in S : \A t \in S : ORDER[t] <= ORDER[s]
    BY <1>1, WorstExists
  <2> QED BY <1>2, <2>1
<1> QED BY <1>1, <1>3

\* The flag of a run is what its detectors said or failed to say.
LEMMA FlagRight ==
    ASSUME NEW routing, NEW canary, NEW outcome \in [Runnable(routing) -> Outcomes],
           NEW flag, flag = aggregate(Enforcing(routing, canary, outcome))
    PROVE  /\ flag.raised \/ flag = NoFlag
           /\ ~flag.raised <=>
                \A d \in Runnable(routing) :
                    /\ ~outcome[d].raised
                    /\ (routing[d] = "ENFORCING" \/ (routing[d] = "CANARY" /\ d \in canary)) =>
                            ~\E f \in outcome[d].findings : f.result # "OK"
           /\ flag.raised =>
                /\ \A v \in flag.verdicts : ORDER[classify(v)] <= ORDER[flag.severity]
                /\ \E v \in flag.verdicts : classify(v) = flag.severity
                /\ flag.verdicts \subseteq All(routing, outcome)
                /\ OpensIncident(flag) <=> ORDER[flag.severity] >= 2
<1> DEFINE R == Runnable(routing)
           Against1(d) == \E v \in VerdictsOf(d, outcome[d]) : v.result # "OK"
<1> PICK E : E = Enforcing(routing, canary, outcome)
  OBVIOUS
<1> PICK A : A = Actionable(E)
  OBVIOUS
<1>1. \A d \in R : /\ outcome[d] \in Outcomes
                   /\ Against1(d) <=> (outcome[d].raised \/ \E f \in outcome[d].findings : f.result # "OK")
                   /\ \A v \in VerdictsOf(d, outcome[d]) : v.result \in Results
  BY SpeaksAgainst
<1>2. E = UNION {VerdictsOf(d, outcome[d]) : d \in {c \in R : Counts(c, routing, outcome[c], canary)}}
  BY DEF Enforcing
<1>3. \A v : v \in E <=> \E d \in R : Counts(d, routing, outcome[d], canary) /\ v \in VerdictsOf(d, outcome[d])
  BY <1>2
<1>4. A # {} <=> \E d \in R : Counts(d, routing, outcome[d], canary) /\ Against1(d)
  BY <1>3 DEF Actionable
<1>5. \A v \in A : v.result \in Results /\ v.result # "OK"
  BY <1>1, <1>3 DEF Actionable
<1>6. CASE A = {}
  <2>1. flag = NoFlag /\ ~flag.raised
    BY <1>6 DEF aggregate, NoFlag
  <2> HIDE DEF Against1
  <2> QED BY <2>1, <1>1, <1>4, <1>6 DEF Counts
<1>7. CASE A # {}
  <2>1. flag = [raised |-> TRUE, severity |-> score_severity(A), verdicts |-> A, confidence |-> FlagConfidence(A)]
    BY <1>7 DEF aggregate
  <2>2. flag.raised /\ flag.severity = score_severity(A) /\ flag.verdicts = A
    BY <2>1
  <2>3. A \subseteq All(routing, outcome)
    BY <1>3 DEF All, Actionable
  <2>4. /\ score_severity(A) \in Severities
        /\ \A v \in A : ORDER[classify(v)] <= ORDER[score_severity(A)]
        /\ \E v \in A : classify(v) = score_severity(A)
    BY <1>5, <1>7, ScoreIsWorst
  <2>5. OpensIncident(flag) <=> ORDER[flag.severity] >= 2
    BY <2>2, <2>4, SeverityOrder DEF OpensIncident, INCIDENT_SEVERITIES
  <2>6. ~(\A d \in R :
            /\ ~outcome[d].raised
            /\ (routing[d] = "ENFORCING" \/ (routing[d] = "CANARY" /\ d \in canary)) =>
                    ~\E f \in outcome[d].findings : f.result # "OK")
    <3>1. PICK d \in R : Counts(d, routing, outcome[d], canary) /\ Against1(d)
      BY <1>4, <1>7
    <3> QED BY <3>1, <1>1 DEF Counts
  <2> QED BY <2>2, <2>3, <2>4, <2>5, <2>6
<1> QED BY <1>6, <1>7
\* What the audit task and the rows of the run hold in each stage: the result of analyze_trace from its
\* end on, the rows of store_run_result exactly once it has committed.
StoredRight ==
    /\ task.stage \in {"stored", "done"} =>
        /\ rows.verdicts = task.verdicts /\ rows.flag = task.flag
        /\ rows.incident <=> OpensIncident(task.flag)
        /\ rows.routed => task.flag.raised
    /\ task.stage \notin {"stored", "done"} => rows.flag = NoFlag /\ ~rows.incident /\ ~rows.routed

TaskRight ==
    task.stage \in {"analysed", "stored", "failed", "done"} =>
        \E routing \in Routings, canary \in SUBSET Detectors :
            \E outcome \in [Runnable(routing) -> Outcomes] : task = Analysed(task.stage, routing, canary, outcome)

VerdictInv ==
    /\ DOMAIN rows = {"tier", "verdicts", "flag", "incident", "routed"}
    /\ TaskRight
    /\ StoredRight

\* A step that leaves the rows alone and is not a step of an analysed task.
LEMMA EarlyStep ==
    ASSUME VerdictInv, rows' = rows, task.stage \notin {"stored", "done"},
           task'.stage \in {"idle", "loaded", "decided", "skipped", "sampled"}
    PROVE  VerdictInv'
BY DEF VerdictInv, TaskRight, StoredRight

\* The later stages keep what analyze_trace left.
LEMMA LaterStage ==
    ASSUME VerdictInv, NEW stage \in {"stored", "failed", "done"}, task' = [task EXCEPT !.stage = stage],
           task.stage \in {"analysed", "stored"}
    PROVE  TaskRight' /\ task'.stage = stage /\ task'.verdicts = task.verdicts /\ task'.flag = task.flag
<1>1. PICK routing \in Routings, canary \in SUBSET Detectors :
          \E outcome \in [Runnable(routing) -> Outcomes] : task = Analysed(task.stage, routing, canary, outcome)
  BY DEF VerdictInv, TaskRight
<1>2. PICK outcome \in [Runnable(routing) -> Outcomes] : task = Analysed(task.stage, routing, canary, outcome)
  BY <1>1
<1>3. task' = Analysed(stage, routing, canary, outcome)
  BY <1>2 DEF Analysed
<1>4. task'.stage = stage /\ task'.verdicts = task.verdicts /\ task'.flag = task.flag
  BY <1>2, <1>3 DEF Analysed
<1> QED BY <1>3, <1>4 DEF TaskRight

\* What analyze_trace leaves.
LEMMA AnalysedNow ==
    ASSUME NEW routing \in Routings, AnalyzeTrace(routing)
    PROVE  /\ \E canary \in SUBSET Detectors : \E outcome \in [Runnable(routing) -> Outcomes] :
                task' = Analysed("analysed", routing, canary, outcome)
           /\ task'.stage = "analysed"
<1>1. PICK canary \in SUBSET {d \in Detectors : routing[d] = "CANARY"}, outcome \in [Runnable(routing) -> Outcomes] :
          task' = Analysed("analysed", routing, canary, outcome)
  BY DEF AnalyzeTrace, Analysed, All, Enforcing
<1>2. task'.stage = "analysed"
  BY <1>1 DEF Analysed
<1> QED BY <1>1, <1>2

\* Every step of the pipeline preserves the invariant.
LEMMA VerdictStep == VerdictInv /\ [Next]_vars => VerdictInv'
<1> SUFFICES ASSUME VerdictInv, [Next]_vars PROVE VerdictInv'
  OBVIOUS
<1>1. ASSUME NEW trace \in Traces, LoadTrace(trace) PROVE VerdictInv'
  BY <1>1, EarlyStep DEF LoadTrace, Idle
<1>2. ASSUME NEW tier, Decided(tier), Deciding PROVE VerdictInv'
  BY <1>2, EarlyStep DEF Decided, Deciding
<1>3. CASE PersistDecision
  <2>1. PICK tier : rows' = [rows EXCEPT !.tier = tier]
    BY <1>3 DEF PersistDecision
  <2>2. task.stage = "decided" /\ task'.stage \in {"skipped", "sampled"}
    BY <1>3 DEF PersistDecision
  <2> QED BY <2>1, <2>2 DEF VerdictInv, TaskRight, StoredRight
<1>4. ASSUME NEW routing \in Routings, AnalyzeTrace(routing) PROVE VerdictInv'
  <2>1. \E canary \in SUBSET Detectors : \E outcome \in [Runnable(routing) -> Outcomes] :
            task' = Analysed("analysed", routing, canary, outcome)
    BY <1>4, AnalysedNow
  <2>2. task'.stage = "analysed" /\ task.stage = "sampled" /\ rows' = rows
    BY <1>4, AnalysedNow DEF AnalyzeTrace
  <2>3. TaskRight'
    BY <2>1, <2>2 DEF TaskRight
  <2>4. StoredRight' /\ DOMAIN rows' = DOMAIN rows
    BY <2>2 DEF VerdictInv, StoredRight
  <2> QED BY <2>3, <2>4 DEF VerdictInv
<1>5. CASE StoreRunResult
  <2>1. /\ rows' = [rows EXCEPT !.verdicts = task.verdicts, !.flag = task.flag, !.incident = OpensIncident(task.flag)]
        /\ task' = [task EXCEPT !.stage = "stored"] /\ task.stage = "analysed"
    BY <1>5 DEF StoreRunResult
  <2>2. TaskRight' /\ task'.stage = "stored" /\ task'.verdicts = task.verdicts /\ task'.flag = task.flag
    BY <2>1, LaterStage
  <2>3. /\ DOMAIN rows' = DOMAIN rows
        /\ rows'.verdicts = task.verdicts /\ rows'.flag = task.flag
        /\ rows'.incident = OpensIncident(task.flag)
        /\ rows'.routed = rows.routed
    BY <2>1 DEF VerdictInv
  <2>4. ~rows.routed
    BY <2>1 DEF VerdictInv, StoredRight
  <2> QED BY <2>2, <2>3, <2>4 DEF VerdictInv, StoredRight, OpensIncident
<1>6. CASE StoreFails
  <2>1. rows' = rows /\ task' = [task EXCEPT !.stage = "failed"] /\ task.stage = "analysed"
    BY <1>6 DEF StoreFails
  <2>2. TaskRight' /\ task'.stage = "failed"
    BY <2>1, LaterStage
  <2> QED BY <2>1, <2>2 DEF VerdictInv, StoredRight
<1>7. CASE RouteFlag
  <2>1. PICK routed \in BOOLEAN : rows' = [rows EXCEPT !.routed = task.flag.raised /\ routed]
    BY <1>7 DEF RouteFlag
  <2>2. task' = [task EXCEPT !.stage = "done"] /\ task.stage = "stored"
    BY <1>7 DEF RouteFlag
  <2>3. TaskRight' /\ task'.stage = "done" /\ task'.verdicts = task.verdicts /\ task'.flag = task.flag
    BY <2>2, LaterStage
  <2>4. /\ DOMAIN rows' = DOMAIN rows
        /\ rows'.verdicts = rows.verdicts /\ rows'.flag = rows.flag
        /\ rows'.incident = rows.incident
        /\ rows'.routed => task.flag.raised
    BY <2>1 DEF VerdictInv
  <2> QED BY <2>2, <2>3, <2>4 DEF VerdictInv, StoredRight, OpensIncident
<1>8. CASE NextRun
  BY <1>8 DEF NextRun, NoRows, Idle, VerdictInv, TaskRight, StoredRight
<1>9. CASE task' = task /\ rows' = rows
  BY <1>9 DEF VerdictInv, TaskRight, StoredRight
<1>10. CASE PipelineNext
  BY <1>10, <1>1, <1>2, <1>3, <1>4, <1>5, <1>6, <1>7, <1>8, <1>9
  DEF PipelineNext, DecideForced, DecideEveryNth, DecideInterval, DecidePercentage, Unforced, update_sampler, Tick
<1> QED BY <1>9, <1>10 DEF Next, vars, pipelineVars

\* Task and rows agree in every reachable state.
LEMMA AlwaysVerdictInv == Spec => []VerdictInv
<1>1. Init => VerdictInv
  BY DEF Init, PipelineInit, Idle, NoRows, VerdictInv, TaskRight, StoredRight
<1> QED BY <1>1, VerdictStep, PTL DEF Spec

\* For any detectors, findings and lifecycle states: a run without a flag is one that every detector with
\* a voice answered for, and the flag, its severity and its incident are those of the worst verdict
\* (analyze_trace, aggregate, score_severity and store_run_result).
THEOREM RunsAreAccounted == Spec => []VerdictsAccounted
<1>1. ASSUME VerdictInv PROVE VerdictsAccounted
  <2>1. CASE task.stage \notin {"stored", "done"}
    BY <1>1, <2>1 DEF VerdictInv, StoredRight, VerdictsAccounted, SilenceIsVouched, SeverityIsWorst, NoFlag
  <2>2. CASE task.stage \in {"stored", "done"}
    <3>1. PICK routing \in Routings, canary \in SUBSET Detectors :
            \E outcome \in [Runnable(routing) -> Outcomes] : task = Analysed(task.stage, routing, canary, outcome)
      BY <1>1, <2>2 DEF VerdictInv, TaskRight
    <3>2. PICK outcome \in [Runnable(routing) -> Outcomes] : task = Analysed(task.stage, routing, canary, outcome)
      BY <3>1
    <3>3. PICK flag : flag = aggregate(Enforcing(routing, canary, outcome))
      OBVIOUS
    <3>4. /\ task.flag = flag /\ task.verdicts = All(routing, outcome)
          /\ task.routing = routing /\ task.canary = canary /\ task.outcome = outcome
      BY <3>2, <3>3 DEF Analysed
    <3>5. /\ rows.flag = flag /\ rows.verdicts = All(routing, outcome)
          /\ rows.incident <=> OpensIncident(flag)
          /\ rows.routed => flag.raised
      BY <1>1, <2>2, <3>4 DEF VerdictInv, StoredRight
    <3>6. /\ flag.raised \/ flag = NoFlag
          /\ ~flag.raised <=>
                \A d \in Runnable(routing) :
                    /\ ~outcome[d].raised
                    /\ (routing[d] = "ENFORCING" \/ (routing[d] = "CANARY" /\ d \in canary)) =>
                            ~\E f \in outcome[d].findings : f.result # "OK"
          /\ flag.raised =>
                /\ \A v \in flag.verdicts : ORDER[classify(v)] <= ORDER[flag.severity]
                /\ \E v \in flag.verdicts : classify(v) = flag.severity
                /\ flag.verdicts \subseteq All(routing, outcome)
                /\ OpensIncident(flag) <=> ORDER[flag.severity] >= 2
      BY <3>3, FlagRight
    <3>7. SilenceIsVouched
      BY <3>4, <3>5, <3>6 DEF SilenceIsVouched, Voice, Against
    <3>8. SeverityIsWorst
      <4>1. OpensIncident(flag) => flag.raised
        BY DEF OpensIncident
      <4> QED BY <3>5, <3>6, <4>1 DEF SeverityIsWorst
    <3> QED BY <3>7, <3>8 DEF VerdictsAccounted
  <2> QED BY <2>1, <2>2
<1> QED BY <1>1, AlwaysVerdictInv, PTL
-----------------------------------------------------------------------------
(* The signals of a trace. *)

\* Induction, as a fact about sets: a set of numbers that lacks one lacks a least one.
LEMMA EveryNumber ==
    ASSUME NEW S, 0 \in S, \A n \in Nat : n \in S => n + 1 \in S
    PROVE  \A n \in Nat : n \in S
<1> DEFINE T == Nat \ S
           R == OpToRel(<, Nat)
<1> SUFFICES ASSUME T # {} PROVE FALSE
  OBVIOUS
<1>1. IsWellFoundedOn(R, Nat)
  BY NatLessThanWellFounded
<1> HIDE DEF R
<1>2. PICK x \in T : \A y \in T : ~(<<y, x>> \in R)
  BY <1>1, WFMin
<1>3. \A y \in T : ~(y < x)
  BY <1>2 DEF R, OpToRel
<1>4. x \in Nat /\ x # 0 /\ x \notin S
  OBVIOUS
<1>5. x - 1 \in Nat /\ x - 1 < x /\ (x - 1) + 1 = x
  BY <1>4
<1>6. x - 1 \in S
  BY <1>3, <1>5
<1> QED BY <1>4, <1>5, <1>6

\* g holds the locals of compute_run_signals after each of the first n events.
Pass(trace, g, n) == g = [i \in 0..n |-> IF i = 0 THEN {} ELSE Seen(g[i - 1], trace[i])]

\* The pass over the first n events has seen what is among them.
Exec(e) == StartOf(e, "exec") \/ e.type = "syscall.execve"
Shown(e) == e.dest /\ (e.type = "syscall.connect" \/ StartOf(e, "egress"))
Sensitive(e) == TouchesSecret(e) \/ (e.type = "syscall.openat" /\ e.sensitive)
Injected(e) == e.injection /\ e.type \in {"tool_call.start", "tool_call.end", "memory.op"}

SeenOf(trace, s, n) ==
    /\ "has_exec" \in s <=> \E i \in 1..n : Exec(trace[i])
    /\ "egress" \in s <=> \E i \in 1..n : Shown(trace[i])
    /\ "sensitive" \in s <=> \E i \in 1..n : Sensitive(trace[i])
    /\ "injection" \in s <=> \E i \in 1..n : Injected(trace[i])
    /\ "saw_secret" \in s <=> \E i \in 1..n : TouchesSecret(trace[i])
    /\ "secret_then_egress" \in s <=>
            \E i, j \in 1..n : i <= j /\ TouchesSecret(trace[i]) /\ StartOf(trace[j], "egress")

\* One event of the pass.
LEMMA EventSeen ==
    ASSUME NEW trace, NEW s, NEW n \in Nat, SeenOf(trace, s, n)
    PROVE  SeenOf(trace, Seen(s, trace[n + 1]), n + 1)
<1> PICK e : e = trace[n + 1]
  OBVIOUS
<1> PICK t : t = Seen(s, e)
  OBVIOUS
<1>1. /\ "has_exec" \in t <=> "has_exec" \in s \/ Exec(e)
      /\ "egress" \in t <=> "egress" \in s \/ Shown(e)
      /\ "sensitive" \in t <=> "sensitive" \in s \/ Sensitive(e)
      /\ "injection" \in t <=> "injection" \in s \/ Injected(e)
      /\ "saw_secret" \in t <=> "saw_secret" \in s \/ TouchesSecret(e)
      /\ "secret_then_egress" \in t <=>
            "secret_then_egress" \in s \/ (StartOf(e, "egress") /\ ("saw_secret" \in s \/ TouchesSecret(e)))
  <2>1. \A local \in Locals : local \in t <=> local \in s \/ Sets(e, local, s)
    BY DEF Seen
  <2>2. Sets(e, "has_exec", s) <=> Exec(e)
    BY DEF Sets, Exec
  <2>3. Sets(e, "egress", s) <=> Shown(e)
    BY DEF Sets, Shown
  <2>4. Sets(e, "sensitive", s) <=> Sensitive(e)
    BY DEF Sets, Sensitive
  <2>5. Sets(e, "injection", s) <=> Injected(e)
    BY DEF Sets, Injected
  <2>6. Sets(e, "saw_secret", s) <=> TouchesSecret(e)
    BY DEF Sets
  <2>7. Sets(e, "secret_then_egress", s) <=> (StartOf(e, "egress") /\ ("saw_secret" \in s \/ TouchesSecret(e)))
    BY DEF Sets, LeaksSecret
  <2> QED BY <2>1, <2>2, <2>3, <2>4, <2>5, <2>6, <2>7 DEF Locals
<1>2. /\ \A i : i \in 1..(n + 1) <=> i \in 1..n \/ i = n + 1
      /\ \A i \in 1..n : i <= n + 1 /\ ~(n + 1 <= i)
      /\ n + 1 <= n + 1
  OBVIOUS
<1>3. /\ "has_exec" \in t <=> \E i \in 1..(n + 1) : Exec(trace[i])
      /\ "egress" \in t <=> \E i \in 1..(n + 1) : Shown(trace[i])
      /\ "sensitive" \in t <=> \E i \in 1..(n + 1) : Sensitive(trace[i])
      /\ "injection" \in t <=> \E i \in 1..(n + 1) : Injected(trace[i])
      /\ "saw_secret" \in t <=> \E i \in 1..(n + 1) : TouchesSecret(trace[i])
  BY <1>1, <1>2 DEF SeenOf
<1>4. "secret_then_egress" \in t <=>
            \E i, j \in 1..(n + 1) : i <= j /\ TouchesSecret(trace[i]) /\ StartOf(trace[j], "egress")
  <2>1. "secret_then_egress" \in s <=>
            \E i, j \in 1..n : i <= j /\ TouchesSecret(trace[i]) /\ StartOf(trace[j], "egress")
    BY DEF SeenOf
  <2>2. ("saw_secret" \in s \/ TouchesSecret(e)) <=> \E i \in 1..(n + 1) : TouchesSecret(trace[i])
    BY <1>1, <1>3
  <2>3. ASSUME "secret_then_egress" \in t
        PROVE  \E i, j \in 1..(n + 1) : i <= j /\ TouchesSecret(trace[i]) /\ StartOf(trace[j], "egress")
    <3>1. CASE "secret_then_egress" \in s
      BY <2>1, <1>2, <3>1
    <3>2. CASE "secret_then_egress" \notin s
      <4>1. StartOf(trace[n + 1], "egress")
        BY <1>1, <2>3, <3>2
      <4>2. PICK i \in 1..(n + 1) : TouchesSecret(trace[i])
        BY <1>1, <2>2, <2>3, <3>2
      <4> QED BY <1>2, <4>1, <4>2
    <3> QED BY <3>1, <3>2
  <2>4. ASSUME NEW i \in 1..(n + 1), NEW j \in 1..(n + 1), i <= j, TouchesSecret(trace[i]), StartOf(trace[j], "egress")
        PROVE  "secret_then_egress" \in t
    <3>1. CASE j = n + 1
      BY <1>1, <2>2, <2>4, <3>1
    <3>2. CASE j \in 1..n
      <4>1. i \in 1..n
        BY <1>2, <2>4, <3>2
      <4> QED BY <1>1, <2>1, <2>4, <3>2, <4>1
    <3> QED BY <1>2, <3>1, <3>2
  <2> QED BY <2>3, <2>4
<1> QED BY <1>3, <1>4 DEF SeenOf

\* The pass is defined for every number of events.
LEMMA PassExists == ASSUME NEW trace PROVE \A n \in Nat : \E g : Pass(trace, g, n)
<1>1. PICK S : S = {n \in Nat : \E g : Pass(trace, g, n)}
  OBVIOUS
<1>2. 0 \in S
  <2>1. PICK g : g = [i \in 0..0 |-> {}]
    OBVIOUS
  <2>2. 0..0 = {0}
    OBVIOUS
  <2>3. Pass(trace, g, 0)
    BY <2>1, <2>2 DEF Pass
  <2> QED BY <1>1, <2>3
<1>3. ASSUME NEW m \in Nat, m \in S PROVE m + 1 \in S
  <2>1. PICK g : Pass(trace, g, m)
    BY <1>1, <1>3
  <2>2. PICK h : h = [i \in 0..m+1 |-> IF i = m + 1 THEN Seen(g[m], trace[m + 1]) ELSE g[i]]
    OBVIOUS
  <2>3. \A i \in 0..m : h[i] = g[i]
    BY <2>2
  <2>4. h[m + 1] = Seen(g[m], trace[m + 1])
    BY <2>2
  <2>5. DOMAIN h = 0..m+1 /\ h = [i \in DOMAIN h |-> h[i]]
    BY <2>2
  <2>6. \A i \in 0..m : g[i] = IF i = 0 THEN {} ELSE Seen(g[i - 1], trace[i])
    BY <2>1 DEF Pass
  <2>7. ASSUME NEW i \in 0..m+1 PROVE h[i] = IF i = 0 THEN {} ELSE Seen(h[i - 1], trace[i])
    <3>1. CASE i = m + 1
      <4>1. i # 0 /\ i - 1 = m /\ m \in 0..m
        BY <3>1
      <4> QED BY <2>3, <2>4, <3>1, <4>1
    <3>2. CASE i = 0
      BY <2>3, <2>6, <3>2
    <3>3. CASE i \in 1..m
      <4>1. i \in 0..m /\ i - 1 \in 0..m /\ i # 0
        BY <3>3
      <4> QED BY <2>3, <2>6, <4>1
    <3> QED BY <3>1, <3>2, <3>3
  <2>8. Pass(trace, h, m + 1)
    BY <2>5, <2>7 DEF Pass
  <2> QED BY <1>1, <2>8
<1>4. \A n \in Nat : n \in S
  BY <1>2, <1>3, EveryNumber
<1> QED BY <1>1, <1>4

\* After i events the pass has seen what is among the first i.
LEMMA PassRight ==
    ASSUME NEW trace, NEW n \in Nat, NEW g, Pass(trace, g, n)
    PROVE  \A i \in 0..n : SeenOf(trace, g[i], i)
<1>1. PICK S : S = {i \in Nat : i <= n => SeenOf(trace, g[i], i)}
  OBVIOUS
<1>2. \A i \in 0..n : g[i] = IF i = 0 THEN {} ELSE Seen(g[i - 1], trace[i])
  BY DEF Pass
<1>3. 0 \in S
  <2>1. g[0] = {} /\ 1..0 = {}
    BY <1>2
  <2>2. SeenOf(trace, g[0], 0)
    BY <2>1 DEF SeenOf
  <2> QED BY <1>1, <2>2
<1>4. ASSUME NEW i \in Nat, i \in S PROVE i + 1 \in S
  <2> SUFFICES ASSUME i + 1 <= n PROVE SeenOf(trace, g[i + 1], i + 1)
    BY <1>1
  <2>1. i \in 0..n /\ i + 1 \in 0..n /\ i + 1 # 0 /\ (i + 1) - 1 = i
    OBVIOUS
  <2>2. SeenOf(trace, g[i], i)
    BY <1>1, <1>4, <2>1
  <2>3. g[i + 1] = Seen(g[i], trace[i + 1])
    BY <1>2, <2>1
  <2> QED BY <2>2, <2>3, EventSeen
<1>5. \A i \in Nat : i \in S
  BY <1>3, <1>4, EveryNumber
<1> QED BY <1>1, <1>5

Signals(risk, touched, allowlisted) ==
    [channel_divergence |-> FALSE, cheap_risk_score |-> risk, touched_sensitive_data |-> touched,
     in_allowlisted_path |-> allowlisted, tenant_recent_incident_count |-> 0]

\* The egress the pass sees, and the score it gives.
EgressShown(trace) == TraceEgress(trace) /\ ~HiddenEgress(trace)
ShownRisk(trace) == RiskOf(trace, EgressShown(trace))

\* The egress that is not hidden is that of a connection or of a tool.
LEMMA ShownEgress ==
    ASSUME NEW trace
    PROVE  EgressShown(trace) <=> \E i \in DOMAIN trace : Shown(trace[i])
<1>1. \A e : Shown(e) <=> Egress(e) /\ e.type \notin {"syscall.sendto", "syscall.dns"}
  BY DEF Shown, Egress, StartOf
<1>2. TraceEgress(trace) <=> \E i \in DOMAIN trace : Egress(trace[i])
  BY DEF TraceEgress, Some
<1> QED BY <1>1, <1>2 DEF EgressShown, HiddenEgress

\* What the pass overlooks never raises the score, and without hidden egress the score is the risk.
LEMMA ShownIsLess ==
    ASSUME NEW trace
    PROVE  /\ \A n \in 0..100 : ShownRisk(trace) >= n => TraceRisk(trace) >= n
           /\ ~HiddenEgress(trace) => ShownRisk(trace) = TraceRisk(trace)
<1>1. EgressShown(trace) => TraceEgress(trace)
  BY DEF EgressShown
<1>2. ~HiddenEgress(trace) => (EgressShown(trace) <=> TraceEgress(trace))
  BY DEF EgressShown
<1>3. \A n \in 0..100 : RiskOf(trace, FALSE) >= n => RiskOf(trace, TRUE) >= n
  BY DEF RiskOf, If
<1>4. CASE EgressShown(trace)
  <2>1. EgressShown(trace) = TRUE /\ TraceEgress(trace) = TRUE
    BY <1>1, <1>4 DEF EgressShown, TraceEgress, Some
  <2>2. ShownRisk(trace) = RiskOf(trace, TRUE) /\ TraceRisk(trace) = RiskOf(trace, TRUE)
    BY <2>1 DEF ShownRisk, TraceRisk
  <2> QED BY <2>2
<1>5. CASE ~EgressShown(trace) /\ TraceEgress(trace)
  <2>1. EgressShown(trace) = FALSE /\ TraceEgress(trace) = TRUE
    BY <1>5 DEF EgressShown, TraceEgress, Some
  <2>2. ShownRisk(trace) = RiskOf(trace, FALSE) /\ TraceRisk(trace) = RiskOf(trace, TRUE)
    BY <2>1 DEF ShownRisk, TraceRisk
  <2> QED BY <1>2, <1>3, <1>5, <2>2
<1>6. CASE ~EgressShown(trace) /\ ~TraceEgress(trace)
  <2>1. EgressShown(trace) = FALSE /\ TraceEgress(trace) = FALSE
    BY <1>6 DEF EgressShown, TraceEgress, Some
  <2>2. ShownRisk(trace) = RiskOf(trace, FALSE) /\ TraceRisk(trace) = RiskOf(trace, FALSE)
    BY <2>1 DEF ShownRisk, TraceRisk
  <2> QED BY <2>2
<1> QED BY <1>4, <1>5, <1>6

\* compute_run_signals: the score and the sensitive mark are those of the whole trace,
\* as far as its egress is shown.
LEMMA SignalsRight ==
    ASSUME NEW trace \in Traces
    PROVE  /\ TraceSensitive(trace) => compute_run_signals(trace) = Signals(ShownRisk(trace), TRUE, FALSE)
           /\ ~TraceSensitive(trace) => compute_run_signals(trace) = Signals(ShownRisk(trace), FALSE, TRUE)
<1>1. PICK n : n = Len(trace)
  OBVIOUS
<1>2. n \in Nat /\ n \in 0..n /\ DOMAIN trace = 1..n
  BY <1>1, DataAssumption
<1>3. PICK u : u = CHOOSE g : Pass(trace, g, n)
  OBVIOUS
<1>4. PICK s : s = u[n]
  OBVIOUS
<1>5. compute_run_signals(trace) = Signals(RiskScore(s), "sensitive" \in s, "sensitive" \notin s)
  BY <1>1, <1>3, <1>4 DEF compute_run_signals, Pass, Signals
<1>6. Pass(trace, u, n)
  BY <1>2, <1>3, PassExists
<1>7. SeenOf(trace, s, n)
  BY <1>2, <1>4, <1>6, PassRight
<1>8. /\ "has_exec" \in s <=> TraceExec(trace)
      /\ "egress" \in s <=> EgressShown(trace)
      /\ "sensitive" \in s <=> TraceSensitive(trace)
      /\ "injection" \in s <=> TraceInjection(trace)
      /\ "secret_then_egress" \in s <=> TraceLeak(trace)
  BY <1>2, <1>7, ShownEgress DEF SeenOf, Some, TraceExec, TraceSensitive, TraceInjection, TraceLeak,
                                 Exec, Sensitive, Injected
<1>9. RiskScore(s) = ShownRisk(trace)
  BY <1>8 DEF RiskScore, ShownRisk, RiskOf, If
<1>10. CASE "sensitive" \in s
  <2>1. ("sensitive" \in s) = TRUE /\ ("sensitive" \notin s) = FALSE
    BY <1>10
  <2> QED BY <1>5, <1>8, <1>9, <1>10, <2>1
<1>11. CASE "sensitive" \notin s
  <2>1. ("sensitive" \in s) = FALSE /\ ("sensitive" \notin s) = TRUE
    BY <1>11
  <2> QED BY <1>5, <1>8, <1>9, <1>11, <2>1
<1> QED BY <1>10, <1>11

\* A task that has loaded a trace holds one of the traces.
LoadedRight == task.stage = "loaded" => task.trace \in Traces

\* Only load_trace leaves a loaded task.
LEMMA LoadedStep == VerdictInv /\ LoadedRight /\ [Next]_vars => LoadedRight'
<1> SUFFICES ASSUME VerdictInv, LoadedRight, [Next]_vars, task'.stage = "loaded" PROVE task'.trace \in Traces
  BY DEF LoadedRight
<1>1. CASE task' = task
  BY <1>1 DEF LoadedRight
<1>2. CASE PipelineNext
  <2>1. \A tier : ~Decided(tier)
    BY DEF Decided
  <2>2. ~PersistDecision /\ ~NextRun
    BY DEF PersistDecision, NextRun, Idle
  <2>3. ASSUME NEW routing \in Routings, AnalyzeTrace(routing) PROVE FALSE
    BY <2>3, AnalysedNow
  <2>4. ~StoreRunResult /\ ~StoreFails /\ ~RouteFlag
    BY LaterStage DEF StoreRunResult, StoreFails, RouteFlag
  <2> QED BY <1>1, <1>2, <2>1, <2>2, <2>3, <2>4
      DEF PipelineNext, DecideForced, DecideEveryNth, DecideInterval, DecidePercentage, LoadTrace, update_sampler, Tick
<1> QED BY <1>1, <1>2 DEF Next, vars, pipelineVars

\* A loaded task holds a trace in every reachable state.
LEMMA AlwaysLoadedRight == Spec => []LoadedRight
<1>1. Init => LoadedRight
  BY DEF Init, PipelineInit, Idle, LoadedRight
<1> QED BY <1>1, LoadedStep, AlwaysVerdictInv, PTL DEF Spec

-----------------------------------------------------------------------------
(* The modes of the runtime sampling policy. *)

\* The types, with what makes them stay: the counter counts decisions, the interval is within the
\* clock, a decision has a tier, and no decision is later than now.
PolicyInv ==
    /\ PolicyTypes
    /\ counter <= decisions
    /\ settings.interval_seconds <= Epoch
    /\ task.stage = "decided" => task.tier \in Tiers
    /\ \A j \in 1..Len(era) : era[j].at <= clock

\* A decision is added to the era.
LEMMA EraGrows ==
    ASSUME PolicyInv, NEW tier \in Tiers, Decided(tier)
    PROVE  /\ Len(era) \in Nat /\ Len(era') = Len(era) + 1
           /\ \A j \in 1..Len(era) : era'[j] = era[j]
           /\ era'[Len(era) + 1].tier = tier /\ era'[Len(era) + 1].at = clock
           /\ era' \in Seq([tier : Tiers, at : Epoch..(Epoch + MaxTicks)])
           /\ \A j \in 1..Len(era') : era'[j].at <= clock
<1> DEFINE D == [tier : Tiers, at : Epoch..(Epoch + MaxTicks)]
<1> PICK d : d = [tier |-> tier, at |-> clock]
  OBVIOUS
<1>1. d \in D /\ d.tier = tier /\ d.at = clock
  BY DEF PolicyInv, PolicyTypes
<1>2. era \in Seq(D) /\ era' = Append(era, d)
  BY DEF PolicyInv, PolicyTypes, Decided
<1> HIDE DEF D
<1>3. /\ Len(era) \in Nat /\ Len(era') = Len(era) + 1
      /\ \A j \in 1..Len(era) : era'[j] = era[j]
      /\ era'[Len(era) + 1] = d
      /\ era' \in Seq(D)
  BY <1>1, <1>2
<1>4. clock \in Int
  BY BoundsAssumption DEF PolicyInv, PolicyTypes
<1>5. ASSUME NEW j \in 1..Len(era') PROVE era'[j].at <= clock
  <2>1. CASE j \in 1..Len(era)
    BY <1>3, <2>1 DEF PolicyInv
  <2>2. CASE j = Len(era) + 1
    BY <1>1, <1>3, <1>4, <2>2
  <2> QED BY <1>3, <2>1, <2>2
<1> QED BY <1>1, <1>3, <1>5 DEF D

\* What a decision leaves of the types.
LEMMA DecidedTypes ==
    ASSUME PolicyInv, NEW tier \in Tiers, Decided(tier), Deciding,
           counter' \in {counter, counter + 1}, lastAudit' \in {lastAudit, clock}
    PROVE  PolicyInv'
<1>1. /\ settings' = settings /\ updates' = updates /\ clock' = clock /\ rows' = rows
      /\ decisions' = decisions + 1 /\ decisions < MaxDecisions
      /\ task' = [stage |-> "decided", tier |-> tier]
  BY DEF Decided, Deciding
<1>2. /\ counter \in 0..MaxDecisions /\ decisions \in 0..MaxDecisions /\ counter <= decisions
      /\ clock \in Epoch..(Epoch + MaxTicks) /\ lastAudit \in 0..clock
  BY DEF PolicyInv, PolicyTypes
<1>3. /\ counter' \in 0..MaxDecisions /\ decisions' \in 0..MaxDecisions /\ counter' <= decisions'
      /\ lastAudit' \in 0..clock
  BY <1>1, <1>2, BoundsAssumption
<1>4. /\ era' \in Seq([tier : Tiers, at : Epoch..(Epoch + MaxTicks)])
      /\ \A j \in 1..Len(era') : era'[j].at <= clock
  BY EraGrows
<1>5. task'.stage = "decided" /\ task'.tier = tier
  BY <1>1
<1>6. PolicyTypes'
  BY <1>1, <1>3, <1>4, <1>5 DEF PolicyInv, PolicyTypes, Stages
<1> QED BY <1>1, <1>3, <1>4, <1>5, <1>6 DEF PolicyInv

\* An accepted update leaves valid settings.
LEMMA MergedRight ==
    ASSUME settings \in Settings, settings.interval_seconds <= Epoch, NEW body \in Bodies, _validate(Merged(body))
    PROVE  Merged(body) \in Settings /\ Merged(body).interval_seconds <= Epoch
<1> PICK m : m = Merged(body)
  OBVIOUS
<1>1. DOMAIN settings = {"mode", "rate", "every_n", "interval_seconds", "critical_risk_threshold"}
  BY DEF Settings
<1>2. m = [f \in DOMAIN settings |-> IF f \in DOMAIN body THEN body[f] ELSE settings[f]]
  BY DEF Merged
<1>3. /\ m.mode \in Modes /\ m.rate \in 0..Buckets /\ m.critical_risk_threshold \in 0..100
      /\ m.every_n >= 1 /\ m.interval_seconds > 0
  BY DEF _validate
<1>4. m.every_n \in Int /\ m.interval_seconds \in Int
  BY <1>1, <1>2, SettingsAssumption DEF Settings
<1>5. m.interval_seconds <= Epoch
  BY <1>1, <1>2, SettingsAssumption
<1>6. m.every_n \in Nat \ {0} /\ m.interval_seconds \in Nat \ {0}
  BY <1>3, <1>4
<1>7. m \in Settings
  BY <1>1, <1>2, <1>3, <1>6 DEF Settings
<1> QED BY <1>5, <1>7
\* A step of the audit task outside the policy: the policy's state is as it was.
LEMMA PolicyKept ==
    ASSUME PolicyInv, UNCHANGED policyVars, UNCHANGED clock, task'.stage \in Stages \ {"decided"},
           rows'.tier \in Tiers \cup {"none"}, rows'.incident \in BOOLEAN, rows'.routed \in BOOLEAN
    PROVE  PolicyInv'
BY DEF PolicyInv, PolicyTypes, policyVars

\* Every step keeps the types of the policy.
LEMMA PolicyStep == PolicyInv /\ VerdictInv /\ [Next]_vars => PolicyInv'
<1> SUFFICES ASSUME PolicyInv, VerdictInv, [Next]_vars PROVE PolicyInv'
  OBVIOUS
<1>1. rows.tier \in Tiers \cup {"none"} /\ rows.incident \in BOOLEAN /\ rows.routed \in BOOLEAN
  BY DEF PolicyInv, PolicyTypes
<1>2. DOMAIN rows = {"tier", "verdicts", "flag", "incident", "routed"}
  BY DEF VerdictInv
<1>3. ASSUME NEW trace \in Traces, LoadTrace(trace) PROVE PolicyInv'
  BY <1>1, <1>3, PolicyKept DEF LoadTrace, Stages
<1>4. CASE DecideForced
  <2> DEFINE tier == IF settings.mode = "never" THEN "NONE"
                     ELSE IF HardTrigger(compute_run_signals(task.trace)) THEN "L1" ELSE "L2"
  <2>1. tier \in Tiers
    BY DEF Tiers
  <2>2. Decided(tier) /\ Deciding /\ counter' = counter /\ lastAudit' = lastAudit
    BY <1>4 DEF DecideForced
  <2> QED BY <2>1, <2>2, DecidedTypes
<1>5. CASE DecideEveryNth
  <2> DEFINE tier == IF counter' % settings.every_n = 0 THEN "L2" ELSE "NONE"
  <2>1. tier \in Tiers
    BY DEF Tiers
  <2>2. Decided(tier) /\ Deciding /\ counter' = counter + 1 /\ lastAudit' = lastAudit
    BY <1>5 DEF DecideEveryNth, Unforced
  <2> QED BY <2>1, <2>2, DecidedTypes
<1>6. CASE DecideInterval
  <2> DEFINE tier == IF clock - lastAudit >= settings.interval_seconds THEN "L2" ELSE "NONE"
  <2>1. tier \in Tiers
    BY DEF Tiers
  <2>2. Decided(tier) /\ Deciding /\ counter' = counter /\ lastAudit' \in {lastAudit, clock}
    BY <1>6 DEF DecideInterval, Unforced
  <2> QED BY <2>1, <2>2, DecidedTypes
<1>7. ASSUME NEW bucket, DecidePercentage(bucket) PROVE PolicyInv'
  <2> DEFINE tier == IF Stratified(bucket) THEN "L2" ELSE "NONE"
  <2>1. tier \in Tiers
    BY DEF Tiers
  <2>2. Decided(tier) /\ Deciding /\ counter' = counter /\ lastAudit' = lastAudit
    BY <1>7 DEF DecidePercentage, Unforced
  <2> QED BY <2>1, <2>2, DecidedTypes
<1>8. CASE PersistDecision
  <2>1. PICK tier \in {task.tier, rows.tier} : rows' = [rows EXCEPT !.tier = tier]
    BY <1>8 DEF PersistDecision
  <2>2. task.stage = "decided" /\ task'.stage \in {"skipped", "sampled"} /\ UNCHANGED policyVars /\ UNCHANGED clock
    BY <1>8 DEF PersistDecision
  <2>3. tier \in Tiers \cup {"none"}
    BY <1>1, <2>1, <2>2 DEF PolicyInv
  <2>4. rows'.tier = tier /\ rows'.incident = rows.incident /\ rows'.routed = rows.routed
    BY <1>2, <2>1
  <2> QED BY <1>1, <2>2, <2>3, <2>4, PolicyKept DEF Stages
<1>9. ASSUME NEW routing \in Routings, AnalyzeTrace(routing) PROVE PolicyInv'
  <2>1. task'.stage = "analysed" /\ rows' = rows /\ UNCHANGED policyVars /\ UNCHANGED clock
    BY <1>9, AnalysedNow DEF AnalyzeTrace
  <2> QED BY <1>1, <2>1, PolicyKept DEF Stages
<1>10. CASE StoreRunResult
  <2>1. task'.stage = "stored" /\ UNCHANGED policyVars /\ UNCHANGED clock
    BY <1>10, LaterStage DEF StoreRunResult
  <2>2. rows' = [rows EXCEPT !.verdicts = task.verdicts, !.flag = task.flag, !.incident = OpensIncident(task.flag)]
    BY <1>10 DEF StoreRunResult
  <2>3. rows'.tier = rows.tier /\ rows'.routed = rows.routed /\ rows'.incident = OpensIncident(task.flag)
    BY <1>2, <2>2
  <2>4. OpensIncident(task.flag) \in BOOLEAN
    BY DEF OpensIncident
  <2> QED BY <1>1, <2>1, <2>3, <2>4, PolicyKept DEF Stages
<1>11. CASE StoreFails
  BY <1>1, <1>11, LaterStage, PolicyKept DEF StoreFails, Stages
<1>12. CASE RouteFlag
  <2>1. task'.stage = "done" /\ UNCHANGED policyVars /\ UNCHANGED clock
    BY <1>12, LaterStage DEF RouteFlag
  <2>2. PICK routed \in BOOLEAN : rows' = [rows EXCEPT !.routed = task.flag.raised /\ routed]
    BY <1>12 DEF RouteFlag
  <2>3. rows'.tier = rows.tier /\ rows'.incident = rows.incident /\ rows'.routed = (task.flag.raised /\ routed)
    BY <1>2, <2>2
  <2> QED BY <1>1, <2>1, <2>3, PolicyKept DEF Stages
<1>13. CASE NextRun
  <2>1. task' = Idle /\ rows' = NoRows /\ UNCHANGED policyVars /\ UNCHANGED clock
    BY <1>13 DEF NextRun
  <2>2. task'.stage = "idle" /\ rows'.tier = "none" /\ rows'.incident = FALSE /\ rows'.routed = FALSE
    BY <2>1 DEF Idle, NoRows
  <2> QED BY <2>1, <2>2, PolicyKept DEF Stages
<1>14. ASSUME NEW body \in Bodies, update_sampler(body) PROVE PolicyInv'
  <2>1. /\ updates < MaxUpdates /\ _validate(Merged(body)) /\ settings' = Merged(body)
        /\ counter' = 0 /\ lastAudit' = 0 /\ era' = <<>> /\ updates' = updates + 1
        /\ clock' = clock /\ task' = task /\ rows' = rows /\ decisions' = decisions
    BY <1>14 DEF update_sampler
  <2>2. settings' \in Settings /\ settings'.interval_seconds <= Epoch
    BY <2>1, MergedRight DEF PolicyInv, PolicyTypes
  <2>3. counter' \in 0..MaxDecisions /\ counter' <= decisions' /\ lastAudit' \in 0..clock' /\ updates' \in 0..MaxUpdates
    BY <2>1, BoundsAssumption DEF PolicyInv, PolicyTypes
  <2>4. era' \in Seq([tier : Tiers, at : Epoch..(Epoch + MaxTicks)]) /\ 1..Len(era') = {}
    BY <2>1
  <2>5. PolicyTypes'
    BY <2>1, <2>2, <2>3, <2>4 DEF PolicyInv, PolicyTypes
  <2> QED BY <2>1, <2>2, <2>3, <2>4, <2>5 DEF PolicyInv
<1>15. CASE Tick
  <2>1. clock' = clock + 1 /\ clock < Epoch + MaxTicks /\ UNCHANGED policyVars /\ task' = task /\ rows' = rows
    BY <1>15 DEF Tick
  <2>2. clock \in Epoch..(Epoch + MaxTicks) /\ lastAudit \in 0..clock
    BY DEF PolicyInv, PolicyTypes
  <2>3. clock' \in Epoch..(Epoch + MaxTicks) /\ lastAudit \in 0..clock'
    BY <2>1, <2>2, BoundsAssumption
  <2>4. ASSUME NEW j \in 1..Len(era) PROVE era[j].at <= clock'
    <3> DEFINE D == [tier : Tiers, at : Epoch..(Epoch + MaxTicks)]
    <3>0. era \in Seq(D)
      BY DEF PolicyInv, PolicyTypes
    <3>1. era[j] \in D
      <4> HIDE DEF D
      <4> QED BY <3>0
    <3>2. era[j].at \in Int /\ era[j].at <= clock
      BY <3>1, BoundsAssumption DEF PolicyInv
    <3> QED BY <2>1, <2>2, <3>2, BoundsAssumption
  <2>5. PolicyTypes'
    BY <2>1, <2>3 DEF PolicyInv, PolicyTypes, policyVars
  <2> QED BY <2>1, <2>3, <2>4, <2>5 DEF PolicyInv, policyVars
<1>16. CASE UNCHANGED pipelineVars
  BY <1>16 DEF PolicyInv, PolicyTypes, pipelineVars
<1>17. CASE PipelineNext
  BY <1>17, <1>3, <1>4, <1>5, <1>6, <1>7, <1>8, <1>9, <1>10, <1>11, <1>12, <1>13, <1>14, <1>15 DEF PipelineNext
<1> QED BY <1>16, <1>17 DEF Next, vars

\* The settings from the environment are valid, and nothing is decided.
LEMMA PolicyStart == Init => PolicyInv
<1> SUFFICES ASSUME Init PROVE PolicyInv
  OBVIOUS
<1>1. PICK mode \in Modes, rate \in EnvRates : settings = [Defaults EXCEPT !.mode = mode, !.rate = rate]
  BY DEF Init, PipelineInit
<1>2. settings \in Settings /\ settings.interval_seconds <= Epoch
  BY <1>1, SettingsAssumption DEF Settings
<1>3. /\ counter = 0 /\ lastAudit = 0 /\ clock = Epoch /\ task = Idle /\ rows = NoRows
      /\ era = <<>> /\ updates = 0 /\ decisions = 0
  BY DEF Init, PipelineInit
<1>4. task.stage = "idle" /\ rows.tier = "none" /\ rows.incident = FALSE /\ rows.routed = FALSE
  BY <1>3 DEF Idle, NoRows
<1>5. era \in Seq([tier : Tiers, at : Epoch..(Epoch + MaxTicks)]) /\ 1..Len(era) = {}
  BY <1>3
<1>6. /\ counter \in 0..MaxDecisions /\ lastAudit \in 0..clock /\ clock \in Epoch..(Epoch + MaxTicks)
      /\ updates \in 0..MaxUpdates /\ decisions \in 0..MaxDecisions
  BY <1>3, BoundsAssumption
<1>7. PolicyTypes
  BY <1>2, <1>4, <1>5, <1>6 DEF PolicyTypes, Stages
<1> QED BY <1>2, <1>3, <1>4, <1>5, <1>7 DEF PolicyInv

\* The policy's state keeps its types in every reachable state.
LEMMA AlwaysPolicyInv == Spec => []PolicyInv
<1> QED BY PolicyStart, PolicyStep, AlwaysVerdictInv, PTL DEF Spec
-----------------------------------------------------------------------------
(* What the hard triggers make of the signals. *)

\* For traces of any length: the one pass of compute_run_signals finds what the trace as a whole shows,
\* but for the points of egress when all of it is hidden in sendto and DNS events.
THEOREM SignalsAreRight == Spec => []SignalsMatchTrace
<1>1. ASSUME LoadedRight PROVE SignalsMatchTrace
  <2> SUFFICES ASSUME task.stage = "loaded"
               PROVE  /\ compute_run_signals(task.trace).cheap_risk_score = ShownRisk(task.trace)
                      /\ compute_run_signals(task.trace).touched_sensitive_data <=> TraceSensitive(task.trace)
    BY DEF SignalsMatchTrace, ShownRisk, EgressShown
  <2>1. task.trace \in Traces
    BY <1>1 DEF LoadedRight
  <2>2. CASE TraceSensitive(task.trace)
    BY <2>1, <2>2, SignalsRight DEF Signals
  <2>3. CASE ~TraceSensitive(task.trace)
    BY <2>1, <2>3, SignalsRight DEF Signals
  <2> QED BY <2>2, <2>3
<1> QED BY <1>1, AlwaysLoadedRight, PTL

\* decide's L1 triggers are what the trace shows of what must be audited.
LEMMA TriggerIsShown ==
    ASSUME NEW trace \in Traces
    PROVE  HardTrigger(compute_run_signals(trace)) <=>
               TraceSensitive(trace) \/ ShownRisk(trace) >= settings.critical_risk_threshold
<1>1. CASE TraceSensitive(trace)
  <2>1. compute_run_signals(trace).touched_sensitive_data /\ ~compute_run_signals(trace).in_allowlisted_path
    BY <1>1, SignalsRight DEF Signals
  <2> QED BY <1>1, <2>1 DEF HardTrigger
<1>2. CASE ~TraceSensitive(trace)
  <2> PICK signals : signals = compute_run_signals(trace)
    OBVIOUS
  <2>1. /\ ~signals.channel_divergence /\ signals.cheap_risk_score = ShownRisk(trace)
        /\ ~signals.touched_sensitive_data /\ signals.tenant_recent_incident_count = 0
    BY <1>2, SignalsRight DEF Signals
  <2> QED BY <1>2, <2>1 DEF HardTrigger
<1> QED BY <1>1, <1>2

\* The decision about a loaded run follows the trigger of its signals.
Triggered == HardTrigger(compute_run_signals(task.trace))
TierRight == task'.tier = "L1" <=> settings.mode # "never" /\ Triggered

\* Whatever the mode, the threshold and the changes to them: a run that touched something sensitive, or
\* whose risk reaches the threshold in force at the decision, is audited as L1 unless its egress is
\* hidden, and no other run is (decide).
THEOREM TriggersAreAudited == Spec => HardTriggersAudited
<1>1. ASSUME LoadedRight, PolicyTypes, [Next]_vars
      PROVE  [ task.stage = "loaded" /\ task'.stage = "decided" =>
                /\ task'.tier = "L1" => settings.mode # "never" /\ MustAudit(task.trace)
                /\ settings.mode # "never" /\ MustAudit(task.trace) /\ ~HiddenEgress(task.trace)
                      => task'.tier = "L1" ]_pipelineVars
  <2> SUFFICES ASSUME task.stage = "loaded", task'.stage = "decided"
               PROVE  /\ task'.tier = "L1" => settings.mode # "never" /\ MustAudit(task.trace)
                      /\ settings.mode # "never" /\ MustAudit(task.trace) /\ ~HiddenEgress(task.trace)
                            => task'.tier = "L1"
    OBVIOUS
  <2>1. Triggered <=> TraceSensitive(task.trace) \/ ShownRisk(task.trace) >= settings.critical_risk_threshold
    BY <1>1, TriggerIsShown DEF LoadedRight, Triggered
  <2>2. ASSUME DecideForced PROVE TierRight
    <3> DEFINE tier == IF settings.mode = "never" THEN "NONE" ELSE IF Triggered THEN "L1" ELSE "L2"
    <3>1. Decided(tier)
      BY <2>2 DEF DecideForced, Triggered
    <3>2. task'.tier = tier
      BY <3>1 DEF Decided
    <3>3. tier = "L1" <=> settings.mode # "never" /\ Triggered
      OBVIOUS
    <3> QED BY <3>2, <3>3 DEF TierRight
  <2>3. ASSUME NEW mode, Unforced(mode), NEW tier, tier # "L1", Decided(tier)
        PROVE  TierRight
    BY <2>3 DEF Unforced, Decided, TierRight, Triggered
  <2>4. ASSUME DecideEveryNth PROVE TierRight
    BY <2>3, <2>4 DEF DecideEveryNth
  <2>5. ASSUME DecideInterval PROVE TierRight
    BY <2>3, <2>5 DEF DecideInterval
  <2>6. ASSUME \E bucket \in 0..(Buckets - 1) : DecidePercentage(bucket) PROVE TierRight
    BY <2>3, <2>6 DEF DecidePercentage
  <2>7. task' # task
    OBVIOUS
  <2>8. TierRight
    BY <1>1, <2>2, <2>4, <2>5, <2>6, <2>7
       DEF Next, vars, pipelineVars, PipelineNext, LoadTrace, Idle, PersistDecision, AnalyzeTrace, StoreRunResult,
           StoreFails, RouteFlag, NextRun, update_sampler, Tick
  <2>9. settings.critical_risk_threshold \in 0..100
    BY <1>1 DEF PolicyTypes, Settings
  <2>10. Triggered => MustAudit(task.trace)
    BY <2>1, <2>9, ShownIsLess DEF MustAudit
  <2>11. MustAudit(task.trace) /\ ~HiddenEgress(task.trace) => Triggered
    BY <2>1, ShownIsLess DEF MustAudit
  <2> QED BY <2>8, <2>10, <2>11 DEF TierRight
<1>2. PolicyInv => PolicyTypes
  BY DEF PolicyInv
<1> QED BY <1>1, <1>2, AlwaysLoadedRight, AlwaysPolicyInv, PTL DEF Spec, HardTriggersAudited
-----------------------------------------------------------------------------
(* The modes, one by one. *)

\* Counting on by one: the quotient grows exactly where the remainder is zero.
LEMMA NextQuotient ==
    ASSUME NEW c \in Nat, NEW n \in Nat \ {0}
    PROVE  (c + 1) \div n = (c \div n) + (IF (c + 1) % n = 0 THEN 1 ELSE 0)
<1> PICK q : q = c \div n
  OBVIOUS
<1> PICK r : r = c % n
  OBVIOUS
<1> PICK p : p = (c + 1) \div n
  OBVIOUS
<1> PICK t : t = (c + 1) % n
  OBVIOUS
<1>1. /\ q \in Int /\ r \in Int /\ p \in Int /\ t \in Int
      /\ 0 <= r /\ r < n /\ 0 <= t /\ t < n
      /\ c = n * q + r /\ c + 1 = n * p + t
  OBVIOUS
<1>2. PICK d \in Int : d = p - q
  BY <1>1
<1>3. n * p = n * q + n * d
  BY <1>1, <1>2
<1>4. PICK m \in Int : m = n * d
  BY <1>2
<1>5. m = r + 1 - t
  BY <1>1, <1>3, <1>4
<1>6. d >= 2 => m >= 2 * n
  BY <1>2, <1>4
<1>7. d <= -1 => m <= -n
  BY <1>2, <1>4
<1>8. /\ d = 0 => m = 0
      /\ d = 1 => m = n
  BY <1>4
<1>9. CASE t = 0
  <2>1. d = 1
    BY <1>1, <1>2, <1>5, <1>6, <1>7, <1>8, <1>9
  <2> QED BY <1>1, <1>2, <1>9, <2>1
<1>10. CASE t # 0
  <2>1. d = 0
    BY <1>1, <1>2, <1>5, <1>6, <1>7, <1>8, <1>10
  <2> QED BY <1>1, <1>2, <1>10, <2>1
<1> QED BY <1>9, <1>10

\* The counts of a prefix of the era are numbers.
LEMMA PrefixFinite ==
    ASSUME NEW k \in Nat
    PROVE  /\ IsFiniteSet(Discretionary(k)) /\ IsFiniteSet(Sampled(k))
           /\ Cardinality(Discretionary(k)) \in Nat /\ Cardinality(Sampled(k)) \in Nat
           /\ k + 1 \notin Discretionary(k) /\ k + 1 \notin Sampled(k)
<1>1. IsFiniteSet(1..k)
  BY FS_Interval
<1>2. Discretionary(k) \subseteq 1..k /\ Sampled(k) \subseteq 1..k
  BY DEF Discretionary, Sampled
<1>3. IsFiniteSet(Discretionary(k)) /\ IsFiniteSet(Sampled(k))
  BY <1>1, <1>2, FS_Subset
<1>4. k + 1 \notin 1..k
  OBVIOUS
<1> QED BY <1>2, <1>3, <1>4, FS_CardinalityType

\* A decision leaves the counts of the prefixes before it, and adds itself.
LEMMA PrefixGrows ==
    ASSUME PolicyInv, NEW tier \in Tiers, Decided(tier), NEW n, n = Len(era)
    PROVE  /\ \A k \in 0..n : Discretionary(k)' = Discretionary(k) /\ Sampled(k)' = Sampled(k)
           /\ Discretionary(n + 1)' = IF tier = "L1" THEN Discretionary(n) ELSE Discretionary(n) \cup {n + 1}
           /\ Sampled(n + 1)' = IF tier = "L2" THEN Sampled(n) \cup {n + 1} ELSE Sampled(n)
<1>1. n \in Nat /\ (\A j \in 1..n : era'[j] = era[j]) /\ era'[n + 1].tier = tier
  BY EraGrows
<1>2. ASSUME NEW k \in 0..n PROVE Discretionary(k)' = Discretionary(k) /\ Sampled(k)' = Sampled(k)
  <2>1. \A i \in 1..k : i \in 1..n
    BY <1>1
  <2> QED BY <1>1, <2>1 DEF Discretionary, Sampled
<1>3. \A i : i \in 1..(n + 1) <=> i \in 1..n \/ i = n + 1
  BY <1>1
<1>4. Discretionary(n + 1)' = IF tier = "L1" THEN Discretionary(n) ELSE Discretionary(n) \cup {n + 1}
  BY <1>1, <1>3 DEF Discretionary
<1>5. Sampled(n + 1)' = IF tier = "L2" THEN Sampled(n) \cup {n + 1} ELSE Sampled(n)
  BY <1>1, <1>3 DEF Sampled
<1> QED BY <1>2, <1>4, <1>5

\* Mode every_nth: the counter is the number of decisions that were the mode's to make.
NthInv ==
    settings.mode = "every_nth" =>
        /\ counter = Cardinality(Discretionary(Len(era)))
        /\ Cardinality(Sampled(Len(era))) = Cardinality(Discretionary(Len(era))) \div settings.every_n

\* A decision in mode every_nth.
LEMMA NthDecided ==
    ASSUME PolicyInv, EveryNthExact, NthInv, settings.mode = "every_nth", NEW tier \in Tiers, Decided(tier),
           \/ tier = "L1" /\ counter' = counter
           \/ tier = (IF counter' % settings.every_n = 0 THEN "L2" ELSE "NONE") /\ counter' = counter + 1
    PROVE  EveryNthExact' /\ NthInv'
<1> PICK n : n = Len(era)
  OBVIOUS
<1> PICK m : m = settings.every_n
  OBVIOUS
<1>1. n \in Nat /\ Len(era') = n + 1 /\ settings' = settings /\ n \in 0..n /\ m \in Nat \ {0}
  BY EraGrows DEF Decided, PolicyInv, PolicyTypes, Settings
<1>2. PICK d : d = Discretionary(n)
  OBVIOUS
<1>3. PICK s : s = Sampled(n)
  OBVIOUS
<1>4. /\ IsFiniteSet(d) /\ IsFiniteSet(s) /\ Cardinality(d) \in Nat /\ Cardinality(s) \in Nat
      /\ n + 1 \notin d /\ n + 1 \notin s
  BY <1>1, <1>2, <1>3, PrefixFinite
<1>5. counter = Cardinality(d) /\ Cardinality(s) = Cardinality(d) \div m
  BY <1>2, <1>3 DEF NthInv
<1>6. /\ \A k \in 0..n : Discretionary(k)' = Discretionary(k) /\ Sampled(k)' = Sampled(k)
      /\ Discretionary(n + 1)' = IF tier = "L1" THEN d ELSE d \cup {n + 1}
      /\ Sampled(n + 1)' = IF tier = "L2" THEN s \cup {n + 1} ELSE s
  BY <1>2, <1>3, PrefixGrows
<1>7. Cardinality(d \cup {n + 1}) = Cardinality(d) + 1 /\ Cardinality(s \cup {n + 1}) = Cardinality(s) + 1
  BY <1>4, FS_AddElement
<1>8. /\ counter' = Cardinality(Discretionary(n + 1)')
      /\ Cardinality(Sampled(n + 1)') = Cardinality(Discretionary(n + 1)') \div m
  <2>1. CASE tier = "L1"
    BY <1>5, <1>6, <2>1
  <2>2. CASE tier # "L1"
    <3>1. counter' = Cardinality(d) + 1 /\ Discretionary(n + 1)' = d \cup {n + 1}
      BY <1>5, <1>6, <2>2
    <3>2. (Cardinality(d) + 1) \div m
            = (Cardinality(d) \div m) + (IF (Cardinality(d) + 1) % m = 0 THEN 1 ELSE 0)
      BY <1>1, <1>4, NextQuotient
    <3>3. CASE (Cardinality(d) + 1) % m = 0
      <4>1. Sampled(n + 1)' = s \cup {n + 1}
        BY <1>6, <2>2, <3>1, <3>3
      <4>2. (Cardinality(d) + 1) \div m = Cardinality(s) + 1
        BY <1>5, <3>2, <3>3
      <4> QED BY <1>7, <3>1, <4>1, <4>2
    <3>4. CASE (Cardinality(d) + 1) % m # 0
      <4>1. Sampled(n + 1)' = s
        BY <1>6, <2>2, <3>1, <3>4
      <4>2. (Cardinality(d) + 1) \div m = Cardinality(s)
        BY <1>4, <1>5, <3>2, <3>4
      <4> QED BY <1>7, <3>1, <4>1, <4>2
    <3> QED BY <3>3, <3>4
  <2> QED BY <2>1, <2>2
<1>9. NthInv'
  BY <1>1, <1>8 DEF NthInv
<1>10. ASSUME NEW k \in DOMAIN era'
       PROVE  Cardinality(Sampled(k)') = Cardinality(Discretionary(k)') \div m
  <2>1. DOMAIN era' = 1..(n + 1) /\ DOMAIN era = 1..n
    BY <1>1, EraGrows DEF PolicyInv, PolicyTypes
  <2>2. CASE k = n + 1
    BY <1>8, <2>2
  <2>3. CASE k \in 1..n
    <3>0. k \in 0..n
      BY <1>1, <2>3
    <3>1. Sampled(k)' = Sampled(k) /\ Discretionary(k)' = Discretionary(k)
      BY <1>6, <3>0
    <3>2. Cardinality(Sampled(k)) = Cardinality(Discretionary(k)) \div m
      BY <2>1, <2>3 DEF EveryNthExact
    <3> QED BY <3>1, <3>2
  <2> QED BY <1>1, <2>1, <2>2, <2>3
<1>11. EveryNthExact'
  BY <1>1, <1>10 DEF EveryNthExact
<1> QED BY <1>9, <1>11
\* Mode interval: the last audit is the latest of the mode's, and none is later.
LastInv ==
    settings.mode = "interval" =>
        /\ \A i \in Sampled(Len(era)) : era[i].at <= lastAudit
        /\ \/ Sampled(Len(era)) = {} /\ lastAudit = 0
           \/ \E i \in Sampled(Len(era)) : era[i].at = lastAudit

\* A decision in mode interval.
LEMMA ThrottleDecided ==
    ASSUME PolicyInv, ThrottleHolds, LastInv, settings.mode = "interval", NEW tier \in Tiers, Decided(tier),
           \/ tier = "L1" /\ lastAudit' = lastAudit
           \/ /\ tier = IF clock - lastAudit >= settings.interval_seconds THEN "L2" ELSE "NONE"
              /\ lastAudit' = IF clock - lastAudit >= settings.interval_seconds THEN clock ELSE lastAudit
    PROVE  ThrottleHolds' /\ LastInv'
<1> PICK n : n = Len(era)
  OBVIOUS
<1> PICK w : w = settings.interval_seconds
  OBVIOUS
<1> PICK s : s = Sampled(n)
  OBVIOUS
<1> DEFINE D == [tier : Tiers, at : Epoch..(Epoch + MaxTicks)]
<1>1. /\ n \in Nat /\ Len(era') = n + 1 /\ settings' = settings /\ n \in 0..n
      /\ \A j \in 1..n : era'[j] = era[j]
      /\ era'[n + 1].tier = tier /\ era'[n + 1].at = clock
  BY EraGrows DEF Decided
<1>2. /\ w \in Int /\ w <= Epoch /\ Epoch \in Int
      /\ clock \in Int /\ lastAudit \in Int /\ Epoch <= clock /\ lastAudit <= clock
  BY BoundsAssumption DEF PolicyInv, PolicyTypes, Settings
<1>3. \A j \in 1..n : era[j].at \in Int /\ era[j].at <= clock
  <2> SUFFICES ASSUME NEW j \in 1..n PROVE era[j].at \in Int /\ era[j].at <= clock
    OBVIOUS
  <2>1. era \in Seq(D)
    BY DEF PolicyInv, PolicyTypes
  <2>2. era[j] \in D
    <3> HIDE DEF D
    <3> QED BY <2>1
  <2> QED BY <2>2, BoundsAssumption DEF PolicyInv
<1>4. /\ \A k \in 0..n : Discretionary(k)' = Discretionary(k) /\ Sampled(k)' = Sampled(k)
      /\ Discretionary(n + 1)' = IF tier = "L1" THEN Discretionary(n) ELSE Discretionary(n) \cup {n + 1}
      /\ Sampled(n + 1)' = IF tier = "L2" THEN s \cup {n + 1} ELSE s
  BY PrefixGrows
<1>5. /\ \A i \in s : i \in 1..n /\ era[i].at <= lastAudit
      /\ (s = {} /\ lastAudit = 0) \/ \E i \in s : era[i].at = lastAudit
  BY DEF LastInv, Sampled
<1>6. clock - lastAudit >= w <=> \A i \in s : clock - era[i].at >= w
  BY <1>2, <1>3, <1>5
<1>7. ASSUME NEW j \in Discretionary(n + 1)'
      PROVE  era'[j].tier = "L2" <=> \A i \in Sampled(j - 1)' : era'[j].at - era'[i].at >= w
  <2>1. CASE j \in Discretionary(n)
    <3>1. j \in 1..n /\ j - 1 \in 0..n
      BY <1>1, <2>1 DEF Discretionary
    <3>2. Sampled(j - 1)' = Sampled(j - 1)
      BY <1>4, <3>1
    <3>3. \A i \in Sampled(j - 1) : i \in 1..n
      BY <3>1 DEF Sampled
    <3>4. era[j].tier = "L2" <=> \A i \in Sampled(j - 1) : era[j].at - era[i].at >= w
      BY <2>1 DEF ThrottleHolds
    <3> QED BY <1>1, <3>1, <3>2, <3>3, <3>4
  <2>2. CASE j \notin Discretionary(n)
    <3>1. j = n + 1 /\ tier # "L1"
      BY <1>4, <1>7, <2>2
    <3>2. j - 1 = n /\ Sampled(j - 1)' = s
      BY <1>1, <1>4, <3>1
    <3>3. tier = "L2" <=> \A i \in s : clock - era[i].at >= w
      BY <1>6, <3>1
    <3> QED BY <1>1, <1>5, <3>1, <3>2, <3>3
  <2> QED BY <2>1, <2>2
<1>8. ThrottleHolds'
  BY <1>1, <1>7 DEF ThrottleHolds
<1>9. LastInv'
  <2> PICK t : t = Sampled(n + 1)'
    OBVIOUS
  <2>1. CASE tier = "L2"
    <3>1. t = s \cup {n + 1} /\ lastAudit' = clock
      BY <1>4, <2>1
    <3>2. \A i \in t : era'[i].at <= clock
      BY <1>1, <1>2, <1>3, <1>5, <3>1
    <3>3. \E i \in t : era'[i].at = clock
      BY <1>1, <3>1
    <3> QED BY <1>1, <3>1, <3>2, <3>3 DEF LastInv
  <2>2. CASE tier # "L2"
    <3>1. t = s /\ lastAudit' = lastAudit
      BY <1>4, <2>2
    <3>2. /\ \A i \in t : era'[i].at <= lastAudit
          /\ (t = {} /\ lastAudit = 0) \/ \E i \in t : era'[i].at = lastAudit
      BY <1>1, <1>5, <3>1
    <3> QED BY <1>1, <3>1, <3>2 DEF LastInv
  <2> QED BY <2>1, <2>2
<1> QED BY <1>8, <1>9

ModesInv == EveryNthExact /\ NthInv /\ ThrottleHolds /\ LastInv

Fresh == settings \in Settings /\ era = <<>> /\ counter = 0 /\ lastAudit = 0

\* With no decision made yet the modes have nothing to answer for.
LEMMA EmptyEra == Fresh => ModesInv
<1> SUFFICES ASSUME Fresh PROVE ModesInv
  OBVIOUS
<1> USE DEF Fresh
<1>1. Len(era) = 0 /\ DOMAIN era = {} /\ 1..0 = {}
  OBVIOUS
<1>2. Discretionary(0) = {} /\ Sampled(0) = {}
  BY <1>1 DEF Discretionary, Sampled
<1>3. 0 = 0 \div settings.every_n
  BY DEF Settings
<1> QED BY <1>1, <1>2, <1>3, FS_EmptySet DEF ModesInv, EveryNthExact, NthInv, ThrottleHolds, LastInv

\* Every step keeps the promises of the modes.
LEMMA ModesStep == ModesInv /\ PolicyInv /\ PolicyInv' /\ [Next]_vars => ModesInv'
<1> SUFFICES ASSUME ModesInv, PolicyInv, PolicyInv', [Next]_vars PROVE ModesInv'
  OBVIOUS
<1>1. CASE DecideForced
  <2> DEFINE hard == HardTrigger(compute_run_signals(task.trace))
             tier == IF settings.mode = "never" THEN "NONE" ELSE IF hard THEN "L1" ELSE "L2"
  <2>1. tier \in Tiers
    BY DEF Tiers
  <2>2. Decided(tier) /\ counter' = counter /\ lastAudit' = lastAudit /\ settings' = settings
    BY <1>1 DEF DecideForced, Decided
  <2>3. settings.mode \in {"every_nth", "interval"} => tier = "L1"
    BY <1>1 DEF DecideForced
  <2> HIDE DEF tier
  <2>4. settings.mode = "every_nth" => EveryNthExact' /\ NthInv'
    BY <2>1, <2>2, <2>3, NthDecided DEF ModesInv
  <2>5. settings.mode = "interval" => ThrottleHolds' /\ LastInv'
    BY <2>1, <2>2, <2>3, ThrottleDecided DEF ModesInv
  <2> QED BY <2>2, <2>4, <2>5 DEF ModesInv, EveryNthExact, NthInv, ThrottleHolds, LastInv
<1>2. CASE DecideEveryNth
  <2> DEFINE tier == IF counter' % settings.every_n = 0 THEN "L2" ELSE "NONE"
  <2>1. tier \in Tiers
    BY DEF Tiers
  <2>2. Decided(tier) /\ counter' = counter + 1 /\ settings' = settings /\ settings.mode = "every_nth"
    BY <1>2 DEF DecideEveryNth, Decided, Unforced
  <2>3. EveryNthExact' /\ NthInv'
    BY <2>1, <2>2, NthDecided DEF ModesInv
  <2> QED BY <2>2, <2>3 DEF ModesInv, ThrottleHolds, LastInv
<1>3. CASE DecideInterval
  <2> DEFINE tier == IF clock - lastAudit >= settings.interval_seconds THEN "L2" ELSE "NONE"
  <2>1. tier \in Tiers
    BY DEF Tiers
  <2>2. /\ Decided(tier) /\ settings' = settings /\ settings.mode = "interval"
        /\ lastAudit' = IF clock - lastAudit >= settings.interval_seconds THEN clock ELSE lastAudit
    BY <1>3 DEF DecideInterval, Decided, Unforced
  <2>3. ThrottleHolds' /\ LastInv'
    BY <2>1, <2>2, ThrottleDecided DEF ModesInv
  <2> QED BY <2>2, <2>3 DEF ModesInv, EveryNthExact, NthInv
<1>4. ASSUME NEW bucket, DecidePercentage(bucket) PROVE ModesInv'
  <2>1. settings' = settings /\ settings.mode = "percentage"
    BY <1>4 DEF DecidePercentage, Decided, Unforced
  <2> QED BY <2>1 DEF ModesInv, EveryNthExact, NthInv, ThrottleHolds, LastInv
<1>5. ASSUME NEW body \in Bodies, update_sampler(body) PROVE ModesInv'
  <2>1. Fresh'
    BY <1>5 DEF update_sampler, PolicyInv, PolicyTypes, Fresh
  <2> QED BY <2>1, EmptyEra, PTL
<1>6. CASE UNCHANGED policyVars
  <2>1. settings' = settings /\ era' = era /\ counter' = counter /\ lastAudit' = lastAudit
    BY <1>6 DEF policyVars
  <2> QED BY <2>1 DEF ModesInv, EveryNthExact, NthInv, ThrottleHolds, LastInv, Discretionary, Sampled
<1>7. CASE PipelineNext
  BY <1>1, <1>2, <1>3, <1>4, <1>5, <1>6, <1>7
  DEF PipelineNext, LoadTrace, PersistDecision, AnalyzeTrace, StoreRunResult, StoreFails, RouteFlag, NextRun, Tick
<1> QED BY <1>6, <1>7 DEF Next, vars, pipelineVars, policyVars

\* For any settings, changes of them, clock and runs in between that are forced: mode every_nth audits
\* exactly the n-th, 2n-th, ... of the runs that are its to decide, and mode interval skips a run only
\* within an interval of an audit of its own (decide).
THEOREM ModesAreExact == Spec => []ModesExact
<1>1. Init => ModesInv
  <2> SUFFICES ASSUME Init PROVE ModesInv
    OBVIOUS
  <2>1. settings \in Settings
    BY PolicyStart DEF PolicyInv, PolicyTypes
  <2> QED BY <2>1, EmptyEra DEF Init, PipelineInit, Fresh
<1>2. PolicyInv /\ ModesInv => ModesExact
  BY DEF PolicyInv, ModesInv, ModesExact
<1> QED BY <1>1, <1>2, ModesStep, AlwaysPolicyInv, PTL DEF Spec
==============================================================================
