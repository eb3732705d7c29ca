----------------------------- MODULE AuditPipeline -----------------------------
(***************************************************************************)
(* The audit of a finished run: load its trace, compute the cheap signals, *)
(* let the runtime sampling policy decide, record the decision, run the    *)
(* detectors, aggregate their verdicts into a flag, store the result with  *)
(* the incident it calls for, and route the flag.                          *)
(*                                                                         *)
(* Audits share only the sampling policy, and decide() has no await: one   *)
(* audit at a time, with changes of the settings between any two of its    *)
(* steps, shows every order of decisions and changes.  NextRun turns to    *)
(* the next run, whose rows are empty.  What a detector answers and what   *)
(* the hashes select are choices.  The shadow store is left out: nothing   *)
(* here reads it, and failing writes to it are ignored.                    *)
(***************************************************************************)
EXTENDS RiskSignals, Verdicts

CONSTANTS
    Traces,             \* the traces a run may have
    Defaults,           \* the settings of SamplerSettings (every_n and the rest scaled down)
    EnvRates,           \* the rates SAMPLER_RATE may give, clamped
    Bodies,             \* the bodies of PUT /admin/sampler
    Buckets,            \* number of hash buckets (10000 in the code); rates are in buckets
    Epoch,              \* the clock's first value; "never audited" is 0, an interval or more before it
    MaxTicks,           \* bound: clock ticks
    MaxDecisions,       \* bound: decisions
    MaxUpdates,         \* bound: accepted changes of the settings
    Detectors,          \* the registered detectors
    JudgeDetectors,     \* those in _JUDGE_DETECTORS
    CriticalDetectors,  \* those whose category is in _CRITICAL_CATEGORIES
    Answers,            \* the sets of findings a detector may return
    Routings            \* lifecycle states of the detectors, as state_for gives them

Modes == {"percentage", "every_nth", "interval", "always", "never"}
Tiers == {"L1", "L2", "NONE"}

ASSUME BoundsAssumption ==
    /\ Buckets \in Nat \ {0} /\ Epoch \in Nat
    /\ MaxTicks \in Nat /\ MaxDecisions \in Nat /\ MaxUpdates \in Nat

Settings == [mode : Modes, rate : 0..Buckets, every_n : Nat \ {0}, interval_seconds : Nat \ {0},
             critical_risk_threshold : 0..100]

\* The defaults are valid, SamplerUpdate is typed, and no interval goes back beyond the clock's zero.
ASSUME SettingsAssumption ==
    /\ Defaults \in Settings /\ EnvRates \subseteq 0..Buckets
    /\ \A body \in Bodies : \A f \in DOMAIN body \cap {"every_n", "interval_seconds"} : body[f] \in Int
    /\ \A s \in {Defaults} \cup {b \in Bodies : "interval_seconds" \in DOMAIN b} : s.interval_seconds <= Epoch

ASSUME DataAssumption ==
    /\ \A trace \in Traces : Len(trace) \in Nat /\ DOMAIN trace = 1..Len(trace)
    /\ \A findings \in Answers : \A f \in findings : f.result \in Results

VARIABLES
    settings,   \* runtime_policy._settings
    counter,    \* runtime_policy._counter
    lastAudit,  \* runtime_policy._last_audit_ts
    clock,      \* time.time()
    task,       \* the audit task: its stage and what it holds
    rows,       \* the rows of the run: sampler decision, verdicts, flag, incident; and its routing
    era,        \* observation: the decisions since the settings were last replaced
    updates,    \* accepted changes of the settings
    decisions   \* decisions made

policyVars == <<settings, counter, lastAudit, era, updates, decisions>>
pipelineVars == <<settings, counter, lastAudit, clock, task, rows, era, updates, decisions>>

Idle == [stage |-> "idle"]
NoRows == [tier |-> "none", verdicts |-> {}, flag |-> NoFlag, incident |-> FALSE, routed |-> FALSE]

-----------------------------------------------------------------------------
(* The runtime sampling policy. *)

\* _validate
_validate(s) ==
    /\ s.mode \in Modes
    /\ s.rate \in 0..Buckets
    /\ s.every_n >= 1
    /\ s.interval_seconds > 0
    /\ s.critical_risk_threshold \in 0..100

\* _initial_settings: the mode and the clamped rate may come from the environment.
PipelineInit ==
    /\ \E mode \in Modes, rate \in EnvRates :
            settings = [Defaults EXCEPT !.mode = mode, !.rate = rate]
    /\ counter = 0
    /\ lastAudit = 0
    /\ clock = Epoch
    /\ task = Idle
    /\ rows = NoRows
    /\ era = <<>>
    /\ updates = 0
    /\ decisions = 0

Merged(body) == [f \in DOMAIN settings |-> IF f \in DOMAIN body THEN body[f] ELSE settings[f]]

\* PUT /admin/sampler and set_settings; an update that does not validate is answered 400.
update_sampler(body) ==
    /\ updates < MaxUpdates
    /\ _validate(Merged(body))
    /\ settings' = Merged(body)
    /\ counter' = 0
    /\ lastAudit' = 0
    /\ era' = <<>>
    /\ updates' = updates + 1
    /\ UNCHANGED <<clock, task, rows, decisions>>

Tick ==
    /\ clock < Epoch + MaxTicks
    /\ clock' = clock + 1
    /\ UNCHANGED <<policyVars, task, rows>>

\* Mutated form: the threshold itself is not above the threshold.
HardTriggerAbove(signals) ==
    \/ signals.channel_divergence
    \/ signals.cheap_risk_score > settings.critical_risk_threshold
    \/ signals.touched_sensitive_data /\ ~signals.in_allowlisted_path
    \/ signals.tenant_recent_incident_count > 0

\* decide: the L1 triggers.
HardTrigger(signals) ==
    \/ signals.channel_divergence
    \/ signals.cheap_risk_score >= settings.critical_risk_threshold
    \/ signals.touched_sensitive_data /\ ~signals.in_allowlisted_path
    \/ signals.tenant_recent_incident_count > 0

\* decide: the share of the hash buckets that is sampled.
Stratified(bucket) == bucket < settings.rate

-----------------------------------------------------------------------------
(* The audit task. *)

\* load_trace; the run's events are complete.
LoadTrace(trace) ==
    /\ task = Idle
    /\ task' = [stage |-> "loaded", trace |-> trace]
    /\ UNCHANGED <<policyVars, clock, rows>>

Decided(tier) ==
    /\ task' = [stage |-> "decided", tier |-> tier]
    /\ era' = Append(era, [tier |-> tier, at |-> clock])
    /\ decisions' = decisions + 1
    /\ UNCHANGED <<settings, updates, clock, rows>>

Deciding ==
    /\ task.stage = "loaded"
    /\ decisions < MaxDecisions

\* decide, up to the hard triggers: mode never, then L1, then mode always.
DecideForced ==
    LET hard == HardTrigger(compute_run_signals(task.trace)) IN
    /\ Deciding
    /\ settings.mode \in {"never", "always"} \/ hard
    /\ Decided(IF settings.mode = "never" THEN "NONE" ELSE IF hard THEN "L1" ELSE "L2")
    /\ UNCHANGED <<counter, lastAudit>>

Unforced(mode) ==
    /\ Deciding
    /\ settings.mode = mode
    /\ ~HardTrigger(compute_run_signals(task.trace))

DecideEveryNth ==
    /\ Unforced("every_nth")
    /\ counter' = counter + 1
    /\ Decided(IF counter' % settings.every_n = 0 THEN "L2" ELSE "NONE")
    /\ UNCHANGED lastAudit

\* Mutated form: a skipped run starts the interval again.
DecideIntervalRestarts ==
    /\ Unforced("interval")
    /\ lastAudit' = clock
    /\ Decided(IF clock - lastAudit >= settings.interval_seconds THEN "L2" ELSE "NONE")
    /\ UNCHANGED counter

DecideInterval ==
    LET should_audit == clock - lastAudit >= settings.interval_seconds IN
    /\ Unforced("interval")
    /\ lastAudit' = IF should_audit THEN clock ELSE lastAudit
    /\ Decided(IF should_audit THEN "L2" ELSE "NONE")
    /\ UNCHANGED counter

DecidePercentage(bucket) ==
    /\ Unforced("percentage")
    /\ Decided(IF Stratified(bucket) THEN "L2" ELSE "NONE")
    /\ UNCHANGED <<counter, lastAudit>>

\* _persist_sampler_decision, which may fail without consequence; a run that is not sampled is done.
PersistDecision ==
    /\ task.stage = "decided"
    /\ \E tier \in {task.tier, rows.tier} : rows' = [rows EXCEPT !.tier = tier]
    /\ task' = [stage |-> IF task.tier = "NONE" THEN "skipped" ELSE "sampled"]
    /\ UNCHANGED <<policyVars, clock>>

SKIP_STATES == {"PROPOSED", "DISABLED", "DEPRECATED", "REMOVED"}
Runnable(routing) == {d \in Detectors : routing[d] \notin SKIP_STATES}

\* What a detector's run() ends in: an exception, or its findings.
Outcomes == {[raised |-> TRUE, findings |-> {}]} \cup {[raised |-> FALSE, findings |-> a] : a \in Answers}

VerdictBy(d, judge, finding) ==
    [by |-> d, judge |-> judge, critical |-> d \in CriticalDetectors,
     result |-> finding.result, confidence |-> finding.confidence, rubric |-> finding.rubric]

\* _crash_verdict names the detector's class, which is not in _JUDGE_DETECTORS.
CrashVerdict(d) == VerdictBy(d, FALSE, [result |-> "NEEDS_REVIEW", confidence |-> 0, rubric |-> "none"])

\* Mutated form: an exception counts as no finding.
VerdictsOfCrashSilent(d, outcome) ==
    {VerdictBy(d, d \in JudgeDetectors, f) : f \in outcome.findings}

VerdictsOf(d, outcome) ==
    IF outcome.raised THEN {CrashVerdict(d)}
    ELSE {VerdictBy(d, d \in JudgeDetectors, f) : f \in outcome.findings}

\* analyze_trace: whether the detector's verdicts go into the flag.  A crash does in every state.
Counts(d, routing, outcome, canary) ==
    \/ outcome.raised
    \/ routing[d] = "ENFORCING"
    \/ routing[d] = "CANARY" /\ d \in canary

\* analyze_trace: the detectors run together (gather), then their verdicts are sorted and aggregated.
\* is_canary_selected depends on detector and run only: canary is the set of detectors it selects.
AnalyzeTrace(routing) ==
    /\ task.stage = "sampled"
    /\ \E canary \in SUBSET {d \in Detectors : routing[d] = "CANARY"},
          outcome \in [Runnable(routing) -> Outcomes] :
            LET all == UNION {VerdictsOf(d, outcome[d]) : d \in Runnable(routing)}
                enforcing == UNION {VerdictsOf(d, outcome[d]) :
                                d \in {c \in Runnable(routing) : Counts(c, routing, outcome[c], canary)}}
            IN  task' = [stage |-> "analysed", routing |-> routing, canary |-> canary, outcome |-> outcome,
                         verdicts |-> all, flag |-> aggregate(enforcing)]
    /\ UNCHANGED <<policyVars, clock, rows>>

\* open_incident_for_flag
OpensIncident(flag) == flag.raised /\ flag.severity \in INCIDENT_SEVERITIES

\* store_run_result: verdicts, flag and incident in one transaction.
StoreRunResult ==
    /\ task.stage = "analysed"
    /\ rows' = [rows EXCEPT !.verdicts = task.verdicts, !.flag = task.flag,
                            !.incident = OpensIncident(task.flag)]
    /\ task' = [task EXCEPT !.stage = "stored"]
    /\ UNCHANGED <<policyVars, clock>>

\* The transaction fails: the exception ends the audit.
StoreFails ==
    /\ task.stage = "analysed"
    /\ task' = [task EXCEPT !.stage = "failed"]
    /\ UNCHANGED <<policyVars, clock, rows>>

\* audit_run and _route_flag, whose failures are only logged.
RouteFlag ==
    /\ task.stage = "stored"
    /\ \E routed \in BOOLEAN : rows' = [rows EXCEPT !.routed = task.flag.raised /\ routed]
    /\ task' = [task EXCEPT !.stage = "done"]
    /\ UNCHANGED <<policyVars, clock>>

\* The next run ends and is audited.
NextRun ==
    /\ task.stage \in {"skipped", "failed", "done"}
    /\ task' = Idle
    /\ rows' = NoRows
    /\ UNCHANGED <<policyVars, clock>>

PipelineNext ==
    \/ \E trace \in Traces : LoadTrace(trace)
    \/ DecideForced
    \/ DecideEveryNth
    \/ DecideInterval
    \/ \E bucket \in 0..(Buckets - 1) : DecidePercentage(bucket)
    \/ PersistDecision
    \/ \E routing \in Routings : AnalyzeTrace(routing)
    \/ StoreRunResult
    \/ StoreFails
    \/ RouteFlag
    \/ NextRun
    \/ \E body \in Bodies : update_sampler(body)
    \/ Tick

-----------------------------------------------------------------------------
(* Properties *)

Stages == {"idle", "loaded", "decided", "skipped", "sampled", "analysed", "stored", "failed", "done"}

\* The settings in force are always valid, whatever was sent to PUT /admin/sampler; the counter, the
\* throttle and the rows have their types.
PolicyTypes ==
    /\ settings \in Settings
    /\ counter \in 0..MaxDecisions
    /\ lastAudit \in 0..clock
    /\ clock \in Epoch..(Epoch + MaxTicks)
    /\ task.stage \in Stages
    /\ rows.tier \in Tiers \cup {"none"}
    /\ rows.incident \in BOOLEAN /\ rows.routed \in BOOLEAN
    /\ era \in Seq([tier : Tiers, at : Epoch..(Epoch + MaxTicks)])
    /\ updates \in 0..MaxUpdates /\ decisions \in 0..MaxDecisions

\* The single pass of compute_run_signals finds what the trace as a whole shows: the score is that of
\* the facts, wherever they are in the trace, with the leak of a secret being the only one that depends
\* on the order of the events.  It falls short in one case, by the points of egress: when all that left
\* the machine shows in sendto and DNS events only.
SignalsMatchTrace ==
    task.stage = "loaded" =>
        LET signals == compute_run_signals(task.trace)
            shown == TraceEgress(task.trace) /\ ~HiddenEgress(task.trace) IN
        /\ signals.cheap_risk_score = RiskOf(task.trace, shown)
        /\ signals.touched_sensitive_data <=> TraceSensitive(task.trace)

\* Two of the four reasons runtime_policy documents for an audit in every mode but "never": the run
\* touched something sensitive, or its risk reaches the threshold.  The other two, divergence of the
\* channels and recent incidents, are constants of the signals and are never the reason.
MustAudit(trace) == TraceSensitive(trace) \/ TraceRisk(trace) >= settings.critical_risk_threshold

\* A run that must be audited for what it touched or risked is, under every mode but "never" and by the
\* settings in force at the decision, not those at the time its trace was loaded, unless its egress is
\* hidden; and tier L1 is given for one of these two reasons only.
HardTriggersAudited ==
    [][ task.stage = "loaded" /\ task'.stage = "decided" =>
            /\ task'.tier = "L1" => settings.mode # "never" /\ MustAudit(task.trace)
            /\ settings.mode # "never" /\ MustAudit(task.trace) /\ ~HiddenEgress(task.trace)
                  => task'.tier = "L1" ]_pipelineVars

\* What runtime_policy documents of divergence: it calls for an audit in every mode but "never".  A run
\* that sends (its first seconds, the correlator's baseline, aside) and declares nothing diverges.
DivergenceAudited ==
    [][ task.stage = "loaded" /\ task'.stage = "decided" /\ settings.mode # "never" /\ Undeclared(task.trace)
            => task'.tier # "NONE" ]_pipelineVars

\* Of the first k decisions of this era, those that were the mode's to make, and its audits.
Discretionary(k) == {i \in 1..k : era[i].tier # "L1"}
Sampled(k) == {i \in 1..k : era[i].tier = "L2"}

\* Mode every_nth: of m runs without a hard trigger since the last change of the settings, m \div n were
\* audited; runs with a trigger in between do not shift the count.
EveryNthExact ==
    settings.mode = "every_nth" =>
        \A k \in DOMAIN era : Cardinality(Sampled(k)) = Cardinality(Discretionary(k)) \div settings.every_n

\* Mode interval: two audits of the mode are an interval or more apart, and a run is skipped only when
\* one of them was less than an interval before it.
ThrottleHolds ==
    settings.mode = "interval" =>
        \A j \in Discretionary(Len(era)) :
            era[j].tier = "L2" <=> \A i \in Sampled(j - 1) : era[j].at - era[i].at >= settings.interval_seconds

\* The detectors whose word counts for the run in hand, and what they said against it.
Voice(d) == task.routing[d] = "ENFORCING" \/ (task.routing[d] = "CANARY" /\ d \in task.canary)
Against(d) == \E f \in task.outcome[d].findings : f.result # "OK"

\* A stored run without a flag is one that every detector with a voice answered for: an exception is
\* never taken for a clean result.  And a flag has its reason in such a detector or in an exception,
\* never in what a shadow detector found.
SilenceIsVouched ==
    task.stage \in {"stored", "done"} =>
        (~rows.flag.raised <=>
            \A d \in DOMAIN task.outcome : ~task.outcome[d].raised /\ (Voice(d) => ~Against(d)))

\* The flag has the severity of its worst verdict: none is above it, one has it.  Its incident is
\* there exactly for high and critical, and commits with it.  A flag that is routed is one that is stored.
SeverityIsWorst ==
    /\ rows.flag.raised =>
        /\ \A v \in rows.flag.verdicts : ORDER[classify(v)] <= ORDER[rows.flag.severity]
        /\ \E v \in rows.flag.verdicts : classify(v) = rows.flag.severity
        /\ rows.flag.verdicts \subseteq rows.verdicts
        /\ rows.incident <=> ORDER[rows.flag.severity] >= 2
    /\ rows.incident \/ rows.routed => rows.flag.raised

\* The modes count and space the audits as they say, through changes of the settings and forced audits.
ModesExact == PolicyTypes /\ EveryNthExact /\ ThrottleHolds

\* What is stored of a run agrees with what its detectors said or failed to say.
VerdictsAccounted == SilenceIsVouched /\ SeverityIsWorst
==============================================================================
