------------------------------- MODULE MCAudits -------------------------------
(* Traces of at most two events, one event for each branch of compute_run_signals. *)
EXTENDS Audits

Ev(type, tool, sensitive, injection, dest) ==
    [type |-> type, tool |-> tool, sensitive |-> sensitive, injection |-> injection, dest |-> dest]

MCEvents == {
    Ev("tool_call.start", "exec", FALSE, FALSE, FALSE),
    Ev("tool_call.start", "sensitive", FALSE, FALSE, FALSE),
    Ev("tool_call.start", "egress", FALSE, FALSE, TRUE),
    Ev("tool_call.start", "egress", TRUE, FALSE, FALSE),
    Ev("tool_call.start", "plain", TRUE, TRUE, FALSE),
    Ev("tool_call.end", "plain", FALSE, TRUE, FALSE),
    Ev("memory.op", "plain", FALSE, TRUE, FALSE),
    Ev("syscall.execve", "plain", FALSE, FALSE, FALSE),
    Ev("syscall.openat", "plain", TRUE, FALSE, FALSE),
    Ev("syscall.connect", "plain", FALSE, FALSE, TRUE),
    Ev("syscall.sendto", "plain", FALSE, FALSE, TRUE),
    Ev("syscall.dns", "plain", FALSE, FALSE, TRUE),
    Ev("llm.call", "plain", FALSE, FALSE, FALSE)}

MCTraces == SeqOf(MCEvents, 2)

MCDefaults == [mode |-> "percentage", rate |-> 1, every_n |-> 2, interval_seconds |-> 2,
               critical_risk_threshold |-> 70]

MCEnvRates == {1}

\* The last one is refused.
MCBodies == {
    [mode |-> "every_nth"],
    [mode |-> "interval", interval_seconds |-> 1],
    [critical_risk_threshold |-> 100],
    [every_n |-> 0]}

Finding(result, confidence, rubric) == [result |-> result, confidence |-> confidence, rubric |-> rubric]

MCAnswers == {
    {Finding("OK", 100, "none")},
    {Finding("VIOLATION", 75, "none")},
    {Finding("VIOLATION", 50, "critical"), Finding("NEEDS_REVIEW", 50, "none")},
    {Finding("VIOLATION", 60, "bogus"), Finding("OK", 0, "none")}}

\* asi01 asks the judge, asi07's violations are critical by themselves.
MCDetectors == {"asi01", "asi07"}
MCRoutings == {
    [asi01 |-> "ENFORCING", asi07 |-> "ENFORCING"],
    [asi01 |-> "CANARY", asi07 |-> "SHADOW"],
    [asi01 |-> "DISABLED", asi07 |-> "CANARY"]}
MCJudgeDetectors == {"asi01"}
MCCriticalDetectors == {"asi07"}
==============================================================================
