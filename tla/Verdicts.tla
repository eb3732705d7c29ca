------------------------------- MODULE Verdicts -------------------------------
(***************************************************************************)
(* Severity of verdicts and their aggregation into one flag of a run.      *)
(*                                                                         *)
(* A verdict says which detector it is by (which stands for its category), *)
(* whether that detector is driven by the judge, whether its violations    *)
(* are critical by themselves, its result, its confidence in percent, and  *)
(* the severity its rubric scores carry, which may be none or nonsense.    *)
(***************************************************************************)
EXTENDS Integers, FiniteSets, FiniteSetsExt

Severities == {"low", "medium", "high", "critical"}
ORDER == [s \in Severities |->
    CASE s = "low" -> 0 [] s = "medium" -> 1 [] s = "high" -> 2 [] s = "critical" -> 3]

Results == {"OK", "VIOLATION", "NEEDS_REVIEW"}
HIGH_CONFIDENCE == 75

\* classify, of a verdict that is not OK.
classify(v) ==
    CASE v.result = "NEEDS_REVIEW"      -> "low"
      [] v.result = "VIOLATION" /\ v.rubric \in Severities -> v.rubric
      [] v.result = "VIOLATION" /\ v.rubric \notin Severities ->
            IF v.critical THEN "critical"
            ELSE IF v.confidence >= HIGH_CONFIDENCE THEN "high" ELSE "medium"

\* aggregate: the verdicts that are not OK.
Actionable(verdicts) == {v \in verdicts : v.result # "OK"}

\* score_severity, of verdicts that are not OK.
score_severity(verdicts) ==
    LET severities == {classify(v) : v \in verdicts}
    IN  IF severities = {} THEN "low" ELSE CHOOSE s \in severities : \A t \in severities : ORDER[t] <= ORDER[s]

\* The judge's verdicts count by their confidence, the others fully.
Weight(v) == IF v.judge THEN v.confidence ELSE 100

\* "v.confidence or 1.0": a confidence of zero reads as full confidence.
ReadConfidence(v) == IF v.confidence = 0 THEN 100 ELSE v.confidence

\* The flag's confidence as a fraction, in percent.
FlagConfidence(verdicts) ==
    LET weights == MapThenSumSet(Weight, verdicts)
    IN  IF weights = 0 THEN [num |-> 100, den |-> 1]
        ELSE [num |-> MapThenSumSet(LAMBDA v : ReadConfidence(v) * Weight(v), verdicts), den |-> weights]

NoFlag == [raised |-> FALSE]

aggregate(verdicts) ==
    LET actionable == Actionable(verdicts)
    IN  IF actionable = {} THEN NoFlag
        ELSE [raised |-> TRUE,
              severity |-> score_severity(actionable),
              verdicts |-> actionable,
              confidence |-> FlagConfidence(actionable)]

INCIDENT_SEVERITIES == {"high", "critical"}
==============================================================================
