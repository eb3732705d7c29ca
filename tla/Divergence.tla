------------------------------ MODULE Divergence ------------------------------
(***************************************************************************)
(* The correlator of the voluntary and involuntary channels and the        *)
(* divergence detector on top of it (events/correlator.py,                 *)
(* inline_gate/divergence.py).                                             *)
(*                                                                         *)
(* Paths, hosts and binaries are members of small sets; Sensitive and      *)
(* Allowlisted are those that contain a sensitive fragment or an allowed   *)
(* destination, Contained the pairs of hosts of which one occurs in the    *)
(* other.  Times are in any unit.  A list of some of the events is the set *)
(* of their positions, and a list of findings a function of it.            *)
(***************************************************************************)
EXTENDS Integers, Sequences, FiniteSets, SequencesExt

CONSTANTS Sensitive, Allowlisted, Contained, WindowMs, BaselineS

ASSUME DivergenceAssumption == WindowMs \in Nat /\ BaselineS \in Nat

INVOLUNTARY == {"syscall.openat", "syscall.connect", "syscall.dns", "syscall.sendto",
                "syscall.execve", "syscall.other"}

involuntary_signature(e) ==
    CASE e.kind = "syscall.openat" -> <<"file", e.value>>
      [] e.kind \in {"syscall.connect", "syscall.dns", "syscall.sendto"} -> <<"net", e.value>>
      [] e.kind = "syscall.execve" -> <<"exec", e.value>>
      [] OTHER -> <<"other", e.kind>>

\* value: the path or the host among the tool's arguments; "" if there is none.
voluntary_produces(e) ==
    CASE e.kind = "tool_call.start" /\ e.tool \in {"file_read", "file_write"} /\ e.value # ""
            -> {<<"file", e.value>>}
      [] e.kind = "tool_call.start" /\ e.tool \in {"http_get", "http_post"} /\ e.value # ""
            -> {<<"net", e.value>>}
      [] e.kind = "tool_call.start" /\ e.tool = "exec_shell" -> {<<"exec", "*">>}
      [] e.kind = "llm.call" -> {<<"net", "api.anthropic.com">>}
      [] OTHER -> {}

_matches(sig, produced) ==
    \E p \in produced :
        /\ p[1] = sig[1]
        /\ \/ p[2] \in {"*", sig[2]}
           \/ sig[1] = "net" /\ sig[2] # "" /\ {<<sig[2], p[2]>>, <<p[2], sig[2]>>} \cap Contained # {}

\* Mutated form: the run starts with the event that arrived first.
RunStartFirst(events) == events[1].ts

\* run_start: the earliest timestamp.
RunStart(events) == Min({events[i].ts : i \in 1..Len(events)})

Distance(a, b) == IF a >= b THEN a - b ELSE b - a

Observed(events) == {i \in 1..Len(events) : events[i].kind \in INVOLUNTARY}
Learning(events, i) == BaselineS > 0 /\ events[i].ts - RunStart(events) < BaselineS
Declared(events, i) ==
    \E k \in 1..Len(events) :
        /\ events[k].kind \notin INVOLUNTARY
        /\ _matches(involuntary_signature(events[i]), voluntary_produces(events[k]))
        /\ Distance(events[k].ts, events[i].ts) <= WindowMs

unmatched_involuntary(events) ==
    LET baseline == {involuntary_signature(events[i]) : i \in {k \in Observed(events) : Learning(events, k)}}
    IN  {i \in Observed(events) : /\ ~Learning(events, i)
                                  /\ involuntary_signature(events[i]) \notin baseline
                                  /\ ~Declared(events, i)}

_is_sensitive(path) == path \in Sensitive
_is_allowlisted(host) == host \in Allowlisted

_classify(e) ==
    LET sig == involuntary_signature(e)
        finding(severity, category) == [severity |-> severity, category |-> category, event |-> e]
    IN  CASE sig[1] = "exec" -> finding("critical", "ASI05")
          [] sig[1] = "file" -> finding(IF _is_sensitive(sig[2]) THEN "critical" ELSE "high", "ASI03")
          [] sig[1] = "net"  -> finding(IF ~_is_allowlisted(sig[2]) THEN "critical" ELSE "high", "ASI01")
          [] OTHER           -> finding("high", "ASI10")

analyze(events) == [i \in unmatched_involuntary(events) |-> _classify(events[i])]

critical_findings(findings) == {i \in DOMAIN findings : findings[i].severity = "critical"}

to_verdicts(findings) ==
    [i \in DOMAIN findings |->
        [detector |-> "channel_divergence", category |-> findings[i].category, result |-> "VIOLATION",
         confidence |-> 100, severity |-> findings[i].severity]]
=============================================================================
