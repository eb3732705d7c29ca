------------------------------ MODULE RiskSignals ------------------------------
(***************************************************************************)
(* The cheap signals of a run: one pass over its stored events, before and *)
(* without any model call, that decides whether the run must be audited.   *)
(*                                                                         *)
(* An event is what the pass tells apart.  The three sets of tool names    *)
(* are disjoint, so that a tool has one class; sensitive and injection     *)
(* say that the patterns match the event's text, dest that it names a      *)
(* destination.  Only whether there was egress is kept, not where to.      *)
(***************************************************************************)
EXTENDS Integers, Sequences, SequencesExt

ToolClasses == {"exec", "sensitive", "egress", "plain"}
EventTypes == {"tool_call.start", "tool_call.end", "memory.op", "syscall.execve", "syscall.openat",
               "syscall.connect", "syscall.sendto", "syscall.dns", "llm.call"}

\* An event without a tool has class "plain".
Event == [type : EventTypes, tool : ToolClasses, sensitive : BOOLEAN, injection : BOOLEAN, dest : BOOLEAN]

StartOf(e, tool) == e.type = "tool_call.start" /\ e.tool = tool

\* A tool call that touches a secret, by its tool or by its arguments.
TouchesSecret(e) ==
    \/ StartOf(e, "sensitive")
    \/ e.type = "tool_call.start" /\ e.sensitive

\* Mutated form: a secret counts as seen only from the next event on.
LeaksSecretLate(s, e) == StartOf(e, "egress") /\ "saw_secret" \in s

\* An egress tool is called with a secret seen before, or in the call itself.
LeaksSecret(s, e) == StartOf(e, "egress") /\ ("saw_secret" \in s \/ TouchesSecret(e))

\* The locals of compute_run_signals an event sets, with s the set of those that are set.
Locals == {"has_exec", "egress", "sensitive", "injection", "saw_secret", "secret_then_egress"}
Sets(e, local, s) ==
    CASE local = "has_exec" -> StartOf(e, "exec") \/ e.type = "syscall.execve"
      [] local = "egress" -> (StartOf(e, "egress") \/ e.type = "syscall.connect") /\ e.dest
      [] local = "sensitive" -> TouchesSecret(e) \/ (e.type = "syscall.openat" /\ e.sensitive)
      [] local = "injection" -> e.type \in {"tool_call.start", "tool_call.end", "memory.op"} /\ e.injection
      [] local = "saw_secret" -> TouchesSecret(e)
      [] local = "secret_then_egress" -> LeaksSecret(s, e)

\* The loop body of compute_run_signals.  A sendto and a DNS query add nothing: the code looks for
\* fields ("addr", "domain", "query") these events do not have.
Seen(s, e) == s \cup {local \in Locals : Sets(e, local, s)}

If(condition, points) == IF condition THEN points ELSE 0

RiskScore(s) ==
    LET sum == If("has_exec" \in s, 40) + If("egress" \in s, 30) + If("sensitive" \in s, 30)
               + If("injection" \in s, 40) + If("secret_then_egress" \in s, 30)
    IN  IF sum > 100 THEN 100 ELSE sum

\* compute_run_signals: what the runtime policy looks at.  Divergence is left to the detectors, and
\* nothing counts the tenant's recent incidents.
compute_run_signals(trace) ==
    LET seen[i \in 0..Len(trace)] == IF i = 0 THEN {} ELSE Seen(seen[i - 1], trace[i])
        s == seen[Len(trace)]
    IN  [channel_divergence |-> FALSE,
         cheap_risk_score |-> RiskScore(s),
         touched_sensitive_data |-> "sensitive" \in s,
         in_allowlisted_path |-> "sensitive" \notin s,
         tenant_recent_incident_count |-> 0]

-----------------------------------------------------------------------------
(* The same, said of the trace as a whole. *)

Some(trace, P(_)) == \E i \in DOMAIN trace : P(trace[i])

TraceExec(trace) == Some(trace, LAMBDA e : StartOf(e, "exec") \/ e.type = "syscall.execve")
\* Something leaves for a destination, whichever of its fields names it (involuntary_signature).
Egress(e) == e.dest /\ (e.type \in {"syscall.connect", "syscall.sendto", "syscall.dns"} \/ StartOf(e, "egress"))
TraceEgress(trace) == Some(trace, Egress)
\* All the egress there is shows in the fields the pass does not look at.
HiddenEgress(trace) ==
    /\ TraceEgress(trace)
    /\ \A i \in DOMAIN trace : Egress(trace[i]) => trace[i].type \in {"syscall.sendto", "syscall.dns"}
TraceSensitive(trace) ==
    Some(trace, LAMBDA e : TouchesSecret(e) \/ (e.type = "syscall.openat" /\ e.sensitive))
TraceInjection(trace) ==
    Some(trace, LAMBDA e : e.injection /\ e.type \in {"tool_call.start", "tool_call.end", "memory.op"})
\* An egress tool was called with a secret already in the agent's hands, the call's own included.
TraceLeak(trace) ==
    \E i, j \in DOMAIN trace : i <= j /\ TouchesSecret(trace[i]) /\ StartOf(trace[j], "egress")

RiskOf(trace, egress) ==
    LET sum == If(TraceExec(trace), 40) + If(egress, 30) + If(TraceSensitive(trace), 30)
               + If(TraceInjection(trace), 40) + If(TraceLeak(trace), 30)
    IN  IF sum > 100 THEN 100 ELSE sum
TraceRisk(trace) == RiskOf(trace, TraceEgress(trace))

\* Nothing but traffic: whatever left the machine, the agent declared nothing.
Undeclared(trace) ==
    /\ \A i \in DOMAIN trace : trace[i].type \in {"syscall.connect", "syscall.sendto", "syscall.dns"}
    /\ TraceEgress(trace)
==============================================================================
