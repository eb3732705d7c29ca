------------------------------ MODULE GateDecision ------------------------------
(***************************************************************************)
(* The auditor's side of the inline gate: decide() asks OPA (through the   *)
(* client's cache), counts the call against the run's budget in Redis,     *)
(* scans outbound content, and answers with the strictest vote.            *)
(*                                                                         *)
(* Connections are served concurrently: decisions interleave at every      *)
(* await, while the policy in OPA is replaced by the load_policy of this   *)
(* or of another auditor and while cached answers and counters expire.     *)
(***************************************************************************)
EXTENDS Integers, FiniteSets

CONSTANTS
    Slots,                 \* connections being served at the same time
    Runs,
    Tools,
    OUTBOUND_TOOLS,        \* the tools whose arguments are scanned
    Rego,                  \* <<policy, input>> -> what the policy says
    MAX_CALLS_PER_RUN,
    MAX_SAME_TOOL_STREAK,
    BURST_LIMIT,
    Ttl,                   \* life of the counters since the last call
    BurstTtl,              \* life of the burst counter since its first call
    CacheTtl,              \* life of a cached answer
    CacheMax,              \* answers the cache holds
    MaxPolicy,             \* bound: policies loaded one after the other
    MaxDecides,            \* bound: decisions begun
    MaxClock               \* bound: time

\* An event that is not a tool call.
NoTool == "no tool"
Inputs == Tools \cup {NoTool}
Decisions == {"ALLOW", "CONFIRM", "DENY"}
Policies == 0 .. MaxPolicy

ASSUME OutboundAssumption == OUTBOUND_TOOLS \subseteq Tools
ASSUME RegoAssumption == Rego \in [Policies \X Inputs -> Decisions \cup {"undefined"}]
ASSUME TtlAssumption == {Ttl, BurstTtl, CacheTtl, CacheMax} \subseteq Nat \ {0}
ASSUME LimitsAssumption == {MAX_CALLS_PER_RUN, MAX_SAME_TOOL_STREAK, BURST_LIMIT} \subseteq Nat
ASSUME BoundsAssumption == {MaxPolicy, MaxDecides, MaxClock} \subseteq Nat

VARIABLES
    clock,
    policy,    \* the policy in OPA; 0 before any was loaded
    ended,     \* policy -> when it was replaced
    booting,   \* this auditor's load_policy: "put", "clear" and "no" when it serves
    cache,     \* input -> cached answer and when it expires
    call,      \* slot -> the decision it is computing
    begun,     \* decisions begun
    budget,    \* run -> its counters in Redis
    passed,    \* run -> calls the budget let through since the counters last expired
    repeated   \* run -> the last tool the budget let through and how often in a row

vars == <<clock, policy, ended, booting, cache, call, begun, budget, passed, repeated>>
opaVars == <<policy, ended, booting>>
budgetVars == <<budget, passed, repeated>>

Never == MaxClock + 1
Idle == [stage |-> "idle"]
NoEntry == [policy |-> -1, decision |-> "DENY", expires |-> -1]
NoBudget == [total |-> 0, last |-> NoTool, streak |-> 0, until |-> 0, burst |-> 0, burstUntil |-> 0]

Init ==
    /\ clock = 0
    /\ policy = 0
    /\ ended = [p \in Policies |-> Never]
    /\ booting = "put"
    /\ cache = [i \in Inputs |-> NoEntry]
    /\ call = [s \in Slots |-> Idle]
    /\ begun = 0
    /\ budget = [r \in Runs |-> NoBudget]
    /\ passed = [r \in Runs |-> 0]
    /\ repeated = [r \in Runs |-> [tool |-> NoTool, n |-> 0]]

Tick ==
    /\ clock < MaxClock
    /\ clock' = clock + 1
    /\ UNCHANGED <<opaVars, cache, call, begun, budgetVars>>

------------------------------------------------------------------------------
\* The policy engine.

\* A PUT of a new policy reaches OPA: this auditor's, while it boots, or another's at any time.
PutPolicy ==
    /\ policy < MaxPolicy
    /\ policy' = policy + 1
    /\ ended' = [ended EXCEPT ![policy] = clock]
    /\ booting' \in IF booting = "put" THEN {"put", "clear"} ELSE {booting}
    /\ UNCHANGED <<clock, cache, call, begun, budgetVars>>

\* load_policy clears the cache when the PUT succeeded; _build_gate goes on when it failed.
Boot ==
    /\ booting # "no"
    /\ booting' = "no"
    /\ cache' = IF booting = "clear" THEN [i \in Inputs |-> NoEntry] ELSE cache
    /\ UNCHANGED <<clock, policy, ended, call, begun, budgetVars>>

\* evaluate: the cache, when it has an answer that has not expired.
Cached(i) == cache[i].expires > clock

\* A decision begins with evaluate: a cached answer is the vote, otherwise a POST goes out.
Begin(s, r, i) ==
    /\ call[s].stage \in {"idle", "answered", "dropped"}
    /\ booting = "no"
    /\ begun < MaxDecides
    /\ begun' = begun + 1
    /\ call' = [call EXCEPT ![s] =
         [stage |-> IF Cached(i) THEN "budget" ELSE "post",
          run |-> r, input |-> i, at |-> clock,
          policy |-> IF Cached(i) THEN cache[i].policy ELSE -1,
          votes |-> IF Cached(i) THEN {<<"opa", cache[i].decision>>} ELSE {},
          decision |-> "none"]]
    /\ UNCHANGED <<clock, opaVars, cache, budgetVars>>

\* OPA evaluates the input with the policy it has.
Evaluate(s) ==
    /\ call[s].stage = "post"
    /\ call' = [call EXCEPT ![s] = [@ EXCEPT !.stage = "response", !.policy = policy]]
    /\ UNCHANGED <<clock, opaVars, cache, begun, budgetVars>>

\* An answer without a result is ALLOW.
Answer(p, i) == IF Rego[<<p, i>>] = "undefined" THEN "ALLOW" ELSE Rego[<<p, i>>]

\* Mutated form: the life of the answer begins when it arrives.
ExpiryFromResponse(at) == clock + CacheTtl

\* The life of a cached answer begins when its evaluation began.
Expiry(at) == at + CacheTtl

Full == Cardinality({i \in Inputs : cache[i] # NoEntry}) >= CacheMax

\* The response arrives: it is cached, in a cleared cache when the cache is full.
Response(s) ==
    LET c == call[s]
        d == Answer(c.policy, c.input)
        kept == IF Full THEN [i \in Inputs |-> NoEntry] ELSE cache IN
    /\ c.stage = "response"
    /\ cache' = [kept EXCEPT ![c.input] = [policy |-> c.policy, decision |-> d, expires |-> Expiry(c.at)]]
    /\ call' = [call EXCEPT ![s] = [@ EXCEPT !.stage = "budget", !.votes = {<<"opa", d>>}]]
    /\ UNCHANGED <<clock, opaVars, begun, budgetVars>>

\* A timeout or an HTTP error at any time: decide denies, nothing is cached.
OpaError(s) ==
    /\ call[s].stage \in {"post", "response"}
    /\ call' = [call EXCEPT ![s] = [@ EXCEPT !.stage = "budget", !.policy = -1, !.votes = {<<"opa", "DENY">>}]]
    /\ UNCHANGED <<clock, opaVars, cache, begun, budgetVars>>

------------------------------------------------------------------------------
\* The budget: one Lua script, atomic in Redis.

\* The counters after a call of tool t.
Counted(b, t) ==
    LET live == clock < b.until
        burstLive == clock < b.burstUntil IN
    [total |-> (IF live THEN b.total ELSE 0) + 1,
     last |-> t,
     streak |-> IF live /\ b.last = t THEN b.streak + 1 ELSE 1,
     until |-> clock + Ttl,
     burst |-> (IF burstLive THEN b.burst ELSE 0) + 1,
     burstUntil |-> IF burstLive THEN b.burstUntil ELSE clock + BurstTtl]

\* Mutated form: the throttle is looked at first.
BudgetVoteBurstFirst(b) ==
    IF b.burst > BURST_LIMIT THEN "CONFIRM"
    ELSE IF b.total > MAX_CALLS_PER_RUN \/ b.streak > MAX_SAME_TOOL_STREAK THEN "DENY" ELSE "ALLOW"

\* BudgetEnforcer.check
BudgetVote(b) ==
    IF b.total > MAX_CALLS_PER_RUN \/ b.streak > MAX_SAME_TOOL_STREAK THEN "DENY"
    ELSE IF b.burst > BURST_LIMIT THEN "CONFIRM" ELSE "ALLOW"

\* Tool calls are counted; what the budget lets through is noted for the properties.
CheckBudget(s) ==
    LET c == call[s]
        b == Counted(budget[c.run], c.input)
        fresh == clock >= budget[c.run].until
        through == BudgetVote(b) # "DENY"
        rep == repeated[c.run] IN
    /\ c.stage = "budget"
    /\ c.input # NoTool
    /\ budget' = [budget EXCEPT ![c.run] = b]
    /\ call' = [call EXCEPT ![s] = [c EXCEPT !.stage = "pii", !.votes = c.votes \cup {<<"budget", BudgetVote(b)>>}]]
    /\ passed' = [passed EXCEPT ![c.run] = (IF fresh THEN 0 ELSE @) + (IF through THEN 1 ELSE 0)]
    /\ repeated' = [repeated EXCEPT ![c.run] =
         IF rep.tool = c.input /\ ~fresh THEN [rep EXCEPT !.n = rep.n + (IF through THEN 1 ELSE 0)]
         ELSE [tool |-> c.input, n |-> IF through THEN 1 ELSE 0]]
    /\ UNCHANGED <<clock, opaVars, cache, begun>>

\* Other events have no budget.
SkipBudget(s) ==
    /\ call[s].stage = "budget"
    /\ call[s].input = NoTool
    /\ call' = [call EXCEPT ![s] = [@ EXCEPT !.stage = "pii"]]
    /\ UNCHANGED <<clock, opaVars, cache, begun, budgetVars>>

\* The budget or the scanner raises: no answer, the server closes the connection.
CheckFails(s) ==
    /\ call[s].stage \in {"budget", "pii"}
    /\ call[s].input # NoTool
    /\ call' = [call EXCEPT ![s] = [@ EXCEPT !.stage = "dropped"]]
    /\ UNCHANGED <<clock, opaVars, cache, begun, budgetVars>>

\* The strictest of the votes.
Final(votes) ==
    LET given == {v[2] : v \in votes} IN
    IF "DENY" \in given THEN "DENY" ELSE IF "CONFIRM" \in given THEN "CONFIRM" ELSE "ALLOW"

\* What evaluate_outbound may find, for the tools it is asked about.
PiiVotes(i) == IF i \in OUTBOUND_TOOLS THEN {{<<"pii", d>>} : d \in {"ALLOW", "DENY"}} ELSE {{}}

\* The scan of outbound arguments, and the answer.
Answered(s) ==
    /\ call[s].stage = "pii"
    /\ \E found \in PiiVotes(call[s].input) :
         call' = [call EXCEPT ![s] = [@ EXCEPT !.stage = "answered", !.votes = call[s].votes \cup found,
                                              !.decision = Final(call[s].votes \cup found)]]
    /\ UNCHANGED <<clock, opaVars, cache, begun, budgetVars>>

Next ==
    \/ Tick \/ PutPolicy \/ Boot
    \/ \E s \in Slots :
         \/ \E r \in Runs, i \in Inputs : Begin(s, r, i)
         \/ Evaluate(s) \/ Response(s) \/ OpaError(s)
         \/ CheckBudget(s) \/ SkipBudget(s) \/ CheckFails(s) \/ Answered(s)

Spec == Init /\ [][Next]_vars

------------------------------------------------------------------------------

Call == [stage : {"post", "response", "budget", "pii", "answered", "dropped"}, run : Runs, input : Inputs,
         at : 0 .. MaxClock, policy : Policies \cup {-1},
         votes : SUBSET ({"opa", "budget", "pii"} \X Decisions), decision : Decisions \cup {"none"}]

TypeOK ==
    /\ clock \in 0 .. MaxClock
    /\ policy \in Policies
    /\ ended \in [Policies -> 0 .. Never]
    /\ booting \in {"put", "clear", "no"}
    /\ \A i \in Inputs :
         \/ cache[i] = NoEntry
         \/ cache[i] \in [policy : Policies, decision : Decisions, expires : 0 .. MaxClock + CacheTtl]
    /\ \A s \in Slots : call[s] = Idle \/ call[s] \in Call
    /\ begun \in 0 .. MaxDecides
    /\ budget \in [Runs -> [total : Nat, last : Inputs, streak : Nat, until : Nat, burst : Nat, burstUntil : Nat]]
    /\ passed \in [Runs -> Nat]
    /\ repeated \in [Runs -> [tool : Inputs, n : Nat]]
    /\ Cardinality({i \in Inputs : cache[i] # NoEntry}) <= CacheMax

\* A vote of the policy engine is that of a policy that was in force less than CacheTtl before the
\* decision began, however long the POST took and whatever was loaded meanwhile.
StalenessBounded ==
    \A s \in Slots : (call[s].stage \in {"budget", "pii", "answered"} /\ call[s].policy # -1) =>
        ended[call[s].policy] > call[s].at - CacheTtl

\* Anything but DENY is answered only after every check the event calls for has voted, none of them DENY.
AnsweredAfterChecks ==
    \A s \in Slots : (call[s].stage = "answered" /\ call[s].decision # "DENY") =>
        /\ {v[1] : v \in call[s].votes} =
             {"opa"} \cup (IF call[s].input # NoTool THEN {"budget"} ELSE {})
                    \cup (IF call[s].input \in OUTBOUND_TOOLS THEN {"pii"} ELSE {})
        /\ \A v \in call[s].votes : v[2] # "DENY"

\* Until its counters expire, a run gets no more calls through than its cap, and no tool more often in
\* a row than its streak, whatever the order in which its calls are counted.
CapsHold ==
    \A r \in Runs : passed[r] <= MAX_CALLS_PER_RUN /\ repeated[r].n <= MAX_SAME_TOOL_STREAK

\* Whatever fails, expires or overlaps, nothing is let through that a check did not vote for or that is
\* over the budget.
ChecksHold == TypeOK /\ AnsweredAfterChecks /\ CapsHold
==============================================================================
