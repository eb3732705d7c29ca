--------------------------- MODULE GateDecisionProofs ---------------------------
(***************************************************************************)
(* For any number of connections, runs, tools, policies and limits: no     *)
(* vote of the policy engine is older than the cache's TTL, no answer but  *)
(* DENY skips a check, and no run gets more through than its budget.       *)
(*                                                                         *)
(* The argument: an answer was given by a policy that was in force when    *)
(* its evaluation had begun, and its life in the cache is counted from     *)
(* that beginning; and the counters in Redis grow at least as fast as what *)
(* the budget lets through.                                                *)
(***************************************************************************)
EXTENDS GateDecision, FiniteSetTheorems, TLAPS

Entries == [policy : Policies, decision : Decisions, expires : 0 .. MaxClock + CacheTtl]
Counters == [total : Nat, last : Inputs, streak : Nat, until : Nat, burst : Nat, burstUntil : Nat]
Held == {i \in Inputs : cache[i] # NoEntry}
Types ==
    /\ clock \in 0 .. MaxClock /\ policy \in Policies /\ ended \in [Policies -> 0 .. Never]
    /\ booting \in {"put", "clear", "no"} /\ begun \in 0 .. MaxDecides
    /\ cache \in [Inputs -> {NoEntry} \cup Entries]
    /\ call \in [Slots -> {Idle} \cup Call]
    /\ budget \in [Runs -> Counters] /\ passed \in [Runs -> Nat]
    /\ repeated \in [Runs -> [tool : Inputs, n : Nat]]
CacheBounded == IsFiniteSet(Held) /\ Cardinality(Held) <= CacheMax

\* The policy in force has not ended.
InForce == \A p \in Policies : p >= policy => ended[p] = Never

\* A cached answer is that of a policy that was in force CacheTtl before it expires, or later.
CacheRight ==
    \A i \in Inputs : cache[i] # NoEntry =>
        /\ cache[i].expires <= clock + CacheTtl
        /\ ended[cache[i].policy] >= cache[i].expires - CacheTtl

Voters(votes) == {v[1] : v \in votes}
Asked(q) == {"opa"} \cup (IF q.input # NoTool THEN {"budget"} ELSE {})
\* The policy that voted, and the votes, at each stage of a decision.
Young(q) ==
    /\ q.at <= clock
    /\ q.stage = "response" => q.policy \in Policies /\ ended[q.policy] >= q.at
    /\ q.stage \in {"budget", "pii", "answered"} /\ q.policy # -1 => ended[q.policy] > q.at - CacheTtl
VotesRight(q) ==
    /\ q.stage = "budget" => Voters(q.votes) = {"opa"}
    /\ q.stage = "pii" => Voters(q.votes) = Asked(q)
    /\ q.stage = "answered" =>
          /\ Voters(q.votes) = Asked(q) \cup (IF q.input \in OUTBOUND_TOOLS THEN {"pii"} ELSE {})
          /\ q.decision # "DENY" => \A v \in q.votes : v[2] # "DENY"
CallRight(q) == Young(q) /\ VotesRight(q)
CallsRight == \A s \in Slots : call[s] # Idle => CallRight(call[s])

\* The counters have counted every call that went through.
BudgetRight ==
    \A r \in Runs : /\ passed[r] <= budget[r].total /\ passed[r] <= MAX_CALLS_PER_RUN
                    /\ repeated[r].tool = budget[r].last
                    /\ repeated[r].n <= budget[r].streak /\ repeated[r].n <= MAX_SAME_TOOL_STREAK

IInv == Types /\ CacheBounded /\ InForce /\ CacheRight /\ CallsRight /\ BudgetRight

\* A vote more is a voter more.
LEMMA VotersAdd ==
    ASSUME NEW votes, NEW who, NEW d
    PROVE  Voters(votes \cup {<<who, d>>}) = Voters(votes) \cup {who}
<1>1. <<who, d>>[1] = who
  OBVIOUS
<1>2. ASSUME NEW x \in Voters(votes \cup {<<who, d>>}) PROVE x \in Voters(votes) \cup {who}
  <2>1. PICK v \in votes \cup {<<who, d>>} : x = v[1]
    BY DEF Voters
  <2> QED BY <1>1, <2>1 DEF Voters
<1>3. who \in Voters(votes \cup {<<who, d>>})
  BY <1>1 DEF Voters
<1>4. Voters(votes) \subseteq Voters(votes \cup {<<who, d>>})
  BY DEF Voters
<1> QED BY <1>2, <1>3, <1>4

LEMMA NumberFacts ==
    /\ CacheTtl \in Nat /\ CacheTtl > 0 /\ CacheMax \in Nat /\ CacheMax > 0 /\ Ttl \in Nat /\ BurstTtl \in Nat
    /\ MaxClock \in Nat /\ MaxPolicy \in Nat /\ MaxDecides \in Nat /\ Never \in Nat /\ Never = MaxClock + 1
    /\ MAX_CALLS_PER_RUN \in Nat /\ MAX_SAME_TOOL_STREAK \in Nat
  BY TtlAssumption, LimitsAssumption, BoundsAssumption DEF Never

\* A step of one slot's decision.
LEMMA CallUpdate ==
    ASSUME Types, CallsRight, NEW s \in Slots, NEW q \in Call, CallRight(q),
           call' = [call EXCEPT ![s] = q], clock' = clock, ended' = ended
    PROVE  call' \in [Slots -> {Idle} \cup Call] /\ CallsRight'
<1>1. call'[s] = q /\ \A t \in Slots : t # s => call'[t] = call[t]
  BY DEF Types
<1>2. CallRight(q)'
  BY DEF CallRight, Young, VotesRight, Asked, Voters
<1>3. ASSUME NEW t \in Slots, t # s, call[t] # Idle PROVE CallRight(call[t])'
  BY <1>1, <1>3 DEF CallsRight, CallRight, Young, VotesRight, Asked, Voters
<1> QED BY <1>1, <1>2, <1>3 DEF CallsRight, Types

\* The initial state satisfies the inductive invariant.
LEMMA InitInv == Init => IInv
<1> SUFFICES ASSUME Init PROVE IInv
  OBVIOUS
<1> USE NumberFacts DEF Init
<1>1. Types
  BY DEF Types, Policies, NoBudget, Counters, Inputs
<1>2. Held = {}
  BY DEF Held
<1>3. CacheBounded
  BY <1>2, FS_EmptySet DEF CacheBounded
<1>4. InForce /\ CacheRight /\ CallsRight
  BY DEF InForce, CacheRight, CallsRight
<1>5. BudgetRight
  BY DEF BudgetRight, NoBudget
<1> QED BY <1>1, <1>3, <1>4, <1>5 DEF IInv

\* What only the engine and the cache decide about, and what only the budget does.
LEMMA EngineKept ==
    ASSUME CacheBounded, InForce, CacheRight, clock' = clock, policy' = policy, ended' = ended, cache' = cache
    PROVE  CacheBounded' /\ InForce' /\ CacheRight'
  BY DEF CacheBounded, Held, InForce, CacheRight

LEMMA BudgetKept ==
    ASSUME BudgetRight, budget' = budget, passed' = passed, repeated' = repeated
    PROVE  BudgetRight'
  BY DEF BudgetRight

LEMMA TickInv == ASSUME IInv, Tick PROVE IInv'
<1> USE NumberFacts
<1>1. /\ clock \in 0 .. MaxClock /\ clock' = clock + 1 /\ clock' \in 0 .. MaxClock /\ policy' = policy /\ ended' = ended
      /\ booting' = booting /\ cache' = cache /\ call' = call /\ begun' = begun
      /\ budget' = budget /\ passed' = passed /\ repeated' = repeated
  BY DEF Tick, opaVars, budgetVars, IInv, Types
<1>2. Types'
  BY <1>1 DEF IInv, Types
<1>3. CacheBounded' /\ InForce'
  BY <1>1 DEF IInv, CacheBounded, Held, InForce
<1>4. CacheRight'
  <2>1. \A i \in Inputs : cache[i] # NoEntry => cache[i].expires \in Nat
    BY DEF IInv, Types, Entries
  <2> QED BY <1>1, <2>1 DEF IInv, CacheRight
<1>5. CallsRight'
  <2> SUFFICES ASSUME NEW s \in Slots, call[s] # Idle PROVE CallRight(call[s])'
    BY <1>1 DEF CallsRight
  <2>1. CallRight(call[s]) /\ call[s].at \in Nat
    BY DEF IInv, Types, Call, CallsRight
  <2>2. Young(call[s])'
    BY <1>1, <2>1 DEF CallRight, Young
  <2>3. VotesRight(call[s])'
    BY <1>1, <2>1 DEF CallRight, VotesRight, Asked, Voters
  <2> QED BY <2>2, <2>3 DEF CallRight
<1>6. BudgetRight'
  BY <1>1, BudgetKept DEF IInv
<1> QED BY <1>2, <1>3, <1>4, <1>5, <1>6 DEF IInv

\* A new policy: the old one ends now, which is no sooner than anything that used it began.
LEMMA PutPolicyInv == ASSUME IInv, PutPolicy PROVE IInv'
<1> USE NumberFacts
<1>1. /\ policy < MaxPolicy /\ policy' = policy + 1 /\ ended' = [ended EXCEPT ![policy] = clock]
      /\ booting' \in {"put", "clear", "no"} /\ clock' = clock /\ cache' = cache /\ call' = call /\ begun' = begun
      /\ budget' = budget /\ passed' = passed /\ repeated' = repeated
  BY DEF PutPolicy, budgetVars, IInv, Types
<1>2. clock \in Nat /\ clock <= MaxClock /\ policy \in Policies /\ policy \in Nat
  BY DEF IInv, Types, Policies
<1>3. Types'
  BY <1>1, <1>2 DEF IInv, Types, Policies
<1>4. \A p \in Policies : /\ ended'[p] = IF p = policy THEN clock ELSE ended[p]
                          /\ ended[p] \in Nat /\ p \in Nat
  BY <1>1, <1>2 DEF IInv, Types, Policies
<1>5. CacheBounded'
  BY <1>1 DEF IInv, CacheBounded, Held
<1>6. InForce'
  BY <1>1, <1>2, <1>4 DEF IInv, InForce
<1>7. CacheRight'
  <2>1. \A i \in Inputs : cache[i] # NoEntry => cache[i].expires \in Nat /\ cache[i].policy \in Policies
    BY DEF IInv, Types, Entries
  <2> QED BY <1>1, <1>2, <1>4, <2>1 DEF IInv, CacheRight
<1>8. CallsRight'
  <2> SUFFICES ASSUME NEW s \in Slots, call[s] # Idle PROVE CallRight(call[s])'
    BY <1>1 DEF CallsRight
  <2>1. PICK q : q = call[s]
    OBVIOUS
  <2>2. q \in Call /\ q.at \in Nat /\ q.policy \in Policies \cup {-1} /\ CallRight(q)
    BY <2>1 DEF IInv, Types, Call, CallsRight
  <2>3. q.stage = "response" => ended'[q.policy] >= q.at
    BY <1>2, <1>4, <2>2 DEF CallRight, Young
  <2>4. ASSUME q.stage \in {"budget", "pii", "answered"}, q.policy # -1 PROVE ended'[q.policy] > q.at - CacheTtl
    <3>1. q.policy \in Policies /\ ended[q.policy] > q.at - CacheTtl /\ q.at <= clock
      BY <2>2, <2>4 DEF CallRight, Young
    <3>2. CASE q.policy = policy
      BY <1>2, <1>4, <2>2, <3>1, <3>2
    <3>3. CASE q.policy # policy
      BY <1>4, <3>1, <3>3
    <3> QED BY <3>2, <3>3
  <2>5. CallRight(q)'
    BY <1>1, <2>2, <2>3, <2>4 DEF CallRight, Young, VotesRight, Asked, Voters
  <2> QED BY <1>1, <2>1, <2>5
<1>9. BudgetRight'
  BY <1>1, BudgetKept DEF IInv
<1> QED BY <1>3, <1>5, <1>6, <1>7, <1>8, <1>9 DEF IInv

\* load_policy ends: an empty cache breaks nothing.
LEMMA BootInv == ASSUME IInv, Boot PROVE IInv'
<1> USE NumberFacts
<1>1. /\ booting' = "no" /\ (cache' = cache \/ cache' = [i \in Inputs |-> NoEntry])
      /\ clock' = clock /\ policy' = policy /\ ended' = ended /\ call' = call /\ begun' = begun
      /\ budget' = budget /\ passed' = passed /\ repeated' = repeated
  BY DEF Boot, budgetVars
<1>2. Types'
  BY <1>1 DEF IInv, Types
<1>3. CacheBounded' /\ CacheRight' /\ InForce'
  <2>1. CASE cache' = cache
    BY <1>1, <2>1, EngineKept DEF IInv
  <2>2. CASE cache' = [i \in Inputs |-> NoEntry]
    <3>1. Held' = {}
      BY <2>2 DEF Held
    <3>2. CacheBounded'
      BY <3>1, FS_EmptySet DEF CacheBounded
    <3> QED BY <1>1, <2>2, <3>2 DEF IInv, CacheRight, InForce
  <2> QED BY <1>1, <2>1, <2>2
<1>4. CallsRight'
  BY <1>1 DEF IInv, CallsRight, CallRight, Young, VotesRight, Asked, Voters
<1>5. BudgetRight'
  BY <1>1, BudgetKept DEF IInv
<1> QED BY <1>2, <1>3, <1>4, <1>5 DEF IInv

\* A decision begins: a cached answer that has not expired is young enough.
LEMMA BeginInv == ASSUME IInv, NEW s \in Slots, NEW r \in Runs, NEW i \in Inputs, Begin(s, r, i) PROVE IInv'
<1> USE NumberFacts
<1>1. PICK q : q = [stage |-> IF Cached(i) THEN "budget" ELSE "post", run |-> r, input |-> i, at |-> clock,
                    policy |-> IF Cached(i) THEN cache[i].policy ELSE -1,
                    votes |-> IF Cached(i) THEN {<<"opa", cache[i].decision>>} ELSE {}, decision |-> "none"]
  OBVIOUS
<1>2. /\ call' = [call EXCEPT ![s] = q] /\ begun' = begun + 1 /\ begun < MaxDecides
      /\ clock' = clock /\ policy' = policy /\ ended' = ended /\ booting' = booting /\ cache' = cache
      /\ budget' = budget /\ passed' = passed /\ repeated' = repeated
  BY <1>1 DEF Begin, opaVars, budgetVars
<1>3. clock \in Nat /\ clock \in 0 .. MaxClock
  BY DEF IInv, Types
<1>4. Cached(i) => /\ cache[i] # NoEntry /\ cache[i].policy \in Policies /\ cache[i].decision \in Decisions
                   /\ cache[i].expires \in Nat /\ cache[i].expires > clock
  <2>1. NoEntry.expires = -1
    BY DEF NoEntry
  <2> QED BY <1>3, <2>1 DEF IInv, Types, Entries, Cached
<1>5. q \in Call
  BY <1>1, <1>3, <1>4 DEF Call
<1>6. CallRight(q)
  <2>1. CASE Cached(i)
    <3>1. q.stage = "budget" /\ q.at = clock /\ q.policy = cache[i].policy /\ q.votes = {<<"opa", cache[i].decision>>}
      BY <1>1, <2>1
    <3>2. ended[q.policy] >= cache[i].expires - CacheTtl /\ ended[q.policy] \in Nat
      BY <1>4, <2>1, <3>1 DEF IInv, Types, CacheRight
    <3>3. ended[q.policy] > clock - CacheTtl
      BY <1>3, <1>4, <2>1, <3>2
    <3>4. Voters(q.votes) = {"opa"}
      BY <3>1 DEF Voters
    <3>5. Young(q)
      BY <1>3, <3>1, <3>3 DEF Young
    <3>6. VotesRight(q)
      BY <3>1, <3>4 DEF VotesRight
    <3> QED BY <3>5, <3>6 DEF CallRight
  <2>2. CASE ~Cached(i)
    <3>1. q.stage = "post" /\ q.at = clock
      BY <1>1, <2>2
    <3> QED BY <1>3, <3>1 DEF CallRight, Young, VotesRight
  <2> QED BY <2>1, <2>2
<1>7. call' \in [Slots -> {Idle} \cup Call] /\ CallsRight'
  BY <1>2, <1>5, <1>6, CallUpdate DEF IInv
<1>8. Types'
  BY <1>2, <1>7 DEF IInv, Types
<1> QED BY <1>2, <1>7, <1>8, EngineKept, BudgetKept DEF IInv

\* The steps in which only the decision of a slot goes on.
LEMMA OnlyCallInv ==
    ASSUME IInv, NEW s \in Slots, NEW q \in Call, CallRight(q), call' = [call EXCEPT ![s] = q],
           UNCHANGED <<clock, opaVars, cache, begun, budgetVars>>
    PROVE  IInv'
<1>1. /\ clock' = clock /\ policy' = policy /\ ended' = ended /\ booting' = booting /\ cache' = cache /\ begun' = begun
      /\ budget' = budget /\ passed' = passed /\ repeated' = repeated
  BY DEF opaVars, budgetVars
<1>2. call' \in [Slots -> {Idle} \cup Call] /\ CallsRight'
  BY <1>1, CallUpdate DEF IInv
<1>3. Types'
  BY <1>1, <1>2 DEF IInv, Types
<1> QED BY <1>1, <1>2, <1>3, EngineKept, BudgetKept DEF IInv

\* What holds of a slot that is serving.
LEMMA Serving ==
    ASSUME IInv, NEW s \in Slots, call[s].stage # "idle"
    PROVE  /\ call[s] \in Call /\ CallRight(call[s]) /\ call[s].at \in Nat
           /\ call[s].run \in Runs /\ call[s].input \in Inputs /\ call[s].policy \in Policies \cup {-1}
<1>1. call[s] # Idle
  BY DEF Idle
<1>2. call[s] \in Call /\ CallRight(call[s])
  BY <1>1 DEF IInv, Types, CallsRight
<1> QED BY <1>2 DEF Call

\* OPA evaluates with the policy in force, which has not ended.
LEMMA EvaluateInv == ASSUME IInv, NEW s \in Slots, Evaluate(s) PROVE IInv'
<1> USE NumberFacts
<1>1. PICK p : p = call[s]
  OBVIOUS
<1>2. p.stage = "post" /\ p \in Call /\ CallRight(p) /\ p.at \in Nat
  BY <1>1, Serving DEF Evaluate
<1>3. PICK q : q = [p EXCEPT !.stage = "response", !.policy = policy]
  OBVIOUS
<1>4. policy \in Policies /\ policy \in Nat /\ ended[policy] = Never /\ clock \in 0 .. MaxClock
  BY DEF IInv, Types, InForce, Policies
<1>5. q \in Call /\ q.stage = "response" /\ q.policy = policy /\ q.at = p.at
  <2>1. q = [stage |-> "response", run |-> p.run, input |-> p.input, at |-> p.at, policy |-> policy,
             votes |-> p.votes, decision |-> p.decision]
    BY <1>2, <1>3 DEF Call
  <2> QED BY <1>2, <1>4, <2>1 DEF Call
<1>6. CallRight(q)
  BY <1>2, <1>4, <1>5 DEF CallRight, Young, VotesRight
<1> QED BY <1>1, <1>3, <1>5, <1>6, OnlyCallInv DEF Evaluate

LEMMA OpaErrorInv == ASSUME IInv, NEW s \in Slots, OpaError(s) PROVE IInv'
<1>1. PICK p : p = call[s]
  OBVIOUS
<1>2. p \in Call /\ CallRight(p)
  BY <1>1, Serving DEF OpaError
<1>3. PICK q : q = [p EXCEPT !.stage = "budget", !.policy = -1, !.votes = {<<"opa", "DENY">>}]
  OBVIOUS
<1>4. q \in Call /\ q.stage = "budget" /\ q.policy = -1 /\ q.at = p.at /\ q.votes = {<<"opa", "DENY">>}
  <2>1. q = [stage |-> "budget", run |-> p.run, input |-> p.input, at |-> p.at, policy |-> -1,
             votes |-> {<<"opa", "DENY">>}, decision |-> p.decision]
    BY <1>2, <1>3 DEF Call
  <2> QED BY <1>2, <2>1 DEF Call, Decisions
<1>5. Voters(q.votes) = {"opa"}
  BY <1>4 DEF Voters
<1>6. CallRight(q)
  BY <1>2, <1>4, <1>5 DEF CallRight, Young, VotesRight
<1> QED BY <1>1, <1>3, <1>4, <1>6, OnlyCallInv DEF OpaError

\* The response is cached for CacheTtl since the evaluation began.
LEMMA ResponseInv == ASSUME IInv, NEW s \in Slots, Response(s) PROVE IInv'
<1> USE NumberFacts
<1>1. PICK p, d, kept, e :
         /\ p = call[s] /\ d = Answer(p.policy, p.input)
         /\ kept = IF Full THEN [i \in Inputs |-> NoEntry] ELSE cache
         /\ e = [policy |-> p.policy, decision |-> d, expires |-> Expiry(p.at)]
  OBVIOUS
<1>2. PICK q : q = [p EXCEPT !.stage = "budget", !.votes = {<<"opa", d>>}]
  OBVIOUS
<1>3. /\ p.stage = "response" /\ cache' = [kept EXCEPT ![p.input] = e] /\ call' = [call EXCEPT ![s] = q]
      /\ clock' = clock /\ policy' = policy /\ ended' = ended /\ booting' = booting /\ begun' = begun
      /\ budget' = budget /\ passed' = passed /\ repeated' = repeated
  BY <1>1, <1>2 DEF Response, opaVars, budgetVars
<1>4. p \in Call /\ CallRight(p) /\ p.at \in Nat /\ p.at <= clock /\ p.policy \in Policies /\ p.input \in Inputs
      /\ ended[p.policy] >= p.at
  BY <1>1, <1>3, Serving DEF CallRight, Young
<1>5. d \in Decisions
  BY <1>1, <1>4, RegoAssumption DEF Answer, Decisions
<1>6. clock \in 0 .. MaxClock /\ ended[p.policy] \in Nat
  BY <1>4 DEF IInv, Types
<1>7. /\ e \in Entries /\ e.expires = p.at + CacheTtl /\ e.policy = p.policy /\ e # NoEntry
  <2>1. e.policy # NoEntry.policy
    BY <1>1, <1>4 DEF NoEntry, Policies
  <2> QED BY <1>1, <1>4, <1>5, <1>6, <2>1 DEF Expiry, Entries
<1>8. kept \in [Inputs -> {NoEntry} \cup Entries] /\ \A i \in Inputs : kept[i] \in {NoEntry, cache[i]}
  BY <1>1 DEF IInv, Types
<1>9. cache'[p.input] = e /\ \A i \in Inputs : i # p.input => cache'[i] = kept[i]
  BY <1>3, <1>4, <1>8
<1>10. cache' \in [Inputs -> {NoEntry} \cup Entries]
  BY <1>3, <1>7, <1>8
<1>11. CacheBounded'
  <2>1. CASE Full
    <3>1. Held' = {p.input}
      BY <1>1, <1>4, <1>7, <1>9, <2>1 DEF Held
    <3>2. IsFiniteSet({p.input}) /\ Cardinality({p.input}) = 1
      BY FS_Singleton
    <3> QED BY <3>1, <3>2 DEF CacheBounded
  <2>2. CASE ~Full
    <3>1. Held' = Held \cup {p.input}
      BY <1>1, <1>4, <1>7, <1>9, <2>2 DEF Held
    <3>2. IsFiniteSet(Held) /\ Cardinality(Held) \in Nat /\ Cardinality(Held) < CacheMax
      BY <2>2, FS_CardinalityType DEF IInv, CacheBounded, Full, Held
    <3>3. IsFiniteSet(Held') /\ Cardinality(Held') \in {Cardinality(Held), Cardinality(Held) + 1}
      BY <3>1, <3>2, FS_AddElement
    <3> QED BY <3>2, <3>3 DEF CacheBounded
  <2> QED BY <2>1, <2>2
<1>12. InForce'
  BY <1>3 DEF IInv, InForce
<1>13. CacheRight'
  <2>1. e.expires <= clock + CacheTtl /\ ended[e.policy] >= e.expires - CacheTtl
    BY <1>4, <1>6, <1>7
  <2> QED BY <1>3, <1>8, <1>9, <2>1 DEF IInv, CacheRight
<1>14. q \in Call /\ q.stage = "budget" /\ q.at = p.at /\ q.policy = p.policy /\ q.votes = {<<"opa", d>>}
  <2>1. q = [stage |-> "budget", run |-> p.run, input |-> p.input, at |-> p.at, policy |-> p.policy,
             votes |-> {<<"opa", d>>}, decision |-> p.decision]
    BY <1>2, <1>4 DEF Call
  <2> QED BY <1>4, <1>5, <2>1 DEF Call
<1>15. CallRight(q)
  <2>1. Voters(q.votes) = {"opa"}
    BY <1>14 DEF Voters
  <2>2. ended[q.policy] > q.at - CacheTtl
    BY <1>4, <1>6, <1>14
  <2> QED BY <1>4, <1>14, <2>1, <2>2 DEF CallRight, Young, VotesRight
<1>16. call' \in [Slots -> {Idle} \cup Call] /\ CallsRight'
  BY <1>3, <1>14, <1>15, CallUpdate DEF IInv
<1>17. Types'
  BY <1>3, <1>10, <1>16 DEF IInv, Types
<1> QED BY <1>3, <1>11, <1>12, <1>13, <1>16, <1>17, BudgetKept DEF IInv

\* The counters after a call.
LEMMA CountedFacts ==
    ASSUME NEW b \in Counters, NEW t \in Inputs, clock \in Nat
    PROVE  /\ Counted(b, t) \in Counters
           /\ Counted(b, t).total = (IF clock < b.until THEN b.total ELSE 0) + 1
           /\ Counted(b, t).last = t
           /\ Counted(b, t).streak = IF clock < b.until /\ b.last = t THEN b.streak + 1 ELSE 1
  BY NumberFacts DEF Counted, Counters

\* Counting a call: what goes through is within the limits, for it was counted.
LEMMA CheckBudgetInv == ASSUME IInv, NEW s \in Slots, CheckBudget(s) PROVE IInv'
<1> USE NumberFacts
<1>1. PICK p, r, old : p = call[s] /\ r = p.run /\ old = budget[r]
  OBVIOUS
<1>2. PICK b, vote : b = Counted(old, p.input) /\ vote = BudgetVote(b)
  OBVIOUS
<1>3. PICK rep, inc : rep = repeated[r] /\ inc = IF vote # "DENY" THEN 1 ELSE 0
  OBVIOUS
<1>4. PICK np, nr : /\ np = (IF clock >= old.until THEN 0 ELSE passed[r]) + inc
                    /\ nr = IF rep.tool = p.input /\ ~(clock >= old.until) THEN [rep EXCEPT !.n = rep.n + inc]
                            ELSE [tool |-> p.input, n |-> inc]
  OBVIOUS
<1>5. PICK q : q = [p EXCEPT !.stage = "pii", !.votes = p.votes \cup {<<"budget", vote>>}]
  OBVIOUS
<1>6. /\ p.stage = "budget" /\ p.input # NoTool /\ budget' = [budget EXCEPT ![r] = b]
      /\ call' = [call EXCEPT ![s] = q]
      /\ clock' = clock /\ policy' = policy /\ ended' = ended /\ booting' = booting /\ cache' = cache /\ begun' = begun
  <2>1. /\ call[s].stage = "budget" /\ call[s].input # NoTool
        /\ budget' = [budget EXCEPT ![call[s].run] = Counted(budget[call[s].run], call[s].input)]
        /\ UNCHANGED <<clock, opaVars, cache, begun>>
    BY DEF CheckBudget
  <2>2. call' = [call EXCEPT ![s] = [call[s] EXCEPT !.stage = "pii", !.votes = call[s].votes \cup
                   {<<"budget", BudgetVote(Counted(budget[call[s].run], call[s].input))>>}]]
    BY DEF CheckBudget
  <2>3. call' = [call EXCEPT ![s] = q]
    BY <1>1, <1>2, <1>5, <2>2
  <2> QED BY <1>1, <1>2, <2>1, <2>3 DEF opaVars
<1>7. p \in Call /\ CallRight(p) /\ r \in Runs /\ p.input \in Inputs
  BY <1>1, <1>6, Serving
<1>8. /\ clock \in Nat /\ old \in Counters /\ old.total \in Nat /\ old.streak \in Nat /\ old.until \in Nat
      /\ rep \in [tool : Inputs, n : Nat] /\ rep.n \in Nat /\ rep.tool \in Inputs /\ passed[r] \in Nat
      /\ inc \in {0, 1} /\ inc \in Nat
  BY <1>1, <1>3, <1>7 DEF IInv, Types, Counters
<1>9. /\ b \in Counters /\ b.last = p.input /\ b.total \in Nat /\ b.streak \in Nat
      /\ b.total = (IF clock < old.until THEN old.total ELSE 0) + 1
      /\ b.streak = IF clock < old.until /\ old.last = p.input THEN old.streak + 1 ELSE 1
  <2>1. b \in Counters
    BY <1>2, <1>7, <1>8, CountedFacts
  <2> QED BY <1>2, <1>7, <1>8, <2>1, CountedFacts DEF Counters
<1>10. vote \in Decisions
  BY <1>2 DEF BudgetVote, Decisions
<1>11. inc = 1 => b.total <= MAX_CALLS_PER_RUN /\ b.streak <= MAX_SAME_TOOL_STREAK
  BY <1>2, <1>3, <1>9 DEF BudgetVote
<1>12. passed' = [passed EXCEPT ![r] = np] /\ repeated' = [repeated EXCEPT ![r] = nr]
  <2>1. /\ passed' = [passed EXCEPT ![call[s].run] =
             (IF clock >= budget[call[s].run].until THEN 0 ELSE passed[call[s].run])
             + (IF BudgetVote(Counted(budget[call[s].run], call[s].input)) # "DENY" THEN 1 ELSE 0)]
    BY DEF CheckBudget
  <2>2. repeated' = [repeated EXCEPT ![call[s].run] =
             IF repeated[call[s].run].tool = call[s].input /\ ~(clock >= budget[call[s].run].until)
             THEN [repeated[call[s].run] EXCEPT !.n = repeated[call[s].run].n
                   + (IF BudgetVote(Counted(budget[call[s].run], call[s].input)) # "DENY" THEN 1 ELSE 0)]
             ELSE [tool |-> call[s].input,
                   n |-> IF BudgetVote(Counted(budget[call[s].run], call[s].input)) # "DENY" THEN 1 ELSE 0]]
    BY DEF CheckBudget
  <2> QED BY <1>1, <1>2, <1>3, <1>4, <2>1, <2>2
<1>13. /\ passed[r] <= old.total /\ passed[r] <= MAX_CALLS_PER_RUN /\ rep.tool = old.last
       /\ rep.n <= old.streak /\ rep.n <= MAX_SAME_TOOL_STREAK
  BY <1>1, <1>3, <1>7 DEF IInv, BudgetRight
<1>14. np \in Nat /\ np <= b.total /\ np <= MAX_CALLS_PER_RUN
  BY <1>4, <1>8, <1>9, <1>11, <1>13
<1>15. nr \in [tool : Inputs, n : Nat] /\ nr.tool = p.input /\ nr.n <= b.streak /\ nr.n <= MAX_SAME_TOOL_STREAK
  <2>1. CASE rep.tool = p.input /\ clock < old.until
    <3>1. nr = [tool |-> p.input, n |-> rep.n + inc]
      BY <1>4, <1>8, <2>1
    <3>2. nr.n = rep.n + inc /\ nr.tool = p.input /\ b.streak = old.streak + 1
      BY <1>9, <1>13, <2>1, <3>1
    <3> QED BY <1>7, <1>8, <1>9, <1>11, <1>13, <3>1, <3>2
  <2>2. CASE ~(rep.tool = p.input /\ clock < old.until)
    <3>1. nr = [tool |-> p.input, n |-> inc]
      BY <1>4, <1>8, <2>2
    <3> QED BY <1>7, <1>8, <1>9, <1>11, <1>13, <3>1
  <2> QED BY <2>1, <2>2
<1>16. /\ budget' \in [Runs -> Counters] /\ passed' \in [Runs -> Nat] /\ repeated' \in [Runs -> [tool : Inputs, n : Nat]]
       /\ budget'[r] = b /\ passed'[r] = np /\ repeated'[r] = nr
       /\ \A o \in Runs : o # r => budget'[o] = budget[o] /\ passed'[o] = passed[o] /\ repeated'[o] = repeated[o]
  BY <1>6, <1>7, <1>9, <1>12, <1>14, <1>15 DEF IInv, Types
<1>17. BudgetRight'
  BY <1>9, <1>14, <1>15, <1>16 DEF IInv, BudgetRight
<1>18. q \in Call /\ q.stage = "pii" /\ q.at = p.at /\ q.policy = p.policy /\ q.input = p.input
       /\ q.votes = p.votes \cup {<<"budget", vote>>}
  <2>1. q = [stage |-> "pii", run |-> p.run, input |-> p.input, at |-> p.at, policy |-> p.policy,
             votes |-> p.votes \cup {<<"budget", vote>>}, decision |-> p.decision]
    BY <1>5, <1>7 DEF Call
  <2> QED BY <1>7, <1>10, <2>1 DEF Call
<1>19. CallRight(q)
  <2>1. Voters(q.votes) = {"opa", "budget"}
    <3>1. Voters(p.votes) = {"opa"}
      BY <1>6, <1>7 DEF CallRight, VotesRight
    <3>2. Voters(p.votes \cup {<<"budget", vote>>}) = Voters(p.votes) \cup {"budget"}
      BY VotersAdd
    <3> QED BY <1>18, <3>1, <3>2
  <2>2. Young(q)
    BY <1>6, <1>7, <1>18 DEF CallRight, Young
  <2>3. VotesRight(q)
    BY <1>6, <1>18, <2>1 DEF VotesRight, Asked
  <2> QED BY <2>2, <2>3 DEF CallRight
<1>20. call' \in [Slots -> {Idle} \cup Call] /\ CallsRight'
  BY <1>6, <1>18, <1>19, CallUpdate DEF IInv
<1>21. Types'
  BY <1>6, <1>16, <1>20 DEF IInv, Types
<1> QED BY <1>6, <1>17, <1>20, <1>21, EngineKept DEF IInv

LEMMA SkipBudgetInv == ASSUME IInv, NEW s \in Slots, SkipBudget(s) PROVE IInv'
<1>1. PICK p : p = call[s]
  OBVIOUS
<1>2. p.stage = "budget" /\ p.input = NoTool /\ p \in Call /\ CallRight(p)
  BY <1>1, Serving DEF SkipBudget
<1>3. PICK q : q = [p EXCEPT !.stage = "pii"]
  OBVIOUS
<1>4. q \in Call /\ q.stage = "pii" /\ q.policy = p.policy /\ q.at = p.at /\ q.votes = p.votes /\ q.input = p.input
  <2>1. q = [stage |-> "pii", run |-> p.run, input |-> p.input, at |-> p.at, policy |-> p.policy,
             votes |-> p.votes, decision |-> p.decision]
    BY <1>2, <1>3 DEF Call
  <2> QED BY <1>2, <2>1 DEF Call
<1>5. CallRight(q)
  BY <1>2, <1>4 DEF CallRight, Young, VotesRight, Asked
<1> QED BY <1>1, <1>3, <1>4, <1>5, OnlyCallInv DEF SkipBudget

LEMMA CheckFailsInv == ASSUME IInv, NEW s \in Slots, CheckFails(s) PROVE IInv'
<1>1. PICK p : p = call[s]
  OBVIOUS
<1>2. p \in Call /\ CallRight(p)
  BY <1>1, Serving DEF CheckFails
<1>3. PICK q : q = [p EXCEPT !.stage = "dropped"]
  OBVIOUS
<1>4. q \in Call /\ q.stage = "dropped" /\ q.at = p.at
  <2>1. q = [stage |-> "dropped", run |-> p.run, input |-> p.input, at |-> p.at, policy |-> p.policy,
             votes |-> p.votes, decision |-> p.decision]
    BY <1>2, <1>3 DEF Call
  <2> QED BY <1>2, <2>1 DEF Call
<1>5. CallRight(q)
  BY <1>2, <1>4 DEF CallRight, Young, VotesRight
<1> QED BY <1>1, <1>3, <1>4, <1>5, OnlyCallInv DEF CheckFails

\* One DENY among the votes is a DENY.
LEMMA FinalFacts ==
    ASSUME NEW votes
    PROVE  Final(votes) \in Decisions /\ (Final(votes) # "DENY" => \A v \in votes : v[2] # "DENY")
<1>1. Final(votes) \in Decisions
  BY DEF Final, Decisions
<1>2. ASSUME NEW v \in votes, v[2] = "DENY" PROVE Final(votes) = "DENY"
  <2>1. "DENY" \in {w[2] : w \in votes}
    BY <1>2
  <2> QED BY <2>1 DEF Final
<1> QED BY <1>1, <1>2

\* The answer, after the last vote.
LEMMA AnsweredInv == ASSUME IInv, NEW s \in Slots, Answered(s) PROVE IInv'
<1>1. PICK p : p = call[s]
  OBVIOUS
<1>2. p.stage = "pii" /\ p \in Call /\ CallRight(p)
  BY <1>1, Serving DEF Answered
<1>3. PICK found \in PiiVotes(p.input) :
        call' = [call EXCEPT ![s] = [p EXCEPT !.stage = "answered", !.votes = p.votes \cup found,
                                              !.decision = Final(p.votes \cup found)]]
  BY <1>1 DEF Answered
<1>4. PICK votes : votes = p.votes \cup found
  OBVIOUS
<1>5. PICK q : q = [p EXCEPT !.stage = "answered", !.votes = votes, !.decision = Final(votes)]
  OBVIOUS
<1>6. /\ Voters(votes) = Asked(p) \cup (IF p.input \in OUTBOUND_TOOLS THEN {"pii"} ELSE {})
      /\ votes \subseteq {"opa", "budget", "pii"} \X Decisions
  <2>1. Voters(p.votes) = Asked(p) /\ p.votes \subseteq {"opa", "budget", "pii"} \X Decisions
    BY <1>2 DEF CallRight, VotesRight, Call
  <2>2. CASE p.input \in OUTBOUND_TOOLS
    <3>1. PICK d \in {"ALLOW", "DENY"} : found = {<<"pii", d>>}
      BY <2>2 DEF PiiVotes
    <3>2. Voters(p.votes \cup {<<"pii", d>>}) = Voters(p.votes) \cup {"pii"}
      BY VotersAdd
    <3> QED BY <1>4, <2>1, <2>2, <3>1, <3>2 DEF Decisions
  <2>3. CASE p.input \notin OUTBOUND_TOOLS
    <3>1. found = {}
      BY <2>3 DEF PiiVotes
    <3>2. votes = p.votes
      BY <1>4, <3>1
    <3> QED BY <2>1, <2>3, <3>2
  <2> QED BY <2>2, <2>3
<1>7. /\ q \in Call /\ q.stage = "answered" /\ q.policy = p.policy /\ q.at = p.at /\ q.votes = votes
      /\ q.input = p.input /\ q.decision = Final(votes)
  <2>1. q = [stage |-> "answered", run |-> p.run, input |-> p.input, at |-> p.at, policy |-> p.policy,
             votes |-> votes, decision |-> Final(votes)]
    BY <1>2, <1>5 DEF Call
  <2>2. Final(votes) \in Decisions
    BY FinalFacts
  <2> QED BY <1>2, <1>6, <2>1, <2>2 DEF Call
<1>8. CallRight(q)
  <2>1. Young(q)
    BY <1>2, <1>7 DEF CallRight, Young
  <2>2. q.decision # "DENY" => \A v \in q.votes : v[2] # "DENY"
    BY <1>7, FinalFacts
  <2>3. VotesRight(q)
    BY <1>6, <1>7, <2>2 DEF VotesRight, Asked
  <2> QED BY <2>1, <2>3 DEF CallRight
<1> QED BY <1>1, <1>3, <1>4, <1>5, <1>7, <1>8, OnlyCallInv DEF Answered

LEMMA StutterInv == ASSUME IInv, UNCHANGED vars PROVE IInv'
<1>1. /\ clock' = clock /\ policy' = policy /\ ended' = ended /\ booting' = booting /\ cache' = cache
      /\ call' = call /\ begun' = begun /\ budget' = budget /\ passed' = passed /\ repeated' = repeated
  BY DEF vars
<1>2. Types'
  BY <1>1 DEF IInv, Types
<1>3. CallsRight'
  BY <1>1 DEF IInv, CallsRight, CallRight, Young, VotesRight, Asked, Voters
<1> QED BY <1>1, <1>2, <1>3, EngineKept, BudgetKept DEF IInv

\* The inductive invariant holds in every reachable state.
LEMMA AlwaysInv == Spec => []IInv
<1>1. IInv /\ [Next]_vars => IInv'
  BY TickInv, PutPolicyInv, BootInv, BeginInv, EvaluateInv, ResponseInv, OpaErrorInv, CheckBudgetInv,
     SkipBudgetInv, CheckFailsInv, AnsweredInv, StutterInv DEF Next
<1> QED BY <1>1, InitInv, PTL DEF Spec

\* A vote of the policy engine is that of a policy that was in force less than CacheTtl before the
\* decision began, however many decisions overlap (OpaClient.evaluate, load_policy).
THEOREM VotesAreFresh == Spec => []StalenessBounded
<1>1. IInv => StalenessBounded
  <2> SUFFICES ASSUME IInv, NEW s \in Slots, call[s].stage \in {"budget", "pii", "answered"}, call[s].policy # -1
               PROVE  ended[call[s].policy] > call[s].at - CacheTtl
    BY DEF StalenessBounded
  <2> QED BY Serving DEF CallRight, Young
<1> QED BY <1>1, AlwaysInv, PTL

\* Anything but DENY is answered only after every check the event calls for has voted, none of them
\* DENY, and no run gets more through than its budget (decide, BudgetEnforcer.check).
THEOREM NothingSkipped == Spec => []ChecksHold
<1>1. IInv => TypeOK
  <2> SUFFICES ASSUME IInv PROVE TypeOK
    OBVIOUS
  <2>1. Types /\ CacheBounded
    BY DEF IInv
  <2>2. \A i \in Inputs : cache[i] = NoEntry \/ cache[i] \in Entries
    BY <2>1 DEF Types
  <2>3. \A s \in Slots : call[s] = Idle \/ call[s] \in Call
    BY <2>1 DEF Types
  <2> QED BY <2>1, <2>2, <2>3 DEF TypeOK, Types, CacheBounded, Held, Entries, Counters
<1>2. IInv => AnsweredAfterChecks
  <2> SUFFICES ASSUME IInv, NEW s \in Slots, call[s].stage = "answered", call[s].decision # "DENY"
               PROVE  /\ Voters(call[s].votes) = Asked(call[s]) \cup
                           (IF call[s].input \in OUTBOUND_TOOLS THEN {"pii"} ELSE {})
                      /\ \A v \in call[s].votes : v[2] # "DENY"
    BY DEF AnsweredAfterChecks, Voters, Asked
  <2> QED BY Serving DEF CallRight, VotesRight
<1>3. IInv => CapsHold
  BY DEF IInv, BudgetRight, CapsHold
<1> QED BY <1>1, <1>2, <1>3, AlwaysInv, PTL DEF ChecksHold
================================================================================
