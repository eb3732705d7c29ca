------------------------------ MODULE Sampler ------------------------------
(* async_pipeline/sampler.py and budget_tracker.py: the Sampler decides     *)
(* whether a run is audited.  Its novelty index is a pair of Redis sets per *)
(* tenant, which the samplers of several processes read and extend in       *)
(* separate commands; the in-memory index does the same in one step.        *)
EXTENDS Integers, FiniteSets

CONSTANTS Samplers,     \* processes with a Sampler
          Tools, Hosts, \* tools and egress domains of runs
          Scores,       \* values of cheap_risk_score
          Cap,          \* daily_cap_usd
          Costs,        \* what a judge call costs
          MaxRuns       \* bound: decisions

CRITICAL_RISK_THRESHOLD == 70

ASSUME SamplerAssumption == /\ Samplers # {} /\ Tools \cap Hosts = {}
                            /\ Scores \subseteq Nat /\ Costs \subseteq Nat /\ Cap \in Nat /\ MaxRuns \in Nat

VARIABLES backend,   \* "memory" or "redis"
          seen,      \* the tools and egress domains of the index
          decide,    \* one decide() per process
          spent,     \* what today's judge calls cost
          runs,      \* decisions begun
          audited,   \* ghost: what the audited runs used
          skipped,   \* ghost: what the runs used that were not audited
          raised     \* ghost: what the runs used whose decision raised
samplerVars == <<backend, seen, decide, spent, runs, audited, skipped, raised>>

Resting == [pc |-> "idle"]
SamplerInit ==
    /\ backend \in {"memory", "redis"}
    /\ seen = {} /\ spent = 0 /\ runs = 0
    /\ decide = [p \in Samplers |-> Resting]
    /\ audited = {} /\ skipped = {} /\ raised = {}

RunSignals == [divergence : BOOLEAN, score : Scores, sensitive : BOOLEAN, allowlisted : BOOLEAN,
               uses : SUBSET (Tools \cup Hosts), incidents : BOOLEAN]

(* The triggers that are tested before the novelty index is asked. *)
HardTrigger(s) == \/ s.divergence
                  \/ s.score >= CRITICAL_RISK_THRESHOLD
                  \/ s.sensitive /\ ~s.allowlisted

has_budget == spent < Cap

(* The tiers after the novelty test; in_stratum says whether the hash of    *)
(* tenant, category and run falls below the rate.                           *)
Tier(s, novel, in_stratum) ==
    IF novel \/ s.incidents THEN "L1"
    ELSE IF ~in_stratum THEN "NONE"
    ELSE IF has_budget THEN "L2" ELSE "L3"
Audits(tier) == tier # "NONE"
judge_allowed(tier) == tier \in {"L1", "L2"}

Decided(s, tier) ==
    /\ audited' = IF Audits(tier) THEN audited \cup s.uses ELSE audited
    /\ skipped' = IF Audits(tier) THEN skipped ELSE skipped \cup s.uses

(* decide() of a run with a hard trigger: the index does not learn from it. *)
DecideForced(p, s) ==
    /\ decide[p].pc = "idle" /\ runs < MaxRuns
    /\ HardTrigger(s)
    /\ runs' = runs + 1
    /\ Decided(s, "L1")
    /\ UNCHANGED <<backend, seen, decide, spent, raised>>

\* Mutated form: the index is extended before it is compared.
NovelAfterUpdate(uses, known) == ~(uses \subseteq known \cup uses)

Novel(uses, known) == ~(uses \subseteq known)

(* InMemoryNoveltyIndex.is_novel and the rest of decide(). *)
DecideInMemory(p, s, in_stratum) ==
    /\ backend = "memory" /\ decide[p].pc = "idle" /\ runs < MaxRuns
    /\ ~HardTrigger(s)
    /\ runs' = runs + 1
    /\ seen' = seen \cup s.uses
    /\ Decided(s, Tier(s, Novel(s.uses, seen), in_stratum))
    /\ UNCHANGED <<backend, decide, spent, raised>>

(* RedisNoveltyIndex.is_novel asks which tools are missing ... *)
ReadTools(p, s) ==
    /\ backend = "redis" /\ decide[p].pc = "idle" /\ runs < MaxRuns
    /\ ~HardTrigger(s)
    /\ runs' = runs + 1
    /\ decide' = [decide EXCEPT ![p] = [pc |-> "read", uses |-> s.uses, incidents |-> s.incidents,
                                             new |-> (s.uses \cap Tools) \ seen]]
    /\ UNCHANGED <<backend, seen, spent, audited, skipped, raised>>

(* ... which domains are missing ... *)
ReadHosts(p) ==
    /\ decide[p].pc = "read"
    /\ decide' = [decide EXCEPT ![p] = [@ EXCEPT !.pc = "tools",
                                   !.new = decide[p].new \cup ((decide[p].uses \cap Hosts) \ seen)]]
    /\ UNCHANGED <<backend, seen, spent, runs, audited, skipped, raised>>

(* ... and adds the missing ones in two commands. *)
AddTools(p) ==
    /\ decide[p].pc = "tools"
    /\ seen' = seen \cup (decide[p].new \cap Tools)
    /\ decide' = [decide EXCEPT ![p].pc = "hosts"]
    /\ UNCHANGED <<backend, spent, runs, audited, skipped, raised>>

AddHosts(p) ==
    /\ decide[p].pc = "hosts"
    /\ seen' = seen \cup (decide[p].new \cap Hosts)
    /\ decide' = [decide EXCEPT ![p].pc = "tier"]
    /\ UNCHANGED <<backend, spent, runs, audited, skipped, raised>>

DecideTier(p, in_stratum) ==
    /\ decide[p].pc = "tier"
    /\ Decided(decide[p], Tier(decide[p], decide[p].new # {}, in_stratum))
    /\ decide' = [decide EXCEPT ![p] = Resting]
    /\ UNCHANGED <<backend, seen, spent, runs, raised>>

(* Redis is gone: decide() raises, and what was added stays added. *)
RedisFails(p) ==
    /\ decide[p].pc \in {"read", "tools", "hosts"}
    /\ raised' = raised \cup decide[p].uses
    /\ decide' = [decide EXCEPT ![p] = Resting]
    /\ UNCHANGED <<backend, seen, spent, runs, audited, skipped>>

(* record_cost; midnight is a new key of the dictionary. *)
record_cost(usd) ==
    /\ spent < Cap
    /\ spent' = spent + usd
    /\ UNCHANGED <<backend, seen, decide, runs, audited, skipped, raised>>
Midnight ==
    /\ spent > 0 /\ spent' = 0
    /\ UNCHANGED <<backend, seen, decide, runs, audited, skipped, raised>>

SamplerNext == \/ \E p \in Samplers :
                    \/ \E s \in RunSignals :
                          \/ DecideForced(p, s)
                          \/ \E in_stratum \in BOOLEAN : DecideInMemory(p, s, in_stratum)
                          \/ ReadTools(p, s)
                    \/ ReadHosts(p)
                    \/ AddTools(p)
                    \/ AddHosts(p)
                    \/ \E in_stratum \in BOOLEAN : DecideTier(p, in_stratum)
                    \/ RedisFails(p)
               \/ \E usd \in Costs : record_cost(usd)
               \/ Midnight

-----------------------------------------------------------------------------
(* No run slips through with something the tenant never used before: what a *)
(* run used that was not audited was also used by one that was audited, or  *)
(* whose decision is under way, or was lost with Redis.  The index alone    *)
(* does not give this: runs with a hard trigger never reach it.             *)
FirstUseAudited ==
    skipped \subseteq audited \cup raised
                      \cup UNION {decide[p].uses : p \in {q \in Samplers : decide[q].pc # "idle"}}
=============================================================================
