-------------------------- MODULE AsyncServicesProofs --------------------------
(***************************************************************************)
(* For any number of callers, processes, polls and runs: what the judge    *)
(* answers was said by a model about this very slice; nothing a run used   *)
(* for the first time slips past the Sampler; and the console settles on   *)
(* no verdict that was not stored.                                         *)
(***************************************************************************)
EXTENDS AsyncServices, TLAPS

------------------------------------------------------------------------------
(* The Sampler: what the index knows was used by a run that was audited,    *)
(* lost with Redis, or is held as new by a decision under way, which will   *)
(* audit or be lost.                                                        *)

Deciding(p) == decide[p].pc # "idle"
Carried == UNION {decide[p].new : p \in {q \in Samplers : Deciding(q)}}
Covered == audited \cup raised \cup Carried

\* A decision under way has read the index: what it does not hold as new is covered.
DecisionRight(p) ==
    /\ decide[p].pc \in {"read", "tools", "hosts", "tier"}
    /\ decide[p].new \subseteq decide[p].uses /\ decide[p].uses \subseteq Tools \cup Hosts
    /\ (decide[p].uses \cap Tools) \ decide[p].new \subseteq Covered
    /\ decide[p].pc # "read" => decide[p].uses \ decide[p].new \subseteq Covered

DecisionSet == [pc : {"read", "tools", "hosts", "tier"}, uses : SUBSET (Tools \cup Hosts), incidents : BOOLEAN,
                new : SUBSET (Tools \cup Hosts)]
SamplerInv ==
    /\ decide \in [Samplers -> {Resting} \cup DecisionSet]
    /\ seen \subseteq Covered /\ skipped \subseteq Covered
    /\ \A p \in Samplers : Deciding(p) => DecisionRight(p)

\* A step of one decision: its new record, and no coverage is lost.
LEMMA DecisionStep ==
    ASSUME SamplerInv, NEW p \in Samplers, NEW q \in {Resting} \cup DecisionSet,
           decide' = [decide EXCEPT ![p] = q], Covered \subseteq Covered',
           seen' \subseteq Covered', skipped' \subseteq Covered',
           q.pc # "idle" => DecisionRight(p)'
    PROVE  SamplerInv'
<1>1. decide'[p] = q /\ \A o \in Samplers : o # p => decide'[o] = decide[o]
  BY DEF SamplerInv
<1>2. decide' \in [Samplers -> {Resting} \cup DecisionSet]
  BY DEF SamplerInv
<1>3. ASSUME NEW o \in Samplers, Deciding(o)' PROVE DecisionRight(o)'
  <2>1. CASE o = p
    BY <1>1, <1>3, <2>1 DEF Deciding
  <2>2. CASE o # p
    <3>1. DecisionRight(o)
      BY <1>1, <1>3, <2>2 DEF SamplerInv, Deciding
    <3> QED BY <1>1, <2>2, <3>1 DEF DecisionRight
  <2> QED BY <2>1, <2>2
<1> QED BY <1>2, <1>3 DEF SamplerInv

\* What is carried after a step of p: what the others carry, and what p does.
LEMMA CarriedStep ==
    ASSUME SamplerInv, NEW p \in Samplers, NEW q \in {Resting} \cup DecisionSet, decide' = [decide EXCEPT ![p] = q]
    PROVE  /\ Carried' \subseteq Carried \cup q.new
           /\ Deciding(p) => Carried \subseteq Carried' \cup decide[p].new
           /\ ~Deciding(p) => Carried \subseteq Carried'
           /\ q.pc # "idle" => q.new \subseteq Carried'
<1>1. decide'[p] = q /\ \A o \in Samplers : o # p => decide'[o] = decide[o]
  BY DEF SamplerInv
<1>2. ASSUME NEW x \in Carried' PROVE x \in Carried \cup q.new
  <2>1. PICK o \in Samplers : Deciding(o)' /\ x \in decide'[o].new
    BY <1>2 DEF Carried
  <2> QED BY <1>1, <2>1 DEF Carried, Deciding
<1>3. ASSUME NEW x \in Carried PROVE x \in Carried' \/ (Deciding(p) /\ x \in decide[p].new)
  <2>1. PICK o \in Samplers : Deciding(o) /\ x \in decide[o].new
    BY <1>3 DEF Carried
  <2>2. CASE o # p
    BY <1>1, <2>1, <2>2 DEF Carried, Deciding
  <2> QED BY <2>1, <2>2
<1>4. ASSUME q.pc # "idle" PROVE q.new \subseteq Carried'
  <2>1. Deciding(p)'
    BY <1>1, <1>4 DEF Deciding
  <2> QED BY <1>1, <2>1 DEF Carried
<1> QED BY <1>2, <1>3, <1>4

LEMMA SamplerInitInv == SamplerInit => SamplerInv
<1> SUFFICES ASSUME SamplerInit PROVE SamplerInv
  OBVIOUS
<1>1. \A p \in Samplers : ~Deciding(p)
  BY DEF SamplerInit, Deciding, Resting
<1> QED BY <1>1 DEF SamplerInit, SamplerInv

\* decide() without a Redis command between its steps: what is audited and what is known grow together.
LEMMA AtOnceInv ==
    ASSUME SamplerInv, NEW s \in RunSignals, UNCHANGED <<decide, raised>>,
           \/ UNCHANGED seen /\ Decided(s, "L1")
           \/ \E in_stratum \in BOOLEAN : /\ seen' = seen \cup s.uses
                                          /\ Decided(s, Tier(s, Novel(s.uses, seen), in_stratum))
    PROVE  SamplerInv'
<1>1. decide' = decide /\ raised' = raised /\ Carried' = Carried
  BY DEF Carried, Deciding
<1>2. audited' = audited \cup s.uses \/ (audited' = audited /\ s.uses \subseteq seen)
  BY DEF Decided, Audits, Tier, Novel
<1>3. skipped' = skipped \/ (skipped' = skipped \cup s.uses /\ s.uses \subseteq seen)
  BY DEF Decided, Audits, Tier, Novel
<1>4. Covered \subseteq Covered'
  BY <1>1, <1>2 DEF Covered
<1>5. seen' \subseteq Covered' /\ skipped' \subseteq Covered'
  BY <1>1, <1>2, <1>3 DEF SamplerInv, Covered
<1>6. ASSUME NEW o \in Samplers, Deciding(o)' PROVE DecisionRight(o)'
  <2>1. DecisionRight(o)
    BY <1>1, <1>6 DEF SamplerInv, Deciding
  <2> QED BY <1>1, <1>4, <2>1 DEF DecisionRight
<1> QED BY <1>1, <1>5, <1>6 DEF SamplerInv

\* The index is asked for the tools: what it knows is covered.
LEMMA ReadToolsInv == ASSUME SamplerInv, NEW p \in Samplers, NEW s \in RunSignals, ReadTools(p, s) PROVE SamplerInv'
<1>1. PICK q : q = [pc |-> "read", uses |-> s.uses, incidents |-> s.incidents, new |-> (s.uses \cap Tools) \ seen]
  OBVIOUS
<1>2. /\ decide' = [decide EXCEPT ![p] = q] /\ seen' = seen /\ skipped' = skipped /\ audited' = audited
      /\ raised' = raised /\ ~Deciding(p)
  BY <1>1 DEF ReadTools, Deciding
<1>3. q \in DecisionSet /\ q.pc = "read" /\ q.uses = s.uses /\ q.new = (s.uses \cap Tools) \ seen
  BY <1>1 DEF DecisionSet, RunSignals
<1>4. Covered \subseteq Covered'
  BY <1>2, <1>3, CarriedStep DEF Covered
<1>5. decide'[p] = q
  BY <1>2 DEF SamplerInv
<1>6. DecisionRight(p)'
  BY <1>3, <1>4, <1>5 DEF SamplerInv, DecisionRight, DecisionSet
<1> QED BY <1>2, <1>3, <1>4, <1>6, DecisionStep DEF SamplerInv

LEMMA UnderWay ==
    ASSUME SamplerInv, NEW p \in Samplers, decide[p].pc # "idle"
    PROVE  decide[p] \in DecisionSet /\ DecisionRight(p) /\ Deciding(p) /\ decide[p].new \subseteq Carried
<1>1. Deciding(p) /\ decide[p] # Resting
  BY DEF Deciding, Resting
<1> QED BY <1>1 DEF SamplerInv, Carried

\* Asking for the domains, and adding what is missing.
LEMMA GoesOnInv ==
    ASSUME SamplerInv, NEW p \in Samplers, ReadHosts(p) \/ AddTools(p) \/ AddHosts(p)
    PROVE  SamplerInv'
<1>1. PICK d : d = decide[p]
  OBVIOUS
<1>2. d \in DecisionSet /\ DecisionRight(p) /\ Deciding(p) /\ d.new \subseteq Carried
  BY <1>1, UnderWay DEF ReadHosts, AddTools, AddHosts
<1>3. PICK q \in DecisionSet :
         /\ decide' = [decide EXCEPT ![p] = q] /\ q.pc # "read" /\ q.uses = d.uses
         /\ d.new \subseteq q.new /\ q.new \subseteq d.uses
         /\ d.pc = "read" => (d.uses \cap Hosts) \ q.new \subseteq seen
  <2>1. CASE ReadHosts(p)
    <3>1. PICK new : new = d.new \cup ((d.uses \cap Hosts) \ seen)
      OBVIOUS
    <3>2. PICK q : q = [d EXCEPT !.pc = "tools", !.new = new]
      OBVIOUS
    <3>3. d.new \subseteq d.uses /\ new \subseteq d.uses /\ d.new \subseteq new /\ (d.uses \cap Hosts) \ new \subseteq seen
      BY <1>1, <1>2, <3>1 DEF DecisionRight
    <3>4. q = [pc |-> "tools", uses |-> d.uses, incidents |-> d.incidents, new |-> new]
      BY <1>2, <3>2 DEF DecisionSet
    <3>5. q \in DecisionSet /\ q.pc = "tools" /\ q.uses = d.uses /\ q.new = new
      BY <1>2, <3>3, <3>4 DEF DecisionSet
    <3>6. decide' = [decide EXCEPT ![p] = q]
      BY <1>1, <2>1, <3>1, <3>2 DEF ReadHosts
    <3> QED BY <3>3, <3>5, <3>6
  <2>2. CASE AddTools(p) \/ AddHosts(p)
    <3>1. PICK pc \in {"hosts", "tier"} : decide' = [decide EXCEPT ![p].pc = pc]
      BY <2>2 DEF AddTools, AddHosts
    <3>2. PICK q : q = [pc |-> pc, uses |-> d.uses, incidents |-> d.incidents, new |-> d.new]
      OBVIOUS
    <3>3. q \in DecisionSet
      BY <1>2, <3>2 DEF DecisionSet
    <3>4. decide' = [decide EXCEPT ![p] = q]
      <4>1. decide' = [decide EXCEPT ![p] = [d EXCEPT !.pc = pc]]
        BY <1>1, <3>1
      <4>2. [d EXCEPT !.pc = pc] = q
        BY <1>2, <3>2 DEF DecisionSet
      <4> QED BY <4>1, <4>2
    <3>5. d.new \subseteq d.uses /\ d.pc # "read"
      BY <1>1, <1>2, <2>2 DEF DecisionRight, AddTools, AddHosts
    <3> QED BY <3>2, <3>3, <3>4, <3>5
  <2> QED BY <2>1, <2>2
<1>4. /\ skipped' = skipped /\ audited' = audited /\ raised' = raised
      /\ seen \subseteq seen' /\ seen' \subseteq seen \cup d.new
  BY <1>1 DEF ReadHosts, AddTools, AddHosts
<1>5. q.new \subseteq Carried' /\ Carried \subseteq Carried'
  BY <1>1, <1>2, <1>3, CarriedStep DEF DecisionSet
<1>6. Covered \subseteq Covered'
  BY <1>4, <1>5 DEF Covered
<1>7. decide'[p] = q
  BY <1>3 DEF SamplerInv
<1>8. d.uses \ q.new \subseteq Covered
  BY <1>1, <1>2, <1>3 DEF SamplerInv, DecisionRight
<1>9. DecisionRight(p)'
  BY <1>1, <1>2, <1>3, <1>6, <1>7, <1>8 DEF DecisionRight, DecisionSet
<1>10. seen' \subseteq Covered' /\ skipped' \subseteq Covered'
  BY <1>2, <1>4, <1>6 DEF SamplerInv, Covered
<1> QED BY <1>3, <1>6, <1>9, <1>10, DecisionStep

\* The decision ends: what it held as new is audited, or lost with Redis.
LEMMA EndsInv ==
    ASSUME SamplerInv, NEW p \in Samplers,
           RedisFails(p) \/ \E in_stratum \in BOOLEAN : DecideTier(p, in_stratum)
    PROVE  SamplerInv'
<1>1. PICK d : d = decide[p]
  OBVIOUS
<1>2. d \in DecisionSet /\ DecisionRight(p) /\ Deciding(p) /\ d.new \subseteq Carried
  BY <1>1, UnderWay DEF RedisFails, DecideTier
<1>3. decide' = [decide EXCEPT ![p] = Resting] /\ seen' = seen /\ audited \subseteq audited' /\ raised \subseteq raised'
  BY DEF RedisFails, DecideTier, Decided
<1>4. d.new \subseteq audited' \cup raised'
  <2>1. d.new \subseteq d.uses
    BY <1>1, <1>2 DEF DecisionRight
  <2> QED BY <1>1, <2>1 DEF RedisFails, DecideTier, Decided, Tier, Audits
<1>5. Covered \subseteq Covered'
  BY <1>1, <1>2, <1>3, <1>4, CarriedStep DEF Covered
<1>6. skipped' = skipped \/ (skipped' = skipped \cup d.uses /\ d.new = {} /\ d.pc = "tier")
  BY <1>1 DEF RedisFails, DecideTier, Decided, Tier, Audits
<1>7. skipped' \subseteq Covered'
  BY <1>1, <1>2, <1>5, <1>6 DEF SamplerInv, DecisionRight
<1>8. seen' \subseteq Covered' /\ Resting.pc = "idle"
  BY <1>3, <1>5 DEF SamplerInv, Resting
<1> QED BY <1>3, <1>5, <1>7, <1>8, DecisionStep

LEMMA SamplerStays ==
    ASSUME SamplerInv, UNCHANGED <<seen, decide, audited, skipped, raised>>
    PROVE  SamplerInv'
  BY DEF SamplerInv, Deciding, DecisionRight, Covered, Carried

LEMMA SamplerNextInv == ASSUME SamplerInv, SamplerNext PROVE SamplerInv'
<1>1. ASSUME NEW p \in Samplers, NEW s \in RunSignals,
             DecideForced(p, s) \/ \E in_stratum \in BOOLEAN : DecideInMemory(p, s, in_stratum)
      PROVE  SamplerInv'
  BY <1>1, AtOnceInv DEF DecideForced, DecideInMemory
<1>2. CASE Midnight \/ \E usd \in Costs : record_cost(usd)
  BY <1>2, SamplerStays DEF Midnight, record_cost
<1> QED BY <1>1, <1>2, ReadToolsInv, GoesOnInv, EndsInv DEF SamplerNext

\* A step of the composition that is none of the Sampler's.
LEMMA SamplerAlways == Spec => []SamplerInv
<1>1. Init => SamplerInv
  BY SamplerInitInv DEF Init
<1>2. SamplerInv /\ [Next]_vars => SamplerInv'
  <2> SUFFICES ASSUME SamplerInv, [Next]_vars PROVE SamplerInv'
    OBVIOUS
  <2>1. SamplerNext \/ UNCHANGED samplerVars
    BY DEF Next, vars, JudgePart, ConsolePart
  <2>2. CASE UNCHANGED samplerVars
    BY <2>2, SamplerStays DEF samplerVars
  <2> QED BY <2>1, <2>2, SamplerNextInv
<1> QED BY <1>1, <1>2, PTL DEF Spec

\* Whatever the interleaving of the processes and the failures of Redis, a run that is not audited used
\* nothing that no audited run used, and none whose decision is under way or was lost (Sampler.decide,
\* RedisNoveltyIndex.is_novel).
THEOREM NoFirstUseSlips == Spec => []FirstUseAudited
<1>1. SamplerInv => FirstUseAudited
  <2> SUFFICES ASSUME SamplerInv, NEW x \in Carried
               PROVE  x \in UNION {decide[p].uses : p \in {q \in Samplers : decide[q].pc # "idle"}}
    BY DEF SamplerInv, FirstUseAudited, Covered
  <2>1. PICK p \in Samplers : Deciding(p) /\ x \in decide[p].new
    BY DEF Carried
  <2>2. x \in decide[p].uses
    BY <2>1 DEF SamplerInv, DecisionRight
  <2> QED BY <2>1, <2>2 DEF Deciding
<1> QED BY <1>1, SamplerAlways, PTL

------------------------------------------------------------------------------
(* The judge: every result on its way to a caller or to the cache is about  *)
(* the slice it is kept under, and says what a model wrote.                 *)

Models == {"judge", "crosscheck", "offline-stub"}
ResultSet == [verdict : JudgeVerdict, abstain : BOOLEAN, model : Models, word : Words \cup JudgeVerdict \cup {"none"},
              decided : BOOLEAN, about : Slices \cup {Absent}, passed : SUBSET Models]
Said(result, slice) ==
    /\ result \in ResultSet /\ result.about = slice
    /\ result.verdict \in {"OK", "VIOLATION"} => result.word = result.verdict
\* A result as the caller gets it.
Grounded(result, slice) ==
    /\ Said(result, slice)
    /\ result.abstain => result.model = "judge" /\ (judge.escalates => result.passed = {"judge", "crosscheck"})
\* A result that is taken to the second model.
Half(result, slice) == Said(result, slice) /\ result.abstain /\ result.model = "judge" /\ result.passed = {"judge"}

Pcs == {"primary", "crosscheck", "set", "done", "raised"}
CallSet == [pc : Pcs, slice : Slices, result : ResultSet \cup {Absent}]
CallGrounded(q) == /\ q.pc \in {"set", "done"} => Grounded(q.result, q.slice)
                   /\ q.pc = "crosscheck" => Half(q.result, q.slice)
JudgeInv ==
    /\ judge \in {get_judge(s) : s \in Settings}
    /\ cache \in [Slices -> ResultSet \cup {Absent}] /\ call \in [Callers -> {Waiting} \cup CallSet]
    /\ lookups \in Nat /\ lookups <= MaxLookups
    /\ \A s \in Slices : cache[s] # Absent => Grounded(cache[s], s)
    /\ \A c \in Callers : call[c] # Waiting => CallGrounded(call[c])

\* A result is no empty cache entry.
LEMMA ResultNotAbsent == \A result \in ResultSet : result # Absent
<1> SUFFICES ASSUME NEW result \in ResultSet, result = Absent PROVE FALSE
  OBVIOUS
<1>1. DOMAIN result = {"verdict", "abstain", "model", "word", "decided", "about", "passed"}
  BY DEF ResultSet
<1>2. DOMAIN Absent = {"absent"}
  BY DEF Absent
<1> QED BY <1>1, <1>2

LEMMA AboutFields ==
    ASSUME NEW raw \in ResultSet, NEW slice, NEW passed
    PROVE  About(raw, slice, passed) =
             [verdict |-> raw.verdict, abstain |-> raw.abstain, model |-> raw.model, word |-> raw.word,
              decided |-> raw.decided, about |-> slice, passed |-> passed \cup IF raw.abstain THEN {raw.model} ELSE {}]
<1>1. PICK all : all = passed \cup IF raw.abstain THEN {raw.model} ELSE {}
  OBVIOUS
<1>2. PICK e : e = [raw EXCEPT !.about = slice, !.passed = all]
  OBVIOUS
<1>3. e = [verdict |-> raw.verdict, abstain |-> raw.abstain, model |-> raw.model, word |-> raw.word,
           decided |-> raw.decided, about |-> slice, passed |-> all]
  BY <1>2 DEF ResultSet
<1> QED BY <1>1, <1>2, <1>3 DEF About

\* What a client makes of a reply: the verdict, if any, is the one in the reply.
LEMMA AnswerSaid ==
    ASSUME NEW reply \in Replies, NEW model \in {"judge", "crosscheck"}, NEW slice \in Slices,
           NEW passed \in SUBSET Models
    PROVE  LET result == About(_call(reply, model), slice, passed)
           IN  /\ Said(result, slice) /\ result.model = model
               /\ result.abstain => result.passed = passed \cup {model}
<1>1. PICK raw : raw = _call(reply, model)
  OBVIOUS
<1>2. PICK v \in JudgeVerdict, a \in BOOLEAN, w \in Words \cup JudgeVerdict \cup {"none"}, d \in BOOLEAN :
         /\ raw = [verdict |-> v, abstain |-> a, model |-> model, word |-> w, decided |-> d, about |-> Absent, passed |-> {}]
         /\ v \in {"OK", "VIOLATION"} => w = v
  <2>1. CASE judge.base = "litellm" /\ reply.kind = "object"
    <3>1. reply.verdict \in Words /\ reply.abstain \in BOOLEAN
      BY <2>1 DEF Replies
    <3>2. raw = Result(IF reply.verdict \in JudgeVerdict THEN reply.verdict ELSE "NEEDS_REVIEW",
                       reply.abstain, model, reply.verdict)
      BY <1>1, <2>1 DEF _call, LiteLLMCall, _parse
    <3> QED BY <3>1, <3>2 DEF Result, JudgeVerdict
  <2>2. CASE judge.base = "litellm" /\ reply.kind # "object"
    <3>1. raw = Abstained(model)
      BY <1>1, <2>2 DEF _call, LiteLLMCall, _parse
    <3> QED BY <3>1 DEF Abstained, Result, JudgeVerdict
  <2>3. CASE judge.base # "litellm"
    <3>1. PICK d : d = (reply.kind = "object" /\ ~reply.abstain)
      OBVIOUS
    <3>2. raw = [Abstained(model) EXCEPT !.decided = d]
      BY <1>1, <2>3, <3>1 DEF _call, AnthropicCall
    <3>3. raw = [verdict |-> "NEEDS_REVIEW", abstain |-> TRUE, model |-> model, word |-> "none", decided |-> d,
                 about |-> Absent, passed |-> {}]
      BY <3>2 DEF Abstained, Result
    <3>4. d \in BOOLEAN
      BY <3>1
    <3> QED BY <3>3, <3>4 DEF JudgeVerdict
  <2> QED BY <2>1, <2>2, <2>3
<1>3. PICK all : all = passed \cup IF raw.abstain THEN {raw.model} ELSE {}
  OBVIOUS
<1>4. About(raw, slice, passed) =
        [verdict |-> v, abstain |-> a, model |-> model, word |-> w, decided |-> d, about |-> slice, passed |-> all]
  <2>1. raw \in ResultSet /\ raw.verdict = v /\ raw.abstain = a /\ raw.model = model /\ raw.word = w /\ raw.decided = d
    BY <1>2 DEF ResultSet, Models
  <2> QED BY <1>3, <2>1, AboutFields
<1>5. all \in SUBSET Models /\ (a => all = passed \cup {model})
  BY <1>2, <1>3 DEF Models
<1>6. About(raw, slice, passed) \in ResultSet
  BY <1>4, <1>5 DEF ResultSet, Models
<1> QED BY <1>1, <1>2, <1>4, <1>5, <1>6 DEF Said

LEMMA StubSaid ==
    ASSUME NEW slice \in Slices
    PROVE  Grounded(About(OfflineStubJudge(slice), slice, {}), slice)
<1>1. PICK v \in {"OK", "VIOLATION"} : OfflineStubJudge(slice) = Result(v, FALSE, "offline-stub", v)
  BY DEF OfflineStubJudge
<1>2. PICK raw : raw = OfflineStubJudge(slice)
  OBVIOUS
<1>3. raw = [verdict |-> v, abstain |-> FALSE, model |-> "offline-stub", word |-> v, decided |-> TRUE,
             about |-> Absent, passed |-> {}]
  BY <1>1, <1>2 DEF Result
<1>4. raw \in ResultSet /\ raw.verdict = v /\ raw.word = v /\ raw.abstain = FALSE
  BY <1>3 DEF ResultSet, Models, JudgeVerdict
<1>5. PICK all : all = {} \cup IF raw.abstain THEN {raw.model} ELSE {}
  OBVIOUS
<1>6. PICK r : r = About(raw, slice, {})
  OBVIOUS
<1>7. r = [verdict |-> raw.verdict, abstain |-> raw.abstain, model |-> raw.model, word |-> raw.word,
           decided |-> raw.decided, about |-> slice, passed |-> all]
  BY <1>4, <1>5, <1>6, AboutFields
<1>8. all \in SUBSET Models
  BY <1>4, <1>5
<1>9. r \in ResultSet
  BY <1>4, <1>7, <1>8 DEF ResultSet
<1>10. r.about = slice /\ r.verdict = v /\ r.word = v /\ r.abstain = FALSE
  BY <1>4, <1>7
<1> QED BY <1>2, <1>6, <1>9, <1>10 DEF Grounded, Said

\* A step of one caller.
LEMMA CallerStep ==
    ASSUME JudgeInv, NEW c \in Callers, NEW q \in CallSet \cup {Waiting}, q # Waiting => CallGrounded(q),
           call' = [call EXCEPT ![c] = q], judge' = judge, cache' = cache,
           lookups' \in Nat, lookups' <= MaxLookups
    PROVE  JudgeInv'
<1>1. call'[c] = q /\ (\A o \in Callers : o # c => call'[o] = call[o]) /\ call' \in [Callers -> {Waiting} \cup CallSet]
  BY DEF JudgeInv
<1>2. \A result, slice : Grounded(result, slice) = Grounded(result, slice)'
  BY DEF Grounded, Said
<1>3. ASSUME NEW o \in Callers, call'[o] # Waiting PROVE CallGrounded(call'[o])
  BY <1>1, <1>3 DEF JudgeInv
<1>4. \A o \in Callers : call'[o] # Waiting => CallGrounded(call[o])'
  BY <1>3 DEF CallGrounded, Grounded, Half, Said
<1>5. \A s \in Slices : cache[s] # Absent => Grounded(cache[s], s)'
  BY DEF JudgeInv, Grounded, Said
<1> QED BY <1>1, <1>4, <1>5 DEF JudgeInv

LEMMA JudgeInitInv == JudgeInit => JudgeInv
  BY JudgeAssumption DEF JudgeInit, JudgeInv

LEMMA LookupInv == ASSUME JudgeInv, NEW c \in Callers, NEW slice \in Slices, Lookup(c, slice) PROVE JudgeInv'
<1>1. judge' = judge /\ cache' = cache /\ lookups' \in Nat /\ lookups' <= MaxLookups
  BY JudgeAssumption DEF Lookup, JudgeInv
<1>2. PICK q \in CallSet : call' = [call EXCEPT ![c] = q] /\ CallGrounded(q)
  <2>1. CASE judge.cache # "none" /\ cache[slice] # Absent
    <3>1. PICK q : q = [pc |-> "done", slice |-> slice, result |-> cache[slice]]
      OBVIOUS
    <3>2. call' = [call EXCEPT ![c] = q]
      BY <2>1, <3>1 DEF Lookup, Ends
    <3>3. q \in CallSet /\ CallGrounded(q)
      BY <2>1, <3>1 DEF JudgeInv, CallSet, Pcs, CallGrounded
    <3> QED BY <3>2, <3>3
  <2>2. CASE ~(judge.cache # "none" /\ cache[slice] # Absent)
    <3>1. Ask(c, slice)
      BY <2>2 DEF Lookup
    <3>2. CASE judge.base = "stub"
      <4>1. PICK result, pc : result = About(OfflineStubJudge(slice), slice, {}) /\ pc = IF judge.cache = "none" THEN "done" ELSE "set"
        OBVIOUS
      <4>2. PICK q : q = [pc |-> pc, slice |-> slice, result |-> result]
        OBVIOUS
      <4>3. Grounded(result, slice) /\ result \in ResultSet
        BY <4>1, StubSaid DEF Grounded, Said
      <4>4. call' = [call EXCEPT ![c] = q]
        BY <3>1, <3>2, <4>1, <4>2 DEF Ask, Ends
      <4>5. q \in CallSet /\ CallGrounded(q)
        BY <4>1, <4>2, <4>3 DEF CallSet, Pcs, CallGrounded
      <4> QED BY <4>4, <4>5
    <3>3. CASE judge.base # "stub"
      <4>1. PICK q : q = [pc |-> "primary", slice |-> slice, result |-> Absent]
        OBVIOUS
      <4>2. call' = [call EXCEPT ![c] = q]
        BY <3>1, <3>3, <4>1 DEF Ask, Ends
      <4>3. q \in CallSet /\ CallGrounded(q)
        BY <4>1 DEF CallSet, Pcs, CallGrounded
      <4> QED BY <4>2, <4>3
    <3> QED BY <3>2, <3>3
  <2> QED BY <2>1, <2>2
<1> QED BY <1>1, <1>2, CallerStep

LEMMA Asking ==
    ASSUME JudgeInv, NEW c \in Callers, call[c].pc # "idle"
    PROVE  call[c] \in CallSet /\ CallGrounded(call[c]) /\ call[c].slice \in Slices
<1>1. call[c] # Waiting
  BY DEF Waiting
<1> QED BY <1>1 DEF JudgeInv, CallSet

\* The first model answers.
LEMMA PrimaryInv == ASSUME JudgeInv, NEW c \in Callers, NEW reply \in Replies, Primary(c, reply) PROVE JudgeInv'
<1>1. PICK slice, result : slice = call[c].slice /\ result = About(_call(reply, "judge"), slice, {})
  OBVIOUS
<1>2. slice \in Slices
  BY <1>1, Asking DEF Primary
<1>3. Said(result, slice) /\ result.model = "judge" /\ (result.abstain => result.passed = {"judge"})
  BY <1>1, <1>2, AnswerSaid
<1>4. PICK pc : pc = IF result.abstain /\ judge.escalates THEN "crosscheck" ELSE AfterAnswer
  OBVIOUS
<1>5. PICK q : q = [pc |-> pc, slice |-> slice, result |-> result]
  OBVIOUS
<1>6. call' = [call EXCEPT ![c] = q]
  BY <1>1, <1>4, <1>5 DEF Primary, Ends
<1>7. q \in CallSet /\ CallGrounded(q)
  BY <1>2, <1>3, <1>4, <1>5 DEF CallSet, Pcs, CallGrounded, Said, Half, Grounded, AfterAnswer
<1>8. judge' = judge /\ cache' = cache /\ lookups' = lookups
  BY DEF Primary
<1> QED BY <1>6, <1>7, <1>8, CallerStep DEF JudgeInv

\* The second model answers, or abstains like the first.
LEMMA CrosscheckInv == ASSUME JudgeInv, NEW c \in Callers, NEW reply \in Replies, Crosscheck(c, reply) PROVE JudgeInv'
<1>1. PICK p : p = call[c]
  OBVIOUS
<1>2. p \in CallSet /\ p.slice \in Slices /\ Half(p.result, p.slice)
  BY <1>1, Asking DEF Crosscheck, CallGrounded
<1>3. PICK escalated : escalated = About(_call(reply, "crosscheck"), p.slice, p.result.passed)
  OBVIOUS
<1>4. /\ Said(escalated, p.slice)
      /\ escalated.abstain => escalated.passed = {"judge", "crosscheck"}
  BY <1>2, <1>3, AnswerSaid DEF Half, Models
<1>5. PICK result : result = IF escalated.abstain THEN [p.result EXCEPT !.passed = escalated.passed] ELSE escalated
  OBVIOUS
<1>6. Grounded(result, p.slice) /\ result \in ResultSet
  <2>1. CASE escalated.abstain
    <3>1. PICK r : r = p.result
      OBVIOUS
    <3>2. r \in ResultSet
      BY <1>2, <3>1 DEF Half, Said
    <3>3. result = [r EXCEPT !.passed = escalated.passed]
      BY <1>5, <2>1, <3>1
    <3>4. result = [verdict |-> r.verdict, abstain |-> r.abstain, model |-> r.model, word |-> r.word,
                    decided |-> r.decided, about |-> r.about, passed |-> escalated.passed]
      BY <3>2, <3>3 DEF ResultSet
    <3>5. result \in ResultSet
      BY <1>4, <3>2, <3>4 DEF Said, ResultSet
    <3> QED BY <1>2, <1>4, <2>1, <3>1, <3>4, <3>5 DEF Grounded, Half, Said
  <2>2. CASE ~escalated.abstain
    BY <1>4, <1>5, <2>2 DEF Grounded, Said
  <2> QED BY <2>1, <2>2
<1>7. PICK q : q = [pc |-> AfterAnswer, slice |-> p.slice, result |-> result]
  OBVIOUS
<1>8. call' = [call EXCEPT ![c] = q] /\ judge' = judge /\ cache' = cache /\ lookups' = lookups
  BY <1>1, <1>3, <1>5, <1>7 DEF Crosscheck, Ends
<1>9. q \in CallSet /\ CallGrounded(q)
  BY <1>2, <1>6, <1>7 DEF CallSet, Pcs, CallGrounded, AfterAnswer
<1> QED BY <1>8, <1>9, CallerStep DEF JudgeInv

\* The result is kept: it is about the key it is kept under.
LEMMA SetInv == ASSUME JudgeInv, NEW c \in Callers, Set(c) PROVE JudgeInv'
<1>1. PICK p : p = call[c]
  OBVIOUS
<1>2. p.pc = "set" /\ p \in CallSet /\ Grounded(p.result, p.slice) /\ p.slice \in Slices
  BY <1>1, Asking DEF Set, CallGrounded
<1>3. PICK q : q = [p EXCEPT !.pc = "done"]
  OBVIOUS
<1>4. q = [pc |-> "done", slice |-> p.slice, result |-> p.result]
  BY <1>2, <1>3 DEF CallSet
<1>5. q \in CallSet /\ CallGrounded(q)
  BY <1>2, <1>4 DEF CallSet, Pcs, CallGrounded
<1>6. /\ cache' = [cache EXCEPT ![p.slice] = p.result] /\ call' = [call EXCEPT ![c] = q]
      /\ judge' = judge /\ lookups' = lookups
  BY <1>1, <1>3 DEF Set
<1>7. p.result \in ResultSet
  BY <1>2 DEF Grounded, Said
<1>8. /\ cache' \in [Slices -> ResultSet \cup {Absent}] /\ call' \in [Callers -> {Waiting} \cup CallSet]
      /\ cache'[p.slice] = p.result /\ \A s \in Slices : s # p.slice => cache'[s] = cache[s]
      /\ call'[c] = q /\ \A o \in Callers : o # c => call'[o] = call[o]
  BY <1>2, <1>5, <1>6, <1>7 DEF JudgeInv
<1>9. \A s \in Slices : cache'[s] # Absent => Grounded(cache'[s], s)
  BY <1>2, <1>8 DEF JudgeInv
<1>10. \A o \in Callers : call'[o] # Waiting => CallGrounded(call'[o])
  BY <1>5, <1>8 DEF JudgeInv
<1>11. \A s \in Slices : cache'[s] # Absent => Grounded(cache[s], s)'
  BY <1>6, <1>9 DEF Grounded, Said
<1>12. \A o \in Callers : call'[o] # Waiting => CallGrounded(call[o])'
  BY <1>6, <1>10 DEF CallGrounded, Grounded, Half, Said
<1> QED BY <1>6, <1>8, <1>11, <1>12 DEF JudgeInv

\* The steps that leave a caller without a result.
LEMMA RaisedInv ==
    ASSUME JudgeInv, NEW c \in Callers, NEW slice \in Slices, LookupFails(c, slice) \/ SetFails(c) \/ Return(c)
    PROVE  JudgeInv'
<1>1. judge' = judge /\ cache' = cache /\ lookups' = lookups
  BY DEF LookupFails, SetFails, Return
<1>2. PICK q \in CallSet \cup {Waiting} : call' = [call EXCEPT ![c] = q] /\ (q # Waiting => CallGrounded(q))
  <2>1. CASE LookupFails(c, slice)
    <3>1. PICK q : q = [pc |-> "raised", slice |-> slice, result |-> Absent]
      OBVIOUS
    <3>2. q \in CallSet /\ CallGrounded(q)
      BY <3>1 DEF CallSet, Pcs, CallGrounded
    <3>3. call' = [call EXCEPT ![c] = q]
      BY <2>1, <3>1 DEF LookupFails, Ends
    <3> QED BY <3>2, <3>3
  <2>2. CASE SetFails(c)
    <3>1. PICK p : p = call[c]
      OBVIOUS
    <3>2. PICK q : q = [p EXCEPT !.pc = "raised"]
      OBVIOUS
    <3>3. p \in CallSet
      BY <2>2, <3>1, Asking DEF SetFails
    <3>4. q = [pc |-> "raised", slice |-> p.slice, result |-> p.result]
      BY <3>2, <3>3 DEF CallSet
    <3>5. q \in CallSet /\ CallGrounded(q)
      BY <3>3, <3>4 DEF CallSet, Pcs, CallGrounded
    <3>6. call' = [call EXCEPT ![c] = q]
      BY <2>2, <3>1, <3>2 DEF SetFails
    <3> QED BY <3>5, <3>6
  <2>3. CASE Return(c)
    BY <2>3 DEF Return
  <2> QED BY <2>1, <2>2, <2>3
<1> QED BY <1>1, <1>2, CallerStep DEF JudgeInv

LEMMA ExpireInv == ASSUME JudgeInv, NEW slice \in Slices, Expire(slice) PROVE JudgeInv'
<1>1. /\ cache' = [cache EXCEPT ![slice] = Absent] /\ judge' = judge /\ call' = call /\ lookups' = lookups
  BY DEF Expire
<1>2. /\ cache' \in [Slices -> ResultSet \cup {Absent}]
      /\ \A s \in Slices : cache'[s] # Absent => Grounded(cache'[s], s)
  BY <1>1 DEF JudgeInv
<1>3. \A s \in Slices : cache'[s] # Absent => Grounded(cache[s], s)'
  BY <1>1, <1>2 DEF Grounded, Said
<1>4. \A o \in Callers : call'[o] # Waiting => CallGrounded(call[o])'
  BY <1>1 DEF JudgeInv, CallGrounded, Grounded, Half, Said
<1> QED BY <1>1, <1>2, <1>3, <1>4 DEF JudgeInv

LEMMA JudgeStays == ASSUME JudgeInv, UNCHANGED judgeVars PROVE JudgeInv'
<1>1. judge' = judge /\ cache' = cache /\ call' = call /\ lookups' = lookups
  BY DEF judgeVars
<1>2. \A s \in Slices : cache'[s] # Absent => Grounded(cache[s], s)'
  BY <1>1 DEF JudgeInv, Grounded, Said
<1>3. \A o \in Callers : call'[o] # Waiting => CallGrounded(call[o])'
  BY <1>1 DEF JudgeInv, CallGrounded, Grounded, Half, Said
<1> QED BY <1>1, <1>2, <1>3 DEF JudgeInv

LEMMA JudgeNextInv == ASSUME JudgeInv, JudgeNext PROVE JudgeInv'
<1>1. \A c \in Callers : Answered(c) \/ TimesOut(c) => \E reply \in Replies : Primary(c, reply) \/ Crosscheck(c, reply)
  BY DEF Answered, TimesOut, Replies
<1>2. ASSUME NEW c \in Callers, Return(c) \/ SetFails(c) PROVE \E slice \in Slices : TRUE
  BY <1>2, Asking DEF Return, SetFails
<1> QED BY <1>1, <1>2, LookupInv, PrimaryInv, CrosscheckInv, SetInv, RaisedInv, ExpireInv DEF JudgeNext

LEMMA JudgeAlways == Spec => []JudgeInv
<1>1. Init => JudgeInv
  BY JudgeInitInv DEF Init
<1>2. JudgeInv /\ [Next]_vars => JudgeInv'
  <2> SUFFICES ASSUME JudgeInv, [Next]_vars PROVE JudgeInv'
    OBVIOUS
  <2>1. JudgeNext \/ UNCHANGED judgeVars
    BY DEF Next, vars, SamplerPart, ConsolePart
  <2> QED BY <2>1, JudgeNextInv, JudgeStays
<1> QED BY <1>1, <1>2, PTL DEF Spec

\* A verdict a detector gets is one that a model gave for this very slice; a failure is never turned into
\* OK or VIOLATION; the judge abstains only after every model it may ask has (CachedJudge, LiteLLMJudge,
\* AnthropicJudge).
THEOREM ResultsGrounded == Spec => []AnswersGrounded
<1>1. JudgeInv => JudgeTypeOK
  <2> SUFFICES ASSUME JudgeInv PROVE JudgeTypeOK
    OBVIOUS
  <2>1. \A s \in Slices : cache[s] = Absent \/ cache[s].verdict \in JudgeVerdict
    BY DEF JudgeInv, ResultSet
  <2>2. \A c \in Callers : call[c].pc \in {"idle", "primary", "crosscheck", "set", "done", "raised"}
    <3> SUFFICES ASSUME NEW c \in Callers
                 PROVE  call[c].pc \in {"idle", "primary", "crosscheck", "set", "done", "raised"}
      OBVIOUS
    <3>1. call[c] \in {Waiting} \cup CallSet
      BY DEF JudgeInv
    <3>2. CASE call[c] = Waiting
      BY <3>2 DEF Waiting
    <3>3. CASE call[c] \in CallSet
      BY <3>3 DEF CallSet, Pcs
    <3> QED BY <3>1, <3>2, <3>3
  <2>3. lookups \in 0..MaxLookups
    BY JudgeAssumption DEF JudgeInv
  <2> QED BY <2>1, <2>2, <2>3 DEF JudgeInv, JudgeTypeOK
<1>2. ASSUME JudgeInv, NEW c \in Callers, call[c].pc = "done" PROVE Grounded(call[c].result, call[c].slice)
  BY <1>2, Asking DEF CallGrounded
<1>3. JudgeInv => AnswersGrounded
  BY <1>1, <1>2 DEF AnswersGrounded, Grounded, Said
<1> QED BY <1>3, JudgeAlways, PTL

------------------------------------------------------------------------------
(* The console: what audits store stays stored, so that an answer that read *)
(* it stays true, however late it is applied.                               *)

AnswerRight(answer, r) ==
    /\ answer.audited \in BOOLEAN /\ answer.flag \in BOOLEAN
    /\ answer.audited => "skipped" \in tiers[r] \/ stored[r] # {}
    /\ answer.flag => "flag" \in stored[r]
\* What a request that is under way has read so far.
ReqRight(s, r, q) ==
    /\ q.pc \in {"flag", "verdicts"} /\ q.sampler = "skipped" => "skipped" \in tiers[r]
    /\ q.pc = "verdicts" => q.flag \in BOOLEAN /\ (q.flag => "flag" \in stored[r])
    /\ q.pc = "ok" /\ s # SubmitSlot => AnswerRight(q.answer, r)
Shape(f) ==
    /\ f = [asks |-> f.asks, cancelled |-> f.cancelled, req |-> f.req]
    /\ f.asks \subseteq ChatRuns /\ f.req = [r \in f.asks |-> f.req[r]]
FlightShape == flight = [s \in Slots |-> flight[s]] /\ \A s \in Slots : flight[s] = Idle \/ Shape(flight[s])
ReqsRight == \A s \in Slots : \A r \in flight[s].asks : ReqRight(s, r, flight[s].req[r])
TurnsRight == \A r \in ChatRuns : turns[r].kind = "agent" /\ turns[r].state # "null" => AnswerRight(turns[r], r)
AuditTypes == tiers = [r \in ChatRuns |-> tiers[r]] /\ stored = [r \in ChatRuns |-> stored[r]]
\* What was stored stays.
Kept == \A r \in ChatRuns : tiers[r] \subseteq tiers'[r] /\ stored[r] \subseteq stored'[r]
Same == tiers' = tiers /\ stored' = stored
ConsoleInv == AuditTypes /\ FlightShape /\ ReqsRight /\ TurnsRight /\ view.pending \subseteq ChatRuns

LEMMA ConsoleInitInv == ConsoleInit => ConsoleInv
<1> SUFFICES ASSUME ConsoleInit PROVE ConsoleInv
  OBVIOUS
<1>1. AuditTypes
  BY DEF ConsoleInit, AuditTypes
<1>2. flight = [s \in Slots |-> Idle] /\ \A s \in Slots : flight[s] = Idle
  BY DEF ConsoleInit
<1>3. FlightShape
  BY <1>2 DEF FlightShape
<1>4. ReqsRight
  BY <1>2 DEF ReqsRight, Idle
<1>5. TurnsRight
  BY DEF ConsoleInit, TurnsRight, NoTurn
<1> QED BY <1>1, <1>3, <1>4, <1>5 DEF ConsoleInv, ConsoleInit

\* An audit goes on: what it finds stored, it leaves there.
LEMMA RunProceedsInv == ASSUME ConsoleInv, NEW r \in ChatRuns, RunProceeds(r) PROVE ConsoleInv'
<1>1. flight' = flight /\ turns' = turns /\ view' = view
  BY DEF RunProceeds, chatVars
<1>2. AuditTypes' /\ Kept
  <2>1. CASE \E tier : tiers' = [tiers EXCEPT ![r] = @ \cup {tier}] /\ stored' = stored
    BY <2>1 DEF ConsoleInv, AuditTypes, Kept
  <2>2. CASE \E result : stored' = [stored EXCEPT ![r] = @ \cup {result}] /\ tiers' = tiers
    BY <2>2 DEF ConsoleInv, AuditTypes, Kept
  <2>3. CASE Same
    BY <2>3 DEF Same, ConsoleInv, AuditTypes, Kept
  <2>4. upsert_run(r) \/ HarnessEnds(r) => Same
    BY DEF upsert_run, HarnessEnds, Same, tables
  <2>5. audit_run(r) => Same \/ \E tier : tiers' = [tiers EXCEPT ![r] = @ \cup {tier}] /\ stored' = stored
    BY DEF audit_run, Same
  <2>6. store_run_result(r) => \E result : stored' = [stored EXCEPT ![r] = @ \cup {result}] /\ tiers' = tiers
    BY DEF store_run_result
  <2> QED BY <2>1, <2>2, <2>3, <2>4, <2>5, <2>6 DEF RunProceeds
<1>3. ASSUME NEW answer, NEW x \in ChatRuns, AnswerRight(answer, x) PROVE AnswerRight(answer, x)'
  BY <1>2, <1>3 DEF AnswerRight, Kept
<1>4. ReqsRight'
  <2> SUFFICES ASSUME NEW s \in Slots, NEW x \in flight[s].asks PROVE ReqRight(s, x, flight[s].req[x])'
    BY <1>1 DEF ReqsRight
  <2>1. PICK q : q = flight[s].req[x]
    OBVIOUS
  <2>2. x \in ChatRuns /\ ReqRight(s, x, q)
    <3>1. flight[s] # Idle
      BY DEF Idle
    <3> QED BY <2>1, <3>1 DEF ConsoleInv, FlightShape, Shape, ReqsRight
  <2>3. ReqRight(s, x, q)'
    BY <1>2, <1>3, <2>2 DEF ReqRight, Kept
  <2> QED BY <1>1, <2>1, <2>3
<1>5. TurnsRight'
  BY <1>1, <1>3 DEF ConsoleInv, TurnsRight
<1>6. FlightShape'
  BY <1>1 DEF ConsoleInv, FlightShape, Shape
<1> QED BY <1>1, <1>2, <1>4, <1>5, <1>6 DEF ConsoleInv

LEMMA ReqStays == Same => \A s, r, q : ReqRight(s, r, q) => ReqRight(s, r, q)'
<1> SUFFICES ASSUME Same, NEW s, NEW r, NEW q, ReqRight(s, r, q) PROVE ReqRight(s, r, q)'
  OBVIOUS
<1>1. AnswerRight(q.answer, r) => AnswerRight(q.answer, r)'
  BY DEF AnswerRight, Same
<1> QED BY <1>1 DEF ReqRight, Same

LEMMA TurnsStay == ASSUME TurnsRight, turns' = turns, Same PROVE TurnsRight'
  BY DEF TurnsRight, AnswerRight, Same

\* A slot is changed, its requests and their answers staying right.
LEMMA SlotSet ==
    ASSUME ConsoleInv, NEW s \in Slots, NEW f, f = Idle \/ Shape(f),
           \A r \in f.asks : ReqRight(s, r, f.req[r]),
           flight' = [flight EXCEPT ![s] = f], Same
    PROVE  FlightShape' /\ ReqsRight' /\ AuditTypes'
<1>1. flight'[s] = f /\ (\A o \in Slots : o # s => flight'[o] = flight[o]) /\ flight' = [o \in Slots |-> flight'[o]]
  BY DEF ConsoleInv, FlightShape
<1>2. FlightShape'
  BY <1>1 DEF ConsoleInv, FlightShape, Shape
<1>3. \A o \in Slots : \A r \in flight'[o].asks : ReqRight(o, r, flight'[o].req[r])
  BY <1>1 DEF ConsoleInv, ReqsRight
<1>4. \A o, r, q : ReqRight(o, r, q) => ReqRight(o, r, q)'
  BY ReqStays
<1>5. ReqsRight'
  BY <1>3, <1>4 DEF ReqsRight
<1> QED BY <1>2, <1>5 DEF ConsoleInv, AuditTypes, Same

\* A request goes on.
LEMMA MovedInv ==
    ASSUME ConsoleInv, NEW s \in Slots, NEW r \in flight[s].asks, NEW q, ReqRight(s, r, q),
           flight' = Moved(s, r, q), Same, turns' = turns, view' = view
    PROVE  ConsoleInv'
<1>1. PICK f : f = flight[s]
  OBVIOUS
<1>2. f # Idle
  BY <1>1 DEF Idle
<1>3. Shape(f) /\ r \in f.asks
  BY <1>1, <1>2 DEF ConsoleInv, FlightShape
<1>4. PICK req : req = [f.req EXCEPT ![r] = q]
  OBVIOUS
<1>5. req[r] = q /\ (\A x \in f.asks : x # r => req[x] = f.req[x]) /\ req = [x \in f.asks |-> req[x]]
  BY <1>3, <1>4 DEF Shape
<1>6. PICK g : g = [asks |-> f.asks, cancelled |-> f.cancelled, req |-> req]
  OBVIOUS
<1>7. flight' = [flight EXCEPT ![s] = [f EXCEPT !.req = req]]
  BY <1>1, <1>4 DEF Moved
<1>8. [f EXCEPT !.req = req] = g
  BY <1>3, <1>6 DEF Shape
<1>9. g.asks = f.asks /\ g.req = req /\ Shape(g)
  BY <1>3, <1>5, <1>6 DEF Shape
<1>10. \A x \in g.asks : ReqRight(s, x, g.req[x])
  BY <1>1, <1>5, <1>9 DEF ConsoleInv, ReqsRight
<1>11. flight' = [flight EXCEPT ![s] = g]
  BY <1>7, <1>8
<1> QED BY <1>9, <1>10, <1>11, SlotSet, TurnsStay DEF ConsoleInv

\* Requests that have read nothing and carry no answer.
LEMMA PlainReq == ASSUME NEW s, NEW r, NEW q, q.pc \in {"send", "refresh", "failed"} PROVE ReqRight(s, r, q)
  BY DEF ReqRight

LEMMA RequestInv == ASSUME ConsoleInv, NEW s \in Slots, NEW r \in ChatRuns, request(s, r) PROVE ConsoleInv'
<1>1. r \in flight[s].asks
  BY DEF request, At
<1>2. Same /\ turns' = turns /\ view' = view
  BY DEF request, Unauthorised, start_agent_run, get_agent_run, chatVars, runVars, tables, Same
<1>3. PICK q : flight' = Moved(s, r, q) /\ ReqRight(s, r, q)
  <2>1. CASE hitl_token # "good"
    <3>1. flight' = Moved(s, r, Failed) \/ flight' = Moved(s, r, [pc |-> "refresh"])
      BY <2>1 DEF request, Unauthorised
    <3>2. ReqRight(s, r, Failed) /\ ReqRight(s, r, [pc |-> "refresh"])
      BY PlainReq DEF Failed
    <3> QED BY <3>1, <3>2
  <2>2. CASE hitl_token = "good" /\ s = SubmitSlot
    <3>1. flight' = Moved(s, r, [pc |-> "ok"])
      BY <2>2 DEF request, start_agent_run
    <3>2. ReqRight(s, r, [pc |-> "ok"])
      BY <2>2 DEF ReqRight
    <3> QED BY <3>1, <3>2
  <2>3. CASE hitl_token = "good" /\ s # SubmitSlot
    <3>1. PICK sampler : /\ sampler = "skipped" => "skipped" \in tiers[r]
                         /\ flight' = Moved(s, r, IF flight[s].cancelled THEN Failed ELSE [pc |-> "flag", sampler |-> sampler])
      BY <2>3 DEF request, get_agent_run
    <3>2. PICK q : q = IF flight[s].cancelled THEN Failed ELSE [pc |-> "flag", sampler |-> sampler]
      OBVIOUS
    <3>3. flight' = Moved(s, r, q)
      BY <3>1, <3>2
    <3>4. ReqRight(s, r, q)
      BY <3>1, <3>2, PlainReq DEF ReqRight, Failed
    <3> QED BY <3>3, <3>4
  <2> QED BY <2>1, <2>2, <2>3
<1> QED BY <1>1, <1>2, <1>3, MovedInv

LEMMA RefreshedInv ==
    ASSUME ConsoleInv, NEW s \in Slots, NEW r \in ChatRuns, Refreshed(s, r) \/ NetworkFails(s, r) PROVE ConsoleInv'
<1>1. r \in flight[s].asks
  BY DEF Refreshed, NetworkFails, At
<1>2. Same /\ turns' = turns /\ view' = view
  BY DEF Refreshed, NetworkFails, chatVars, runVars, tables, Same
<1>3. flight' = Moved(s, r, Failed) \/ flight' = Moved(s, r, [pc |-> "send", retried |-> TRUE])
  BY DEF Refreshed, NetworkFails
<1>4. ReqRight(s, r, Failed) /\ ReqRight(s, r, [pc |-> "send", retried |-> TRUE])
  BY PlainReq DEF Failed
<1> QED BY <1>1, <1>2, <1>3, <1>4, MovedInv

\* The queries of an answer: each reads what is committed now, and what is final stays.
LEMMA ReadFlagInv == ASSUME ConsoleInv, NEW s \in Slots, NEW r \in ChatRuns, ReadFlag(s, r) PROVE ConsoleInv'
<1>1. PICK p : p = flight[s].req[r]
  OBVIOUS
<1>2. r \in flight[s].asks /\ p.pc = "flag"
  BY <1>1 DEF ReadFlag, At
<1>3. ReqRight(s, r, p)
  BY <1>1, <1>2 DEF ConsoleInv, ReqsRight
<1>4. PICK found \in BOOLEAN : found = (p.sampler # "none" /\ "flag" \in stored[r])
  OBVIOUS
<1>5. PICK q : q = [pc |-> "verdicts", sampler |-> p.sampler, flag |-> found]
  OBVIOUS
<1>6. flight' = Moved(s, r, q) /\ Same /\ turns' = turns /\ view' = view
  BY <1>1, <1>4, <1>5 DEF ReadFlag, chatVars, runVars, tables, Same
<1>7. ReqRight(s, r, q)
  BY <1>2, <1>3, <1>4, <1>5 DEF ReqRight
<1> QED BY <1>2, <1>6, <1>7, MovedInv

LEMMA ReadVerdictsInv == ASSUME ConsoleInv, NEW s \in Slots, NEW r \in ChatRuns, ReadVerdicts(s, r) PROVE ConsoleInv'
<1>1. PICK p : p = flight[s].req[r]
  OBVIOUS
<1>2. r \in flight[s].asks /\ p.pc = "verdicts"
  BY <1>1 DEF ReadVerdicts, At
<1>3. ReqRight(s, r, p)
  BY <1>1, <1>2 DEF ConsoleInv, ReqsRight
<1>4. PICK answer : answer = AgentRunState(p, r)
  OBVIOUS
<1>5. PICK q : q = [pc |-> "ok", answer |-> answer]
  OBVIOUS
<1>6. flight' = Moved(s, r, q) /\ Same /\ turns' = turns /\ view' = view
  BY <1>1, <1>4, <1>5 DEF ReadVerdicts, chatVars, runVars, tables, Same
<1>7. /\ answer.audited = (p.sampler # "none" /\ (p.sampler = "skipped" \/ stored[r] # {}))
      /\ answer.flag = (answer.audited /\ p.flag)
  BY <1>4 DEF AgentRunState, audit_complete
<1>8. AnswerRight(answer, r)
  BY <1>2, <1>3, <1>7 DEF ReqRight, AnswerRight
<1>9. ReqRight(s, r, q)
  BY <1>5, <1>8 DEF ReqRight
<1> QED BY <1>2, <1>6, <1>9, MovedInv

\* A poll begins.
LEMMA OpenedShape ==
    ASSUME NEW asks \in SUBSET ChatRuns
    PROVE  Shape(Opened(asks)) /\ \A s : \A r \in Opened(asks).asks : ReqRight(s, r, Opened(asks).req[r])
<1>1. PICK req : req = [r \in asks |-> [pc |-> "send", retried |-> FALSE]]
  OBVIOUS
<1>2. PICK f : f = [asks |-> asks, cancelled |-> FALSE, req |-> req]
  OBVIOUS
<1>3. Opened(asks) = f /\ f.asks = asks /\ f.req = req /\ f.cancelled = FALSE
  BY <1>1, <1>2 DEF Opened
<1>4. req = [r \in asks |-> req[r]] /\ \A r \in asks : req[r].pc = "send"
  BY <1>1
<1>5. Shape(f)
  BY <1>2, <1>3, <1>4 DEF Shape
<1> QED BY <1>3, <1>4, <1>5, PlainReq

LEMMA OpensInv ==
    ASSUME ConsoleInv, NEW s \in Slots, NEW asks \in SUBSET ChatRuns, flight' = [flight EXCEPT ![s] = Opened(asks)],
           Same, turns' = turns, view' = view
    PROVE  ConsoleInv'
  BY OpenedShape, SlotSet, TurnsStay DEF ConsoleInv

\* A slot is given up.
LEMMA ClosesInv ==
    ASSUME ConsoleInv, NEW s \in Slots, flight' = [flight EXCEPT ![s] = Idle], Same
    PROVE  FlightShape' /\ ReqsRight' /\ AuditTypes'
<1>1. Idle.asks = {}
  BY DEF Idle
<1> QED BY <1>1, SlotSet

\* The answers of a poll are applied: they are still true.
LEMMA ApplyInv == ASSUME ConsoleInv, NEW p \in Polls, Apply(p) PROVE ConsoleInv'
<1>1. p \in Slots /\ p # SubmitSlot
  BY DEF Slots, Polls, SubmitSlot
<1>2. flight' = [flight EXCEPT ![p] = Idle] /\ Same /\ view' = view
  BY DEF Apply, runVars, tables, Same
<1>3. FlightShape' /\ ReqsRight' /\ AuditTypes'
  BY <1>1, <1>2, ClosesInv
<1>4. ASSUME NEW r \in ChatRuns
      PROVE  \/ turns'[r] = turns[r]
             \/ /\ r \in flight[p].asks /\ flight[p].req[r].pc = "ok" /\ turns'[r] = flight[p].req[r].answer
  BY DEF Apply, ConsoleInv
<1>5. ASSUME NEW r \in ChatRuns, turns'[r].kind = "agent", turns'[r].state # "null" PROVE AnswerRight(turns'[r], r)
  <2>1. CASE turns'[r] = turns[r]
    BY <1>5, <2>1 DEF ConsoleInv, TurnsRight
  <2>2. CASE r \in flight[p].asks /\ flight[p].req[r].pc = "ok" /\ turns'[r] = flight[p].req[r].answer
    BY <1>1, <2>2 DEF ConsoleInv, ReqsRight, ReqRight
  <2> QED BY <1>4, <2>1, <2>2
<1>6. TurnsRight'
  BY <1>2, <1>5 DEF TurnsRight, AnswerRight, Same
<1> QED BY <1>2, <1>3, <1>6 DEF ConsoleInv

LEMMA SubmitReturnsInv == ASSUME ConsoleInv, SubmitReturns PROVE ConsoleInv'
<1>1. SubmitSlot \in Slots /\ flight' = [flight EXCEPT ![SubmitSlot] = Idle] /\ Same /\ view' = view
  BY DEF SubmitReturns, runVars, tables, Same, Slots
<1>2. FlightShape' /\ ReqsRight' /\ AuditTypes'
  BY <1>1, ClosesInv
<1>3. \A r \in ChatRuns : turns'[r] = turns[r] \/ turns'[r] = NoState
  BY DEF SubmitReturns
<1>4. TurnsRight'
  BY <1>1, <1>3 DEF ConsoleInv, TurnsRight, AnswerRight, NoState, Same
<1> QED BY <1>1, <1>2, <1>4 DEF ConsoleInv

\* The render: a poll that is cancelled keeps of its requests those that are still to be sent.
LEMMA CancelledRight ==
    ASSUME NEW s \in Slots, NEW f, Shape(f), \A r \in f.asks : ReqRight(s, r, f.req[r])
    PROVE  Shape(Cancelled(f)) /\ \A r \in Cancelled(f).asks : ReqRight(s, r, Cancelled(f).req[r])
<1>1. PICK req : req = [r \in f.asks |-> IF f.req[r].pc \in {"send", "refresh"} THEN f.req[r] ELSE Failed]
  OBVIOUS
<1>2. PICK g : g = [asks |-> f.asks, cancelled |-> TRUE, req |-> req]
  OBVIOUS
<1>3. Cancelled(f) = g /\ g.asks = f.asks /\ g.req = req /\ g.cancelled = TRUE
  BY <1>1, <1>2 DEF Cancelled
<1>4. req = [r \in f.asks |-> req[r]] /\ \A r \in f.asks : req[r] = f.req[r] \/ req[r] = Failed
  BY <1>1
<1>5. Shape(g)
  BY <1>2, <1>3, <1>4 DEF Shape
<1>6. \A r : ReqRight(s, r, Failed)
  BY PlainReq DEF Failed
<1> QED BY <1>3, <1>4, <1>5, <1>6

LEMMA RenderInv == ASSUME ConsoleInv, Render PROVE ConsoleInv'
<1>1. Same /\ turns' = turns
  BY DEF Render, runVars, tables, Same
<1>2. ASSUME NEW s \in Slots
      PROVE  (flight'[s] = Idle \/ Shape(flight'[s])) /\ \A r \in flight'[s].asks : ReqRight(s, r, flight'[s].req[r])
  <2>1. (flight[s] = Idle \/ Shape(flight[s])) /\ \A r \in flight[s].asks : ReqRight(s, r, flight[s].req[r])
    BY DEF ConsoleInv, FlightShape, ReqsRight
  <2>2. CASE flight'[s] = flight[s]
    BY <2>1, <2>2
  <2>3. CASE flight'[s] # flight[s]
    <3>1. flight[s] # Idle /\ flight'[s] = Cancelled(flight[s])
      BY <2>3 DEF Render
    <3> QED BY <2>1, <3>1, CancelledRight
  <2> QED BY <2>2, <2>3
<1>3. flight' = [s \in Slots |-> flight'[s]]
  BY DEF Render
<1>4. FlightShape'
  BY <1>2, <1>3 DEF FlightShape, Shape
<1>5. \A s, r, q : ReqRight(s, r, q) => ReqRight(s, r, q)'
  BY <1>1, ReqStays
<1>6. ReqsRight'
  BY <1>2, <1>5 DEF ReqsRight
<1>7. AuditTypes'
  BY <1>1 DEF ConsoleInv, AuditTypes, Same
<1> QED BY <1>1, <1>4, <1>6, <1>7, TurnsStay DEF ConsoleInv, Render, Pending

\* The steps that touch neither requests nor audits, and at most forget turns.
LEMMA ConsoleStays ==
    ASSUME ConsoleInv, Same, UNCHANGED <<flight, view>>, turns' = turns \/ turns' = [r \in ChatRuns |-> NoTurn]
    PROVE  ConsoleInv'
<1>1. FlightShape' /\ AuditTypes' /\ view'.pending \subseteq ChatRuns
  BY DEF ConsoleInv, FlightShape, Shape, AuditTypes, Same
<1>2. \A s, r, q : ReqRight(s, r, q) => ReqRight(s, r, q)'
  BY ReqStays
<1>3. ReqsRight'
  BY <1>2 DEF ConsoleInv, ReqsRight
<1>4. TurnsRight'
  BY DEF ConsoleInv, TurnsRight, AnswerRight, NoTurn, Same
<1> QED BY <1>1, <1>3, <1>4 DEF ConsoleInv

LEMMA ConsoleNextInv == ASSUME ConsoleInv, ConsoleNext PROVE ConsoleInv'
<1>1. ASSUME NEW r \in ChatRuns, submit(r) PROVE ConsoleInv'
  <2>1. /\ SubmitSlot \in Slots /\ flight' = [flight EXCEPT ![SubmitSlot] = Opened({r})] /\ Same
        /\ turns' = turns /\ view' = view
    BY <1>1 DEF submit, runVars, tables, Same, Slots
  <2> QED BY <2>1, OpensInv
<1>2. ASSUME NEW p \in Polls, Poll(p) PROVE ConsoleInv'
  <2>1. /\ p \in Slots /\ flight' = [flight EXCEPT ![p] = Opened(view.pending)] /\ Same
        /\ turns' = turns /\ view' = view
    BY <1>2 DEF Poll, chatVars, runVars, tables, Same, Slots
  <2> QED BY <2>1, OpensInv DEF ConsoleInv
<1>3. ASSUME NEW s \in Slots, SlotStep(s) PROVE ConsoleInv'
  BY <1>3, RequestInv, RefreshedInv, ReadFlagInv, ReadVerdictsInv, ApplyInv, SubmitReturnsInv DEF SlotStep, RequestStep
<1>4. CASE LoginStep \/ signIn \/ reset \/ TokenExpires
  BY <1>4, ConsoleStays DEF LoginStep, LoginSettles, RefreshForgotten, signIn, reset, TokenExpires, runVars, tables, Same, chatVars
<1> QED BY <1>1, <1>2, <1>3, <1>4, RunProceedsInv, RefreshedInv, RenderInv DEF ConsoleNext

LEMMA ConsoleAlways == Spec => []ConsoleInv
<1>1. Init => ConsoleInv
  BY ConsoleInitInv DEF Init
<1>2. ConsoleInv /\ [Next]_vars => ConsoleInv'
  <2> SUFFICES ASSUME ConsoleInv, [Next]_vars PROVE ConsoleInv'
    OBVIOUS
  <2>1. ConsoleNext \/ UNCHANGED consoleVars
    BY DEF Next, vars, SamplerPart, JudgePart
  <2>2. CASE UNCHANGED consoleVars
    BY <2>2, ConsoleStays DEF consoleVars, runVars, tables, Same, chatVars
  <2> QED BY <2>1, <2>2, ConsoleNextInv
<1> QED BY <1>1, <1>2, PTL DEF Spec

\* The console settles on nothing that was not stored, however polls, logins, renders and audits overlap
\* (ChatProvider, get_agent_run).
THEOREM ShownWasStored == Spec => []VerdictShownWasStored
<1>1. ConsoleInv => VerdictShownWasStored
  <2> SUFFICES ASSUME ConsoleInv, NEW r \in ChatRuns, turns[r].kind = "agent", isAgentTurnDone(turns[r])
               PROVE  /\ VerdictBanner(turns[r]) = "flagged" => "flag" \in stored[r]
                      /\ VerdictBanner(turns[r]) = "clean" => ("skipped" \in tiers[r] \/ stored[r] # {})
    BY DEF VerdictShownWasStored, Settles
  <2>1. turns[r].state # "null" /\ turns[r].audited /\ AnswerRight(turns[r], r)
    BY DEF isAgentTurnDone, ConsoleInv, TurnsRight
  <2>2. VerdictBanner(turns[r]) = "flagged" => turns[r].flag
    BY <2>1 DEF VerdictBanner, AnswerRight
  <2> QED BY <2>1, <2>2 DEF AnswerRight
<1> QED BY <1>1, ConsoleAlways, PTL
================================================================================
