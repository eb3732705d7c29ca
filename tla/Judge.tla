------------------------------- MODULE Judge -------------------------------
(* judge/client.py and judge/cache.py: the detectors of all audits ask the  *)
(* judge concurrently.  A read-through cache, keyed by category, prompt     *)
(* version and slice, stands in front of a client that asks one model and,  *)
(* when that abstains, a second one.  A slice stands for the key.           *)
EXTENDS Integers

CONSTANTS Callers,       \* detector runs that wait for the judge
          Slices,        \* cache keys
          Marked,        \* the slices with one of _INJECTION_MARKERS
          Words,         \* what models write as their verdict
          MaxLookups     \* bound: calls of CachedJudge.judge

ASSUME JudgeAssumption == Marked \subseteq Slices /\ MaxLookups \in Nat

JudgeVerdict == {"VIOLATION", "OK", "NEEDS_REVIEW"}
Absent == [absent |-> TRUE]
(* JudgeResult; confidence, evidence and rubric scores are copied unread.   *)
(* Kept for the properties: the slice it is about, the verdict that stood   *)
(* in the model's answer, whether that was one that could be read and did   *)
(* not abstain, and the models that abstained on the way.                   *)
Result(verdict, abstain, model, word) ==
    [verdict |-> verdict, abstain |-> abstain, model |-> model, word |-> word, decided |-> ~abstain,
     about |-> Absent, passed |-> {}]

(* What comes back over the network: nothing, no text, text without a JSON  *)
(* object, an object with a field of a type that cannot be read, or one     *)
(* that can be; its verdict may be missing, or any word.                    *)
Replies ==
    {[kind |-> "failure"], [kind |-> "no_text"], [kind |-> "prose"], [kind |-> "unreadable"]}
    \cup [kind : {"object"}, verdict : Words, abstain : BOOLEAN]

Abstained(model) == Result("NEEDS_REVIEW", TRUE, model, "none")

\* Mutated form: a word that is no verdict counts as OK.
ParseLenient(reply, model) ==
    IF reply.kind # "object" THEN Abstained(model)
    ELSE Result(IF reply.verdict \in JudgeVerdict THEN reply.verdict ELSE "OK", reply.abstain, model, reply.verdict)

_parse(reply, model) ==
    IF reply.kind # "object" THEN Abstained(model)
    ELSE Result(IF reply.verdict \in JudgeVerdict THEN reply.verdict ELSE "NEEDS_REVIEW",
                reply.abstain, model, reply.verdict)

(* LiteLLMJudge._call: _parse raises on a field it cannot read, and every   *)
(* exception becomes an abstention.                                         *)
LiteLLMCall(reply, model) ==
    IF reply.kind \in {"failure", "unreadable", "no_text"} THEN Abstained(model) ELSE _parse(reply, model)

(* AnthropicJudge._call.  The class takes over LiteLLMJudge._parse as a     *)
(* plain function, so that self._parse passes self as one argument too many *)
(* and raises a TypeError: whatever the model answered, this abstains.      *)
AnthropicCall(reply, model) ==
    [Abstained(model) EXCEPT !.decided = reply.kind = "object" /\ ~reply.abstain]

OfflineStubJudge(slice) ==
    IF slice \in Marked THEN Result("VIOLATION", FALSE, "offline-stub", "VIOLATION")
    ELSE Result("OK", FALSE, "offline-stub", "OK")

(* get_judge: a key selects a live client, which always gets a cache. *)
Settings == [judge_live : BOOLEAN, litellm_base_url : BOOLEAN, same_model : BOOLEAN,
             cache : {"none", "memory", "redis"}]
get_judge(settings) ==
    [base |-> IF ~settings.judge_live THEN "stub"
              ELSE IF settings.litellm_base_url THEN "litellm" ELSE "anthropic",
     cache |-> IF settings.cache = "none" /\ settings.judge_live THEN "memory" ELSE settings.cache,
     escalates |-> ~settings.same_model]

VARIABLES judge,      \* the client in use
          cache,      \* the verdict cache
          call,       \* one judge() per caller
          lookups     \* hits and misses together
judgeVars == <<judge, cache, call, lookups>>

Waiting == [pc |-> "idle"]
JudgeInit ==
    /\ judge \in {get_judge(s) : s \in Settings}
    /\ cache = [s \in Slices |-> Absent]
    /\ call = [c \in Callers |-> Waiting]
    /\ lookups = 0

About(result, slice, passed) ==
    [result EXCEPT !.about = slice, !.passed = passed \cup IF result.abstain THEN {result.model} ELSE {}]

Ends(c, pc, slice, result) == [call EXCEPT ![c] = [pc |-> pc, slice |-> slice, result |-> result]]

(* The client behind the cache: the stub answers at once. *)
Ask(c, slice) ==
    IF judge.base = "stub"
    THEN call' = Ends(c, IF judge.cache = "none" THEN "done" ELSE "set", slice, About(OfflineStubJudge(slice), slice, {}))
    ELSE call' = Ends(c, "primary", slice, Absent)

(* CachedJudge.judge up to the answer of the cache. *)
Lookup(c, slice) ==
    /\ call[c].pc = "idle"
    /\ lookups < MaxLookups /\ lookups' = lookups + 1
    /\ IF judge.cache # "none" /\ cache[slice] # Absent
       THEN call' = Ends(c, "done", slice, cache[slice])
       ELSE Ask(c, slice)
    /\ UNCHANGED <<judge, cache>>

(* RedisVerdictCache.get raises. *)
LookupFails(c, slice) ==
    /\ call[c].pc = "idle" /\ judge.cache = "redis"
    /\ call' = Ends(c, "raised", slice, Absent)
    /\ UNCHANGED <<judge, cache, lookups>>

_call(reply, model) == IF judge.base = "litellm" THEN LiteLLMCall(reply, model) ELSE AnthropicCall(reply, model)
AfterAnswer == IF judge.cache = "none" THEN "done" ELSE "set"

(* LiteLLMJudge.judge and AnthropicJudge.judge: an abstention is taken to   *)
(* the stronger model, unless that is the same one.  The reply is what the  *)
(* client hands over in the end: AsyncAnthropic repeats a request that      *)
(* failed, twice unless told otherwise, and no repetition can be told apart *)
(* here.                                                                    *)
Primary(c, reply) ==
    LET slice == call[c].slice
        result == About(_call(reply, "judge"), slice, {})
    IN  /\ call[c].pc = "primary"
        /\ call' = Ends(c, IF result.abstain /\ judge.escalates THEN "crosscheck" ELSE AfterAnswer, slice, result)
        /\ UNCHANGED <<judge, cache, lookups>>

(* A second abstention leaves the first result standing. *)
Crosscheck(c, reply) ==
    LET slice == call[c].slice
        escalated == About(_call(reply, "crosscheck"), slice, call[c].result.passed)
    IN  /\ call[c].pc = "crosscheck"
        /\ call' = Ends(c, AfterAnswer, slice, IF escalated.abstain THEN [call[c].result EXCEPT !.passed = escalated.passed]
                                               ELSE escalated)
        /\ UNCHANGED <<judge, cache, lookups>>

Answered(c) == \E reply \in Replies \ {[kind |-> "failure"]} : Primary(c, reply) \/ Crosscheck(c, reply)
\* Mutated form: the second request has no timeout.
TimesOutFirst(c) == Primary(c, [kind |-> "failure"])

(* The call fails: timeout_s bounds each operation on the connection, and   *)
(* the client's repetitions are finitely many, so that it ends, though not  *)
(* by any deadline that could be told from timeout_s.                       *)
TimesOut(c) == Primary(c, [kind |-> "failure"]) \/ Crosscheck(c, [kind |-> "failure"])

(* cache.set: every result is kept, abstentions too, over one that is there. *)
Set(c) ==
    /\ call[c].pc = "set"
    /\ cache' = [cache EXCEPT ![call[c].slice] = call[c].result]
    /\ call' = [call EXCEPT ![c].pc = "done"]
    /\ UNCHANGED <<judge, lookups>>

(* RedisVerdictCache.set raises, and the result is lost with it ... *)
SetFails(c) ==
    /\ call[c].pc = "set" /\ judge.cache = "redis"
    /\ call' = [call EXCEPT ![c].pc = "raised"]
    /\ UNCHANGED <<judge, cache, lookups>>

(* ... and a key expires after CACHE_TTL_S. *)
Expire(slice) ==
    /\ judge.cache = "redis" /\ cache[slice] # Absent
    /\ cache' = [cache EXCEPT ![slice] = Absent]
    /\ UNCHANGED <<judge, call, lookups>>

(* The detector takes the result, or the exception. *)
Return(c) ==
    /\ call[c].pc \in {"done", "raised"}
    /\ call' = [call EXCEPT ![c] = Waiting]
    /\ UNCHANGED <<judge, cache, lookups>>

JudgeNext == \/ \E c \in Callers : \/ \E slice \in Slices : Lookup(c, slice) \/ LookupFails(c, slice)
                                   \/ Answered(c)
                                   \/ TimesOut(c)
                                   \/ Set(c)
                                   \/ SetFails(c)
                                   \/ Return(c)
             \/ \E slice \in Slices : Expire(slice)

-----------------------------------------------------------------------------
JudgeTypeOK ==
    /\ judge \in {get_judge(s) : s \in Settings}
    /\ \A s \in Slices : cache[s] = Absent \/ cache[s].verdict \in JudgeVerdict
    /\ \A c \in Callers : call[c].pc \in {"idle", "primary", "crosscheck", "set", "done", "raised"}
    /\ lookups \in 0..MaxLookups

(* A verdict a detector gets is one that a model gave for this very slice,  *)
(* from the cache or not; a failure is never turned into OK or VIOLATION,   *)
(* and the judge abstains only after every model it may ask has abstained.  *)
AnswersGrounded ==
    JudgeTypeOK /\ \A c \in Callers : call[c].pc = "done" =>
        LET result == call[c].result
        IN  /\ result.about = call[c].slice
            /\ result.verdict \in {"OK", "VIOLATION"} => result.word = result.verdict
            /\ result.abstain => /\ result.model = "judge"
                                 /\ judge.escalates => result.passed = {"judge", "crosscheck"}

(* A verdict that a model gave in a readable answer is the judge's result:  *)
(* every client of JudgeClient answers with the verdict of its model.       *)
VerdictsCount == \A c \in Callers : call[c].pc = "done" /\ call[c].result.decided => ~call[c].result.abstain

(* A judge that is asked answers or raises, though no model may ever answer. *)
CallReturns == \A c \in Callers : call[c].pc = "primary" ~> call[c].pc \in {"done", "raised"}
=============================================================================
