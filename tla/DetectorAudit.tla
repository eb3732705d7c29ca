---------------------------- MODULE DetectorAudit ----------------------------
(***************************************************************************)
(* The detectors at work: traces that grow event by event, the provenance  *)
(* store, the tool catalog's manifest, the behavioural baseline and the    *)
(* nightly calibration.  None of them shares state with another, so a      *)
(* behaviour follows one of them, its part; Init chooses which.            *)
(***************************************************************************)
EXTENDS Detectors, Divergence, Provenance, Calibration

CONSTANTS Parts,              \* the parts there are
          Goals(_),           \* the declared goals and metadata of a part's runs
          Metas(_),
          Alphabet(_, _),     \* the n-th event of a run of a part
          MaxEvents(_),       \* bound on the length of its traces
          MaxReads,           \* bound on the reads recorded in the provenance store
          CatalogTools, Contents, MaxObserved, Observations

\* The parts that are about the events of a run.
OfTrace(p) == p \notin {"host", "provenance", "calibration", "catalog", "baseline"}

ASSUME AlphabetAssumption == \A p \in Parts : MaxEvents(p) \in Nat
ASSUME ObservationsAssumption == Observations \subseteq Int

VARIABLES subject,            \* the part explored
          audited,            \* the trace of the run
          manifest, files,    \* the published hashes; the files at run start
          running, observed   \* Welford's accumulator of one axis; what it folded
traceVars == <<subject, audited>>
catalogVars == <<manifest, files>>
baseVars == <<running, observed>>
detectorVars == <<traceVars, catalogVars, baseVars, storeVars, calVars>>

-----------------------------------------------------------------------------
(* asi04_catalog_integrity: a file's hash is its content; "missing" and     *)
(* "unreadable" have none.                                                  *)
Unhashable == {"missing", "unreadable"}
NoFiles == [x \in {} |-> "missing"]

\* publish_catalog raises when a file cannot be read.
publish ==
    /\ subject = "catalog"
    /\ \A x \in DOMAIN files : files[x] \notin Unhashable
    /\ manifest' = files
    /\ UNCHANGED <<files, traceVars, baseVars, storeVars, calVars>>

\* The tools registered and their files change between publish and run start.
ChangeFiles ==
    /\ subject = "catalog"
    /\ \E T \in SUBSET CatalogTools : files' \in [T -> Contents]
    /\ UNCHANGED <<manifest, traceVars, baseVars, storeVars, calVars>>

verify_catalog_integrity(published, current) ==
    LET removed    == {<<x, "removed">> : x \in DOMAIN published \ DOMAIN current}
        unreadable == {<<x, current[x]>> : x \in {y \in DOMAIN published \cap DOMAIN current :
                                                    current[y] \in Unhashable}}
        modified   == {<<x, "modified">> : x \in {y \in DOMAIN published \cap DOMAIN current :
                                  current[y] \notin Unhashable /\ current[y] # published[y]}}
        added      == {<<x, "added">> : x \in DOMAIN current \ DOMAIN published}
    IN  removed \cup unreadable \cup modified \cup added

-----------------------------------------------------------------------------
(* BaselineStore: Welford's update, in fractions <<numerator, denominator>>.*)
Plus(a, b) == <<a[1] * b[2] + b[1] * a[2], a[2] * b[2]>>
Minus(a, b) == <<a[1] * b[2] - b[1] * a[2], a[2] * b[2]>>
Times(a, b) == <<a[1] * b[1], a[2] * b[2]>>

_Running == [count |-> 0, mean |-> <<0, 1>>, m2 |-> <<0, 1>>]
update(r, value) ==
    LET count == r.count + 1
        delta == Minus(<<value, 1>>, r.mean)
        mean  == Plus(r.mean, <<delta[1], delta[2] * count>>)
    IN  [count |-> count, mean |-> mean,
         m2 |-> Plus(r.m2, Times(delta, Minus(<<value, 1>>, mean)))]

observe(value) ==
    /\ subject = "baseline"
    /\ Len(observed) < MaxObserved
    /\ running' = update(running, value)
    /\ observed' = Append(observed, value)
    /\ UNCHANGED <<traceVars, catalogVars, storeVars, calVars>>

Z_THRESHOLD == 3

\* _baseline_drift of one axis: (value - mean)^2 > z^2 * m2 / (count - 1), for a positive deviation.
_baseline_drift(r, value) ==
    /\ r.count >= 2
    /\ r.m2[1] > 0
    /\ LET d == Minus(<<value, 1>>, r.mean)
       IN  d[1] * d[1] * (r.count - 1) * r.m2[2] > Z_THRESHOLD * Z_THRESHOLD * r.m2[1] * d[2] * d[2]

-----------------------------------------------------------------------------
DetectorInit ==
    /\ subject \in Parts
    /\ \E g \in Goals(subject), m \in Metas(subject) : audited = Trace(g, <<>>, m)
    /\ manifest = NoFiles
    /\ files = NoFiles
    /\ running = _Running
    /\ observed = <<>>
    /\ StoreInit
    /\ CalInit

\* The run's next event is stored.
Emit ==
    /\ Len(audited.events) < MaxEvents(subject)
    /\ \E e \in Alphabet(subject, Len(audited.events) + 1) :
          audited' = [audited EXCEPT !.events = Append(@, e)]
    /\ UNCHANGED <<subject, catalogVars, baseVars, storeVars, calVars>>

WriteEntry ==
    /\ subject = "provenance"
    /\ \E e \in Entries, r \in Runs, s \in {"web", "user"}, h \in 0..1 :
          /\ \A x \in Entries \ DOMAIN entries : e <= x
          /\ write_entry(e, r, s, h)
    /\ UNCHANGED <<traceVars, catalogVars, baseVars, calVars>>

ReadEntry ==
    /\ subject = "provenance"
    /\ SumFunction([r \in Runs |-> Len(reads[r])]) < MaxReads
    /\ \E r \in Runs, e \in DOMAIN entries : ~Contains(reads[r], e) /\ record_read(r, e)
    /\ UNCHANGED <<traceVars, catalogVars, baseVars, calVars>>

WalkChain ==
    /\ subject = "provenance"
    /\ \E r \in Runs : walk_influence_chain(r)
    /\ UNCHANGED <<traceVars, catalogVars, baseVars, calVars>>

Calibrate ==
    /\ subject = "calibration"
    /\ Score \/ Report
    /\ UNCHANGED <<traceVars, catalogVars, baseVars, storeVars>>

Observe == \E v \in Observations : observe(v)

DetectorNext == Emit \/ WriteEntry \/ ReadEntry \/ WalkChain \/ Calibrate \/ publish \/ ChangeFiles \/ Observe

DetectorSpec == DetectorInit /\ [][DetectorNext]_detectorVars

-----------------------------------------------------------------------------
(* Every verdict of a trace is well formed, whatever the judge answers.     *)
Verdicts(t, j) ==
    Asi01(t, j) \cup Asi02(t) \cup Asi03(t) \cup Asi04(t) \cup Asi05(t) \cup Asi06(t, FALSE, j)
    \cup Asi07(t) \cup Asi08(t) \cup Asi09(t, j) \cup Asi10(t, j) \cup InstructionFollowing(t, j)
VerdictResults == {"OK", "VIOLATION", "NEEDS_REVIEW"}

(* Type invariant: the state of each part, and every verdict of the current *)
(* trace is one result, with a confidence between 0 and 100 percent when    *)
(* the judge's is.                                                          *)
TypeOK ==
    /\ subject \in Parts
    /\ OfTrace(subject) => \A j \in JudgeAnswers : \A v \in Verdicts(audited, j) :
          v.result \in VerdictResults /\ (j.confidence \in 0..100 => v.confidence \in 0..100)
    /\ \A e \in DOMAIN entries : entries[e] \in [writer : Runs, tagged : BOOLEAN, quarantined : BOOLEAN]
    /\ reads \in [Runs -> Seq(Entries)]
    /\ pos \in 0..Len(build_default_ground_truth)
    /\ disabled \subseteq DOMAIN matrices
    /\ running.count = Len(observed)

(* The cycle search never accuses without a cycle: whatever spans and       *)
(* parents the events name, what _find_cycle returns is a cycle of at least *)
(* three spans.  It misses none in a run whose spans have one parent each,  *)
(* and none in a graph without a shorter cycle.  (Where an event records a  *)
(* span again, under another parent, and there is a shorter cycle as well,  *)
(* one can be missed, whatever the docstring of _find_cycle says: in the    *)
(* graph 1 -> {2, 3}, 2 -> 1, 3 -> 2 of four events, for one.)              *)
SpanCycleExact ==
    subject = "spans" =>
        LET g     == Adjacency(audited.events)
            cycle == _find_cycle(g)
        IN  /\ cycle # <<>> => IsCycle(g, cycle) /\ Len(cycle) >= _MIN_CYCLE_DEPTH
            /\ NoneMissed(g) /\ HasCycle(g) => cycle # <<>>

(* walk_influence_chain from any run finds exactly the tagged entries that  *)
(* reach it in at most MAX_HOPS reads, each once, and only tagged entries   *)
(* are ever quarantined.                                                    *)
WalkExact ==
    subject = "provenance" =>
        /\ \A r \in Runs : /\ Poisoned(Chain(r)) = Influencing(r)
                           /\ Len(Chain(r)) = Cardinality(Influencing(r))
        /\ \A e \in DOMAIN entries : entries[e].quarantined => entries[e].tagged

(* Welford's running mean and sum of squared deviations are the ones the    *)
(* definition gives: n * mean is the sum, and n * m2 the difference of n    *)
(* times the sum of squares and the square of the sum.  Of at most ten      *)
(* observations none is drift: (n - 1) / sqrt(n) bounds their z.            *)
Total(values) ==
    LET sum[i \in 0..Len(values)] == IF i = 0 THEN 0 ELSE sum[i - 1] + values[i]
    IN  sum[Len(values)]
BaselineExact ==
    LET n   == Len(observed)
        sum == Total(observed)
        sq  == Total([i \in 1..n |-> observed[i] * observed[i]])
    IN  n > 0 =>
          /\ running.mean[1] * n = sum * running.mean[2]
          /\ running.m2[1] * n = (n * sq - sum * sum) * running.m2[2]
          /\ n <= 10 => \A i \in 1..n : ~_baseline_drift(running, observed[i])

(* The integrity check passes exactly when the current files are the        *)
(* published ones, tool by tool and content by content.                     *)
CatalogExact ==
    subject = "catalog" => ((verify_catalog_integrity(manifest, files) = {}) <=> (manifest = files))

(* The algorithms behind the detectors compute what they are meant to:      *)
(* cycle search, influence-chain walk, online variance, catalog comparison. *)
AlgorithmsExact == TypeOK /\ SpanCycleExact /\ WalkExact /\ BaselineExact /\ CatalogExact

(* What the patterns find cannot be talked away by the judge: whatever the  *)
(* judge answers about a trace, text that matches an injection pattern or   *)
(* an overconfidence marker, or another tenant's id, keeps ASI01, ASI06 and *)
(* ASI09 from saying OK, and the verdict is shown under an operator check.  *)
MarkersSurviveJudge ==
    OfTrace(subject) => \A j \in JudgeAnswers :
        LET found(vs) == /\ vs # {}
                         /\ \A v \in vs : v.result # "OK"
                         /\ \A v \in vs : \E c \in DOMAIN checks_for_verdicts(vs) : v \in checks_for_verdicts(vs)[c]
        IN  /\ Suspect01(audited) # {} => found(Asi01(audited, j))
            /\ (Suspect06(audited) # {} \/ Leaked06(audited))
                    => found(Asi06(audited, FALSE, j))
            /\ "overconfident" \in Slice09(audited) => found(Asi09(audited, j))

(* No call of a run ends before it starts.                                  *)
EndsFollow(events) ==
    \A i, k \in 1..Len(events) :
        i < k /\ events[i].kind = "tool_call.end" /\ events[k].kind = "tool_call.start" => events[i].call # events[k].span

(* A violation that a deterministic detector finds is not undone by what    *)
(* the run does next: the events stored later never turn it into OK.  ASI02 *)
(* and ASI08 follow the ids that the harness sends: ASI02 keeps its verdict *)
(* unless the spans come to be of the kind in which a cycle can be missed,  *)
(* and ASI08 unless a call starts anew after it ended.                      *)
Violates(vs) == \E v \in vs : v.result = "VIOLATION"
ViolationsStay ==
    [][ \A d \in {2, 3, 4, 5, 7, 8} :
          LET of(t) == CASE d = 2 -> Asi02(t) [] d = 3 -> Asi03(t) [] d = 4 -> Asi04(t)
                         [] d = 5 -> Asi05(t) [] d = 7 -> Asi07(t) [] OTHER -> Asi08(t)
          IN  /\ OfTrace(subject)
              /\ d = 2 => NoneMissed(Adjacency(audited'.events))
              /\ d = 8 => EndsFollow(audited'.events)
              /\ Violates(of(audited))
              => Violates(of(audited')) ]_audited

(* The divergence findings depend on the events' timestamps and not on the  *)
(* order in which the two channels delivered them.                          *)
ArrivalOrderIrrelevant ==
    subject = "host" =>
        LET events == audited.events
            found  == analyze(events)
        IN  \A p \in Bijection(DOMAIN events, DOMAIN events) :
                analyze([i \in DOMAIN events |-> events[p[i]]])
                    = [i \in {k \in DOMAIN events : p[k] \in DOMAIN found} |-> found[p[i]]]

(* Calibration takes blocking authority only from categories whose detector *)
(* asks the judge: whatever the judge answers, the deterministic detectors  *)
(* separate the corpus and keep theirs; and with the offline judge's        *)
(* answers every category keeps it.                                         *)
DisabledOnlyByJudge ==
    /\ disabled \subseteq Judged
    /\ \A i \in 1..Len(build_default_ground_truth) :
          LET entry == build_default_ground_truth[i]
              judge == IF entry.category \in Judged THEN OfflineStubJudge(SliceOf(entry.category, entry.trace))
                       ELSE [verdict |-> "OK", confidence |-> 0]
          IN  subject = "calibration" =>
                (default_predictor(entry, judge) <=> entry.label = "VIOLATION")
    /\ report # EmptyMatrix =>
          /\ \A c \in DOMAIN matrices : (matrices[c].tp = 0 \/ matrices[c].fp > 0) <=> c \in disabled
          /\ report.tp + report.fn = Len(ASI_CATEGORIES)
=============================================================================
