# TLA+ models of AI-Auditor

AI-Auditor runs AI agents in a *harness* process, watches what they do through a telemetry connection,
decides inline about every tool call, audits each finished run with detectors, and brings what they find
before human reviewers. This directory holds TLA+ models of the parts of it that are hard to test
(concurrent writers, requests and connections, failures in the middle of an operation, timeouts that
race late answers, crashes), TLC configurations that check them, and TLAPS proofs of all their
safety properties.

`PROJECT.json` lists the components, the runs, the source lines each definition translates (`map`), the
hazards with the properties that watch them, one mutant per property (a plausible bug under which the
property fails), and the theorems.

    tlc -config GateAndLog.cfg MCGateAndLog    # one run; the table under "Runs" has them all
    tlapm LogAndReviewProofs.tla               # one set of proofs

## 1. The system

### Parts and how they interact

    agent in harness --(frames, one connection per run)--> IpcServer / GateDispatcher
                                                              |-- decide(): OPA, Redis budget, scanner
                                                              |-- events, runs, gate_decisions (Postgres)
                                                              '-- at disconnect: audit task
    audit task: load_trace -> sampler -> detectors (judge) -> aggregate -> flag + incident -> HITL router
    HITL router: checkpoint (MinIO), pause (cgroup / job object), queue and digest (Redis), notifier
    reviewer / admin --HTTP--> decisions (resume, abort), incident transitions, roles, searches, scans
    console --HTTP--> start a run, poll it until its audit is over
    everything that decides --append--> audit log (hash chain per tenant)

| Part | State it keeps | Operations | What is hard |
|---|---|---|---|
| Audit log (`auditor/audit_log`) | `audit_log` rows with a chain hash per tenant | `append`, `verify_chain`, `chain_length` | writers of several processes; a transaction that fails after its insert; order of insert and commit |
| Telemetry SDK and gate connection (`harness/telemetry`, `auditor/ipc`) | the connection's two streams, the SDK's lock | `tool_call`, one-way events, `_handle`, `on_frame` | coroutines sharing a connection; a timeout racing its answer; a frame half read; a blocked writer |
| Gate decision (`auditor/inline_gate`) | OPA answer cache, counters in Redis | `decide`, `load_policy`, `BudgetEnforcer.check`, `evaluate_outbound` | decisions that interleave with policy loads, expiry and failures |
| Run lifecycle (`auditor/harness_runner.py`, `ipc/dispatch.py`, `events/store.py`, `async_pipeline/pipeline.py`) | child processes, reaper threads, `_known_runs`, `runs`, `events`, audit tasks | start, connect, event, disconnect, reap, audit, boot sweep | three places that end a run; audits that exist only in memory; a crash between two steps |
| Audit pipeline (`async_pipeline`, `detectors/orchestrator.py`) | sampling settings, a counter, the time of the last audit; rows of the audited run | `audit_run`: signals, `decide`, detectors, aggregate, store, route; replace settings | settings that change while audits run; detectors that raise; boundaries of thresholds and intervals |
| Detectors (`auditor/detectors`, `events/correlator.py`, `inline_gate/divergence.py`) | provenance store, baseline, catalog manifest | one verdict per detector from a trace | order of arrival, cycles and hops, a judge that may say anything |
| Verdicts (`auditor/verdicts`) | none | severity, consistency checks, aggregation, the four operator checks | combinations of verdicts |
| Judge (`auditor/judge`) | verdict cache, in memory or in Redis | judge, escalate, abstain | failures of the models and of Redis; concurrent misses |
| Sampler (`async_pipeline/sampler.py`) | novelty index, spend of the day | `decide`, `record_cost` | two processes between the commands of Redis |
| Calibration (`auditor/calibration`) | confusion matrices, blocking authority | nightly run, cross-check of the judge | corner cases of precision |
| Incidents (`auditor/incidents`, `api/incidents_routes.py`) | `incidents` rows | open with a flag, transition, comments, actions | two requests that checked the same row |
| Human review (`auditor/hitl`, `api/hitl_routes.py`, `auditor/enforcement`) | flags, `hitl_decisions`, Redis queue and digest, the process's pause; subscribers of the live feed | route, decide, enforce; list, subscribe, page | decisions that overtake the routing; several flags of a run; a flag between the list and the feed |
| Detector lifecycle (`auditor/detectors/lifecycle.py`) | `detector_lifecycle` history | transition with gates | two transitions from the same latest row |
| Redaction and scanner (`audit_log/redactor.py`, `events/store.py`, `scanner`) | events at rest with the redactor's mark, the scanner's flags | redact at write, scan, reset | redactor and scanner of different processes with different recognizers |
| Search and tenancy (`audit_log/query.py`, `api/search_routes.py`, `db/tenancy.py`) | saved queries; the role and tenant of a pooled connection | search, save, run saved, incident report | requests of two tenants on one connection; parameters from several places |
| Roles (`api/auth.py`, `api/auth_routes.py`, `api/admin.py`) | `users.role`; roles live on in tokens | login, verify, grant | a role that was taken away; two grants at once |
| Operator console (`hitl_ui/frontend`: chat, API client; `api/agent_routes.py`) | the thread, polls under way, the token in two places | submit, poll, re-login | overlapping polls; an answer put together from several queries |
| The rest | | | listed in `PROJECT.json` with the reason for leaving it out |

### What makes each part correct

* **Audit log**: the chain of every tenant verifies at every moment; rows are only appended, in chain
  order; tampering is reported at the right place; a failed append leaves nothing behind and no append
  waits for ever.
* **Gate connection**: a tool body runs only on a permission; a request gets its own answer, and every tool
  call ends: the first breaks after a timeout, the second with an auditor that stops reading (section 5).
* **Gate decision**: nothing is let through that was not checked; the policy that voted is not older than
  the cache allows; the caps hold.
* **Run lifecycle**: a run ends once and does not stay `running`; a run is audited once, on all its events.
* **Audit pipeline**: what must be audited is, as far as the signals tell; the sampling modes keep their counts and intervals; a failing
  detector is not a clean one; flag, severity and incident agree with the verdicts.
* **Detectors**: their algorithms compute what they are meant to; what a deterministic rule found is undone
  neither by the judge, nor by later events, nor by the order in which the channels deliver.
* **Judge**: a verdict is one that a model gave about this slice; a call returns.
* **Sampler, calibration**: a first use is audited; only a misjudging judge costs a category its authority.
* **Incidents**: legal transitions only, with the evidence they need, by the right role.
* **Human review**: what is decided is recorded, then enforced; a critical flag stops its run; a run is
  killed only by a decision; a paused run has somebody who will decide about it; reviewers see every flag.
* **Detector lifecycle**: a row rests on the row it was checked against; the trail tells of every row whose caller
  was told it is there.
* **Redaction**: personal data in an event without the redactor's mark is found by a scan that knows it; an event
  with it has nothing left that its redactor knew.
* **Search, roles**: an answer has the tenant's rows, all of them that match; nobody is an admin without one.
* **Console**: what it shows last of a run was stored, and it gets there; that it is the whole result is not so.

## 2. The modules

| Module | Models | Run by |
|---|---|---|
| `AppendOnlyLog` | abstract: one history per tenant to which entries are appended | as a property of `AuditLog` |
| `AuditLog` | `AuditLogWriter.append` as its transaction, `verify_chain` | `MCGateAndLog` |
| `TelemetryGate` | one run's connection: SDK at one end, `_handle` and `_gate` at the other | `MCGateAndLog`; `MCTelemetryGate` for the violations |
| `TelemetryGateProofs` | theorems about `TelemetryGate` | tlapm |
| `GateDecision` | `decide()` with OPA cache, budget and scan; `load_policy` | `MCDecisionAndReview` |
| `GateDecisionProofs` | theorems about `GateDecision` | tlapm |
| `RunLifecycle` | runner, connection handlers, run rows, audit tasks, crash and boot | `MCRunLifecycle` |
| `RunLifecycleProofs` | theorems about `RunLifecycle` | tlapm |
| `RiskSignals` | operators: `compute_run_signals`, and what it should find in a trace | `AuditPipeline` |
| `Verdicts` | operators: `classify`, `score_severity`, `aggregate` | `AuditPipeline` |
| `AuditPipeline` | `audit_run` from the trace to the routed flag, `runtime_policy`, `PUT /admin/sampler` | `Audits` |
| `Incident` | `open_incident_for_flag`, `POST /incidents/{id}/transition` | `Audits` |
| `Audits` | composes the two above | `MCAudits` |
| `AuditsProofs` | theorems about `Audits` | tlapm |
| `HitlReview` | `HitlRouter.route`, `submit_decision`, `_apply_enforcement` | `MCDecisionAndReview` |
| `LogAndReviewProofs` | theorems about `AuditLog` and about `HitlReview` | tlapm |
| `SpanGraph` | operators: the span graph and its depth-first cycle search | `DetectorAudit` |
| `Detectors` | operators: ASI01 to ASI10, instruction following, the four checks | `DetectorAudit` |
| `Divergence` | operators: the correlator and the divergence rules | `DetectorAudit` |
| `Provenance` | the provenance store and the influence-chain walk | `DetectorAudit` |
| `Calibration` | the labelled corpus, the nightly run, the cross-check of the judge | `DetectorAudit` |
| `DetectorAudit` | composes the five above, with the tool catalog and the baseline | `MCDetectorAudit` |
| `DetectorAuditProofs` | theorems about `DetectorAudit` | tlapm |
| `Judge` | the clients, their choice, escalation and the two caches | `AsyncServices` |
| `Sampler` | `Sampler.decide` with its novelty indexes and budget | `AsyncServices` |
| `Console` | chat thread, poller, re-login, `get_agent_run` query by query | `AsyncServices` |
| `AsyncServices` | composes the three above and states their fairness | `MCAsyncServices` |
| `AsyncServicesProofs` | theorems about `AsyncServices` | tlapm |
| `Redaction` | redaction at write, scans, their flags, reset | `Records` |
| `Search` | queries, saved queries, tenant scope on a pooled connection | `Records` |
| `Access` | login, tokens, grants | `Records` |
| `DetectorLifecycle` | `transition()` with its gates, its two transactions | `Records` |
| `ReviewFeed` | list and live feed of flags, pending queue, pages of events | `Records` |
| `Records` | composes the five above | `MCRecords` |
| `RecordsProofs` | theorems about `Records` | tlapm |

A step of a module is what happens between two awaits (or two statements another process can get
between); a database transaction that reads and writes without anything in between that matters is one
step. Everything marked *Mutated form* is not part of a specification: it is the wrong variant of the
definition that follows it.

`Audits`, `DetectorAudit`, `AsyncServices` and `Records`, and the MC modules `MCGateAndLog` and `MCDecisionAndReview`, put
together parts that share no state: a variable `part` (`subject` in `DetectorAudit`), chosen at the start, says
which of them a behaviour is about, and the others stand still. Their interleavings would add states and no
behaviour. (In `Audits` the incident that `StoreRunResult` opens is one
`OpenForFlag` opens: no later audit reads it.)

**AuditLog.** `table` is the committed part of `audit_log`; a writer goes through `Begin` (hash the
payload, open the transaction), `AcquireLock` (`pg_advisory_xact_lock`), `ReadPrev`, `Insert` (the flush:
takes a `seq`, not yet visible) and `Commit`; `Rollback` may happen after each of them. SHA-256 is ideal:
the chain hash is the list of the payload hashes it covers, so that two hashes are equal exactly when they
cover the same entries in the same order. `verify_chain` is evaluated on every reachable table, and in
`TamperDetected` on every tampered variant of it.

**TelemetryGate.** `sdkPc[c]` is where the coroutine of tool call `c` is in `Telemetry.tool_call`; `toAuditor`
and `toHarness` are the streams; `srv` is where `_handle` is with the frame it read. The decision is a
choice. `Timeout` may come at any moment of the wait and may leave a frame half read (`torn`); `ReadEof`,
`ReadTornFrame` and the failing write are the error paths, with the ones `tool_call` does not catch ending
in `failed`. `ConnectionDown` covers a crash of the auditor, a handler that raises, and a cut.
One-way events (`declare_intent`, `llm_call`, `memory_op`) use the lock and write path of the end event. A write
waits for room in the buffer, under the lock and without a timeout (`drain()`); nothing makes the auditor read.

**GateDecision.** `Begin`, `Evaluate`, `Response`, `OpaError`, `CheckBudget` / `SkipBudget` / `CheckFails`
and `Answered` are the stretches of `decide()` between its awaits; `PutPolicy` and `Boot` are
`load_policy`. The budget's Lua script is one step (`Counted`, `BudgetVote`). Time is a counter; entries
and counters carry the time they expire at. What the Rego policy says is the constant `Rego`, what the
scanner finds is a choice. `passed` and `repeated` only observe.

**RunLifecycle.** Per run: the child (`proc`), its `reaper` thread, the `handler` coroutine of its
connection, the row's `status`, the number of `events` stored and the list of its `audits`. `mtls` is
chosen at the start: with it the certificate names the run of a connection; without it (the default of
`auditor/config.py`) `on_disconnect` handles every run in `knownRuns`. Transactions may fail
(`MaxDbFailures`), and the auditor may crash anywhere (`MaxCrashes`) and boot again with the sweep.

**AuditPipeline.** `task` is the stage of the audit in hand and what it carries; `settings`, `counter` and
`lastAudit` are the globals of `runtime_policy`; `rows` are what the audit leaves in the database. `decide()` and
the settings endpoint contain no await, so that each is one step; `DecideForced`, `DecideEveryNth`, `DecideInterval`
and `DecidePercentage` are the branches of `decide()`. `era` observes the decisions since the settings were last
replaced. An event is reduced to its type, the class of its tool and which patterns match; whether a hash
selects a run (stratified sample, canary partition) and what a detector answers or that it raises are choices.

**Incident.** `row[i].set` is the set of columns that are filled. A request reads the row
(`ReadIncident`), then checks its copy and commits (`Transition`), then appends to the audit log, best
effort (`AppendTrail`). `byAdmin`, `applied` only observe and bound.

**HitlReview.** `router[f]` is the next step of the routing of flag `f`, `request[q]` the decision being
handled: `ReadFlag`, `CommitDecision`, `AppendTrail`, `Enforce`. The UPDATE of a flag names only the
columns that changed with respect to the copy that was read, as SQLAlchemy does it. `enforcer` is chosen once:
with the cgroup freezer a run is frozen or not, with the Windows job object every pause suspends the threads once
more and every continue takes one suspend back, so that `process` counts them. Enforcement may have
no effect (run not registered, no cgroup): `notPaused` and `notReleased` observe that; `late` observes
pauses that come after the decision they were for.

**Detectors, SpanGraph, Divergence.** Each detector is an operator from a trace (and the judge's answer) to its
verdicts. A text is the set of the marks that the patterns find in it, so that a trace says which pattern
matches where and nothing of the wording; confidences are percents. A list that the code filters out of the
events is the set of their positions, in which the order is still there. `_find_cycle` is the search with its
colours and its stack, one step for a start of the outer loop, a child, or a return of `dfs()`; it makes at most
as many steps as there are such moves, and is compared with the definition of a cycle. Events name spans and
parents as they like: one span may be recorded several times, with several parents. The traces grow event
by event, so that an action property can say what a later event may not change.

**Provenance, Calibration.** `walk_influence_chain` is the breadth-first walk with its hop limit, pass by pass of the
`while` loop (`WalkPass`), compared with reachability; it quarantines what it links. Calibration replays the corpus of `ground_truth.py` entry by entry,
with an answer of the judge chosen for each, and then reports.

**Judge.** `judge` is what `get_judge` returns for some settings; `call[c]` is a detector's call: look up, ask
the first model, perhaps the second, set. Model and Redis may fail at each. A result carries, for the
properties, the slice it is about, the word that stood in the answer, and who abstained on the way.

**Sampler.** `decide[p]` is the `decide()` of one process; with Redis each of the four set commands is a step, and
may fail. The stratum's hash is a Boolean.

**Console.** `trace`, `audit` and `harness` are what the database and the registry say of a run; `flight[s]` is a poll
or the submit, with the request of each run it asks about; `view` is what the current effect closed over
and `changed` says that a render is due. `get_agent_run` reads in three steps, between which the audit may
commit. A run is audited any number of times, while it runs and afterwards, as `on_disconnect` without mTLS has
it: each audit commits a sampler row (`tiers`) and perhaps, later, its results (`stored`). Lost sampler rows,
broken connections and expired tokens are counted by `faults`.

**Redaction.** `events` are the rows with the redactor's mark, or the one their payload came with; a text is a set of
spans, each with the types the regexes give it and those Presidio's own recognizers give it, of which either may
be empty. At a text on which Presidio's analyzer raises, its types are those of the regexes. `process` is the backend and the switch of the running auditor, which a restart
may change; a scan goes through events, memory metadata and one flag a run, each of which may fail.

**Search.** A query is validated, compiled and executed as in `query.py`; `tenant_scope` sets role and tenant on the
pooled connection, which the next request finds as the last one left it. Tables, queries and parameters
are small families that name every operator, alias, limit and time token once.

**Access.** A token is [sub, role, exp]; a grant reads the row, then commits. `held`, `grants` only observe.

**DetectorLifecycle.** `Check` reads the latest row and checks edge and gates, `Open` fixes `changed_at`, `Commit` makes
the row visible, `AppendEntry` writes the trail; between any two, others may act, and both transactions may fail.

**ReviewFeed.** The feed (a flag is stored, published later; viewers connect, list, read and leave), the queue
(`list_pending` command by command, with hashes that expire) and the pages of a run's events. The flag's detail, one
query, is left out.

## 3. Runs

Twelve runs, seven of which pass; in the five "violation" runs the code does something else than one of its own
comments or docstrings says, and the run is the evidence of a finding.

| Run | Config, module | Shows |
|---|---|---|
| `gate_and_log` | `GateAndLog.cfg`, `MCGateAndLog` | *gate*: two concurrent calls; a body runs on a permission, and answers are mixed up only after a timeout, none taken twice (`RunsOnPermission`); a stalled writer is the only way in which a call hangs (`CallEnds`). *Log*: two writers, two tenants, rollbacks anywhere; the chain is intact (`ChainIntact`), every interior tampering is found where it is (`TamperDetected`), the table implements the abstract histories (`RefinesAppendOnlyLog`), every append ends (`AppendEnds`) |
| `gate_denied` | `TelemetryGateDenied.cfg`, `MCTelemetryGate` | violation of `DeniedCallDoesNotRun`: after a timeout a denied call runs on another call's permission |
| `gate_stalled` | `TelemetryGateStalled.cfg`, `MCTelemetryGate` | violation of `CallEndsAlways`: an auditor that stays connected and stops reading blocks a writer, and with it every call |
| `decision_and_review` | `DecisionAndReview.cfg`, `MCDecisionAndReview` | *gate decision*: votes no older than the cache's TTL (`StalenessBounded`); nothing allowed unchecked, caps hold (`ChecksHold`). *Review*: a flag is closed exactly when decided, a kill is a decision's (`DecisionsStand`); `NoForgottenPause`, `CriticalStops`, `AbortEnds` |
| `runs` | `RunLifecycle.cfg`, `MCRunLifecycle` | `StatusIsFinal` and `RunSettles` in both modes; with mTLS a run is completed after its end only, with one sampler row and one audit of its whole trace (`AuditIsExact`, `DisconnectedRunAudited`) |
| `audits` | `Audits.cfg`, `MCAudits` | `SignalsMatchTrace`, `HardTriggersAudited`; every n-th run and the interval (`ModesExact`); silence is vouched for, severity is the worst (`VerdictsAccounted`); `MilestonesRecorded` of incidents; admins only resolve, the trail is true (`ResolutionsAccounted`) |
| `divergence_skipped` | `AuditsDivergence.cfg`, `MCAudits` | violation of `DivergenceAudited`: a run that is nothing but undeclared traffic is left to the sampling |
| `detectors` | `DetectorAudit.cfg`, `MCDetectorAudit` | cycle search (no false one; none missed unless a span recorded twice meets a short cycle), chain walk, variance and catalog comparison are exact (`AlgorithmsExact`); `MarkersSurviveJudge`, `ViolationsStay`, `ArrivalOrderIrrelevant`; `DisabledOnlyByJudge` |
| `judge` | `AsyncServices.cfg`, `MCAsyncServices` | `AnswersGrounded`, `CallReturns` of the judge; `FirstUseAudited` of the Sampler; `VerdictShownWasStored` and `TurnSettles` of the console |
| `judge_anthropic` | `AsyncServicesAnthropic.cfg`, `MCAsyncServices` | violation of `VerdictsCount`: the client for Anthropic turns every answer into an abstention |
| `verdict_torn` | `AsyncServicesTorn.cfg`, `MCAsyncServices` | violation of `CleanIsFinal`: the console settles on Clean for a run whose flag is stored |
| `records` | `Records.cfg`, `MCRecords` | `LeaksSurface` of redaction; `AnswersExact` of searches; `AdminBacked` of roles; `RowsEarned`, `TrailAccounts`, `LegalUnlessStale` of the detector lifecycle; no flag falls between list, feed and queue, and no event between two pages (`NothingWithheld`) |

The type invariant of a module is a conjunct of one of its properties (`ChecksHold`, `DecisionsStand`,
`AuditIsExact`, `ModesExact`, `AlgorithmsExact`, `RunsOnPermission`, `AnswersGrounded`, `RowsEarned`); those of
`AuditLog` and `Incident` are proved only.

### What the properties leave open

Most of these properties except something, because the code does not promise it or does not keep it. What a
property shows is that nothing *else* goes wrong; where a hazard is exactly what it excepts, the hazard's note
in `PROJECT.json` says so.

| Property | Excepts | Why |
|---|---|---|
| `CallEnds` | a writer stalled for ever | `drain()` has no timeout; refuted without the exception by `gate_stalled` |
| `DisconnectedRunAudited` | a crash of the auditor | audits are tasks in memory and nothing resumes them; the row is settled all the same (`RunSettles`) |
| `SignalsMatchTrace`, `HardTriggersAudited` | egress that shows in `sendto` and DNS events only (`HiddenEgress`); the triggers divergence and recent incidents | `signals.py:88-95` reads fields those events do not have; the two triggers are constants, see `divergence_skipped` |
| `ResolutionsAccounted` | a committed transition without its audit entry | the entry is best effort; only an entry without a commit is excluded |
| `NoForgottenPause` | a pause after the decision it was for (`late`), an enforcement without effect | `submit_decision` does not wait for the routing |
| `CriticalStops` | a continue on *any* flag of the run, a pause without effect | enforcement is per run: it says little about flags decided differently, for which there are `DecisionsStand` and `AbortEnds` |
| `AlgorithmsExact`, `ViolationsStay` | cycles in graphs with a span of several parents and a cycle of one or two (`NoneMissed`); for ASI08, a call that starts after its end | the search passes over a short cycle and what it hides |
| `DisabledOnlyByJudge` | nothing, but it is about one night | `detector_lifecycle_policy.yaml` (lines 51-54 and 90) says three consecutive nights, `nightly.py` disables after one |
| `CallReturns` | says that a call ends, not when | the timeout of httpx is per operation, the Anthropic client retries |
| `FirstUseAudited` | a failure of Redis (`raised`) | `decide()` raises and has no decision, while part of the index is written |
| `VerdictShownWasStored` | Clean before the flag is stored | see `verdict_torn` |
| `LeaksSurface` | structural keys; what the scanner's engine knows in a marked event; events that came with a mark | the scanner takes the mark's word for it |
| `AnswersExact` | a condition that filters nothing | the tool filter on flags |
| `AdminBacked` | a demoted admin, as long as his token lives | roles live in tokens |
| `LegalUnlessStale` | a stale writer | nothing is locked between read and write; `RowsEarned` holds of his row too |
| `TrailAccounts` | a row whose caller was told of a failure | two transactions, although `lifecycle.py:7` has every change appended |
| `NothingWithheld` | an update dropped at a full queue; an event late, or with the ts of a page's end | nobody sends it again; the cursor is a bare ts |

### Bounds

* `AuditLog`: `MaxSeq = 3` sequence values, two of everything else. Three rows are needed for an interior
  row with both neighbours; rolled-back values use the same bound, so that there are gaps in `seq` as well.
  The proofs have no bound.
* `TelemetryGate`: two calls and a buffer of two frames for the passing run: one call can time out and
  leave its answer (or half of it) to the other, and a writer can find the buffer full. The shifted answers
  of `gate_denied` need a third call only to let the counterexample be a plain one; `gate_stalled` needs two.
* `GateDecision`: two connections, three decisions, one policy load, times 0 to 2. The caps are 2 calls, a
  streak of 1, a burst of 1, so that three decisions exceed each; the cache holds two of three inputs; the
  lives (2 for counters and cache, 1 for the burst) let everything expire within the clock's range, and
  a counter that was refreshed at 1 be alive at 2.
* `RunLifecycle`: two runs, of which one sends two events (it can be forgotten by the dispatcher and seen
  again), one crash, one failing transaction.
* `AuditPipeline`: all traces of up to two events of twelve kinds, one kind for each branch of the loop (the only
  relation between events is that of a secret and a later egress); three decisions, one change of the
  settings, two ticks; `every_n = 2` and intervals of 1 and 2, so that three decisions show a count that goes on
  after a reset and an interval that is restarted; two detectors, one of them the judge's and one critical by
  itself, in three combinations of lifecycle states; five outcomes each.
* `Incident`: one incident (incidents do not interact), two requests, seven transitions: the longest path
  has five, the others are those that overwrite. The proofs have no bound on incidents and requests and
  hold for every `MaxTransitions`.
* `HitlReview`: two flags of the same or of two runs, two decisions at a time and in all. Two flags are needed
  for decisions that contradict each other about one run.

* `DetectorAudit`: one alphabet of events per group of detectors, each with every kind that a rule of the group
  looks at, and traces long enough for the rule with the most events (nine for the error cascade, of which the
  first two name the tools and the last four are of two calls; four for a cycle of three spans plus one event
  that records one of them again or calls beside it, three times for the window); all answers of the judge at
  confidences 0, 80 and 90, on both sides of the floor; three runs and three entries with `MAX_HOPS = 2`, so that
  a chain can be one hop too long; `_MAX_SAME_TOOL = 2` for the code's 50.
* `AsyncServices`: two callers and two slices, three lookups (two that miss together and one that comes later);
  two samplers, one tool, one host, three decisions; one followed run with any number of audits, two polls at a time and one fault.
  The novelty index, the cache and a poll are about one key each; two actors are needed for what they do to
  each other.
* `Records`: two events and one scan, with at most one text on which Presidio raises in a call of either; two requests one after the other on the connection; two users, two
  handlers and two grants, a `TTL` of 2 in a clock to 2, so that a token outlives a role and expires; four
  lifecycle rows within 14 days, just enough to enforce by the policy, and two callers; two viewers with
  queues of one; four events at three times, pages of two.

`SYMMETRY` is used only where the run has no temporal property and nothing names an element of the set.
`CHECK_DEADLOCK FALSE` is set for `decision_and_review`, the runs of `Audits`, `DetectorAudit` and `AsyncServices`, and
`records`, which end when their bounds (decisions, events, requests, time) are used up. The others have no deadlock:
`TelemetryGate` and `RunLifecycle` stutter only when everything has ended.

### Fairness

* `AuditLog`: weak fairness of a writer's own statements, strong fairness of `AcquireLock`, because
  Postgres grants a lock to its waiters in turn. Calls and failures are not fair.
* `TelemetryGate`: asyncio runs a coroutine that is ready (weak), `asyncio.Lock` is FIFO (strong for
  `TakeLock`), `wait_for` ends a wait. Nothing is assumed of the auditor, which may stop reading or answering for
  good and stay connected.
* `RunLifecycle`: the event loop runs every coroutine and task that is ready, the reaper thread is
  scheduled, and a supervisor restarts the auditor. That harnesses exit is not assumed.
* `AsyncServices`: the request to a model ends, because httpx and the Anthropic client are given `timeout_s` for each
  operation and a finite number of repetitions (at no particular time, therefore), and the event loop runs the
  cache's `set`; no model need ever answer. In the browser the interval fires, a changed
  state is rendered, a login settles, and requests go on (one fairness for all of them: single polls may be
  starved). Neither the agent nor its audits need ever end, nobody need sign in.
* The other modules state safety only and need no fairness.

## 4. Proofs

Every safety property that a passing run checks is also proved.
A theorem holds for all values of the constants that satisfy the named assumptions (`ASSUME`) of the
modules: any number of writers, connections, calls, runs, callers, viewers, detectors, any limits, any
contents, and, since the bounds of the runs are constants like the others, any bounds. The assumptions say
that bounds and limits are numbers, that sets TLC enumerates are finite where the proof counts them, that
placeholders (`None`, `NoCall`, `Null`, `"closed"`) are not among the values they stand in for, and what the types of
requests, queries and findings are. Three say more: `SettingsAssumption` of `AuditPipeline`, that no interval is
longer than the clock's first value (in the code: fifty years), because "never audited" is the time 0; and
`SearchAssumption`, that a decision has the tenant of its flag; and `DetectorsAssumption`, that `_MAX_SAME_TOOL` (50 in the code)
is not 0. Nothing is assumed of the ids that telemetry names.

| Module | Theorem | States |
|---|---|---|
| `LogAndReviewProofs` | `TypeCorrect`, `ChainAlwaysIntact`, `RowsOnlyAppended` | `[]TypeOK`, `[]ChainIntact`, `AppendOnly` |
| | `ImplementsAppendOnlyLog` | `RefinesAppendOnlyLog` |
| | `TamperingIsCaught` | `[]TamperDetected` |
| | `DecisionsAreFollowed`, `PausesRemembered` | `[]DecisionsStand`, `[]NoForgottenPause` |
| | `CriticalFlagsStop`, `AbortsAreFinal` | `[]CriticalStops`, `[]AbortEnds` |
| `TelemetryGateProofs` | `PermissionsHold` | `[]RunsOnPermission` |
| `GateDecisionProofs` | `VotesAreFresh`, `NothingSkipped` | `[]StalenessBounded`, `[]ChecksHold` |
| `RunLifecycleProofs` | `AuditsAreExact`, `EndIsRecordedOnce` | `[]AuditIsExact`, `StatusIsFinal` |
| `AuditsProofs` | `SignalsAreRight`, `TriggersAreAudited` | `[]SignalsMatchTrace`, `HardTriggersAudited` |
| | `ModesAreExact`, `RunsAreAccounted` | `[]ModesExact`, `[]VerdictsAccounted` |
| | `MilestonesAlwaysRecorded`, `ResolutionsAlwaysAccounted` | `[]MilestonesRecorded`, `[]ResolutionsAccounted` |
| `DetectorAuditProofs` | `AlgorithmsAreExact`, `ChainExact` | `[]AlgorithmsExact`; its part about the walk, for one store |
| | `JudgeCannotClear`, `OrderIrrelevant` | `[]MarkersSurviveJudge`, `[]ArrivalOrderIrrelevant` |
| | `AuthorityLostByJudge`, `ViolationsAreKept` | `[]DisabledOnlyByJudge`, `ViolationsStay` |
| `AsyncServicesProofs` | `ResultsGrounded`, `NoFirstUseSlips` | `[]AnswersGrounded`, `[]FirstUseAudited` |
| | `ShownWasStored` | `[]VerdictShownWasStored` |
| `RecordsProofs` | `Earned`, `TrailTrue`, `LegalMoves` | `[]RowsEarned`, `[]TrailAccounts`, `LegalUnlessStale` |
| | `AdminsBacked`, `NothingIsWithheld` | `[]AdminBacked`, `[]NothingWithheld` |
| | `LeaksAlwaysSurface`, `AnswersAreExact` | `[]LeaksSurface`, `[]AnswersExact` |

All follow the same plan: an inductive invariant that holds at the start and that every action keeps (one
lemma per action, one step per conjunct it can disturb), and the property as a consequence of it. What the
invariants add to the properties is the argument of why the code is right:

* **Audit log.** `ChainIntact` says nothing of writers in the middle of a transaction. The invariant adds that a
  writer past `AcquireLock` holds its tenant's lock; that the hash it read is still its tenant's last; that the
  `seq` it took is above every `seq` of its tenant and below `nextSeq`; and that a non-empty set of a tenant's
  rows has a last one. Holding the lock excludes the tenant's other writers, so the new row goes behind all of its tenant's and
  links to the last of them. Refinement: a commit appends one payload to the tenant's last chain hash, every
  other step leaves all of them alone. `TamperDetected` is about every tampered variant of an
  intact chain, and needs besides that no two rows of a tenant have the same `seq` (`DistinctInv`).
* **Gate connection.** A request is in exactly one place: not written, on its way, being served, on its way back,
  taken, or lost (`OnePlace`, `Once`). A response carries the decision that was taken for its request (`Telling`).
  The lock admits one call between writing and reading, so that as long as nobody timed out what is on its
  way is that call's own (`OnTime`).
* **Gate decision.** A cached answer was given by a policy that was in force when its evaluation began, and its
  life is counted from then (`CacheRight`, `CallsRight`); the counters in Redis grow at least as fast as what the
  budget lets through (`BudgetRight`).
* **Run lifecycle.** An event is sent, pending, in the handler's hands or stored, never twice (`Flow`); with an
  identity the one audit task is created when the handler closes (`OneAudit`), after which nothing is stored.
* **Audits.** *Signals*: after `i` events the pass has seen exactly what is among the first `i` (`SeenOf`). The hard
  triggers then are the facts of the trace, but for egress that is hidden in `sendto` and DNS events, compared with
  the settings of the moment. *Modes*: the counter is
  the number of decisions that were the mode's to make (`NthInv`; the step is a lemma about `(c + 1) \div n`); the
  time of the last audit is the latest one of the mode's own, and 0 only if there is none (`LastInv`).
  *Verdicts*: from the end of `analyze_trace` on, the task is what one choice of routing, canaries and outcomes
  gives (`TaskRight`), and the rows are the task's once they are stored, empty before (`StoredRight`); the rest is
  `FlagRight`, about `aggregate`. *Incidents*: requests act on a copy that may be stale, but columns are only
  ever added and the severity never changes, so what a reader saw filled is still filled (`ReadersRight`), and a
  request about to log a resolution has committed it (`LoggersRight`).
* **Human review.** Decisions are only ever added, so what a request committed is still recorded when it is
  enforced (`RequestsRight`); a killed or ended process stays so; where suspends nest, a living process is suspended
  at most as often as there are flags, open or being enforced, to take a suspend back (`SuspendsCounted`); the
  exceptions the code makes are remembered by the observing variables. The four properties are conjuncts of one invariant.
* **Detectors.** *Cycle search* (`SearchInv`): gray spans are those on the stack, which is a path without repetition;
  what a span on the stack has looked at is black or beside it on the stack; no black span is on a cycle of
  three or more, as far as none can be missed (`NoBlackOnCycle`); a start that was tried is not white. A gray child
  that closes a cycle too short to report is passed over, and a longer cycle through it can be lost: in a graph of
  four events with a span recorded under two parents, for one. Where every span has one parent, or there is no
  short cycle (`NoneMissed`), the search cannot lose one, and that is where the invariant needs it. The search
  is over within the steps the model gives it since each does one move more (`StepAdvances`). *Walk* (`WalkInv`): the
  entries linked are exactly the tagged ones that visited runs read; runs wait in the order of their distance
  (`Level`), so the first visit of a run is by a shortest path, and skipping it later loses nothing within
  `MAX_HOPS`; passes made plus runs waiting are one more than the links, so one pass per entry and one for the
  trigger empty the frontier. *Judge*: by cases over what the patterns found. *Arrival order*: signature, baseline and
  run start are sets and minima over the events, and a bijection of positions maps them to themselves.
  *Later events* (`TraceOK`): the evidence of ASI02 to ASI05 and ASI07 grows with the trace (a cycle survives what is added to
  the graph, as long as none can be missed in it); that of ASI08 does in a run in which no call starts after its end,
  because a call's tool, once its end was seen, is then not renamed (`KeysStay`). *Baseline* (`BaseOK`): `mean` and `m2` are fractions with positive denominators that stand for the two
  sums; the bound on the deviation of one of at most ten observations is Cauchy's inequality (`CauchyStep`). *Calibration* (`CalOK`):
  the matrix of a category counts its two corpus entries once each, in the order of the corpus; the ten lemmas
  `Separates01` to `Separates10` run every detector on its two traces.
* **Judge, Sampler, console.** Every cached or carried result is one a model gave about that slice (`JudgeInv`).
  What the index knows was audited, lost with
  Redis, or is held as new by a decision under way (`SamplerInv`). Sampler rows and results are only ever added
  (`Kept`), so that what an answer read was stored stays stored, however late it is applied (`ConsoleInv`); what it
  did not find may be added at any moment, which is why nothing stronger holds.
* **Records.** *Lifecycle*: rows are only added and days only pass, so that the row a caller rested its checks on is
  still there and has been longer (`CallsRest`, `RowsRest`). *Roles*: the owner of an admin token held the role when it was issued, or
  later (`TokensHeld`, `GrantsRight`). *Feed*: a viewer is subscribed before it lists, and a flag is stored before it is
  published (`FeedInv`); the queue keeps an identifier until its hash is gone (`QueueInv`); the cursor is where the
  last page was cut (`PageInv`). *Redaction*: an engine leaves nothing it knows in the texts it redacts
  (`Redacted`); what a scan saw and counted is accounted for until it is in a flag or its run among the failures
  (`Accounted`). *Searches*: the connection has the tenant of the request while
  it selects (`SearchInv`), and the WHERE clause that is put together filter by filter is the conjunction of
  the conditions, the last spelling of a field winning (`LastOf`).

Induction over data (the loops of `compute_run_signals`, `_normalise_filter_keys`, `_find_cycle`, `walk_influence_chain`, the
sums of `BaselineExact` and `overall_metrics`) is done by a least
counterexample (`EveryNumber`, from `WFMin`): the loop is a recursive function over `0..n`, which is shown to exist
and to satisfy its equation for every `n`, and then to have what is claimed of it.

What the proofs found in the models: conditions of a `CASE` that overlapped in `GateDecision` and `Search`, where the
code has an order (now `IF ... ELSE`); assumptions that were used and not stated (`"closed"` is no topic,
finitely many flags and metadata, a decision of its flag's tenant, intervals within the clock). In
`DetectorAudit`: no observation that was folded into the baseline is drift itself, as `BaselineExact` had it, only up to ten
observations, the case now claimed (of more, the one outlier among equal values is beyond three deviations);
violations of ASI08 stay only where no call starts after its end; with a `_MAX_SAME_TOOL` of 0 the harmless trace of
ASI02's corpus would be a burst.

Only model-checked:

* All liveness properties (`AppendEnds`, `CallEnds`, `RunSettles`, `DisconnectedRunAudited`, `CallReturns`, `TurnSettles`):
  fairness and `ENABLED` are out of the prover's reach.
* The five violations, which are counterexamples and nothing to prove.

## 5. Findings

1. *Late gate answers are taken by the next request* (`gate_denied`; `harness/telemetry/sdk.py:134`): nothing
   ties an answer to its request. `RunsOnPermission` shows that a timeout is the only way to get there.
2. *A stalled auditor blocks the harness* (`gate_stalled`; `harness/telemetry/sdk.py:125`): `write_frame` ends in
   `drain()` under the SDK's lock and under no timeout, against "**Fail-closed**: timeout / unreachable auditor → DENY".
   `CallEnds` shows that this is the only way to hang.
3. *Divergence never triggers an audit* (`divergence_skipped`; `async_pipeline/signals.py:109`): of the four hard
   triggers `runtime_policy.py` documents, divergence and recent incidents are constants of the signals.
4. *The Anthropic judge always abstains* (`judge_anthropic`; `judge/client.py:312`): `_parse` is a static method where
   it is taken from and a plain function where it is used; the resulting `TypeError` is caught and becomes an
   abstention, which is cached.
5. *The console settles on Clean for a flagged run* (`verdict_torn`; `api/agent_routes.py:106`): the flag is looked for
   before the verdicts, and the audit may commit in between; or the run is audited again after the console
   has asked for the last time.

Noticed while modelling, and not the subject of a run:

* The reaper may mark a run before its row exists; the mark has no effect, and the disconnect makes up for it.
* Without mTLS a run may be completed while its harness is connected, and audited several times, which is
  why `AuditIsExact` and `DisconnectedRunAudited` of `RunLifecycle` speak of mTLS only.
* An answer of OPA without a result counts as ALLOW (`policy_engine.py`), while an error of OPA is a DENY:
  before a policy is loaded only the budget and the scan decide. The compose file gives OPA a policy at its
  start.
* The counters of a run expire an hour after its last call, so that the cap of 200 calls per run is one per
  active stretch (`budget.py`); `ChecksHold` is about such a stretch.
* `compute_run_signals` looks for the destination of a `sendto` in `addr` (the field is `dest_addr`) and for the
  name of a DNS query in `domain` or `query` (it is `query_name`; `signals.py:88-95`, `schemas.py:125` and `:131`):
  neither counts as egress, although the code means both to. `SignalsMatchTrace` counts both on the side of the trace
  and names the case in which the score falls short (`HiddenEgress`).
* `v.confidence or 1.0` in `aggregate` reads the confidence 0.0 of a crashed detector's verdict as 1.0, which the
  review queue then shows.
* The crash verdict of a shadow detector counts for the flag (`VerdictsAccounted` says so); the running auditor
  passes no `state_for`, so that every detector is enforcing there.
* `POST /admin/reset` truncates runs, events and the audit log with runs alive: the dispatcher still knows
  them, and their later events fail the foreign key. `AppendOnly` holds between two resets.
* The burst counter is a fixed window, so that twice the limit can pass around its boundary.
* A decision does not remove its flag from the review queue; the record ends by its TTL.
* A decision whose resolution equals the one in its stale copy does not write it: with two concurrent
  decisions the resolution may be that of the first to commit.
* `continue` on one flag resumes a run that another open critical flag has paused (`CriticalStops` says
  *some flag* for that reason).
* `verify_chain` accepts a truncated chain: every prefix of a chain is one (`chain.py` says any deletion breaks
  it). `TamperDetected` is about interior rows for that reason.
* Without mTLS an event that is being stored while another harness disconnects may come after the last audit
  of its run (`dispatch.py`).
* A transition that was checked on a stale row moves an incident out of a terminal state (`lifecycle.py`). The
  proofs say what survives all the same: milestones, the roles and the truth of the audit trail.
* A decision made while the checkpoint is captured resumes the run before it is paused, and it stays paused
  with no open flag (`router.py`).

Detectors, judge, sampler, calibration:

* `_find_cycle` of ASI02 can miss a cycle of three spans when the telemetry records a span twice, under two parents:
  `asi02_tool_misuse.py:79-82` adds an edge for every event, and the search colours what a short cycle passes
  over black. Events (span, parent) `(a,b)`, `(b,a)`, `(c,a)`, `(b,c)` are an example.
* ASI01, ASI06, ASI09, ASI10 and instruction following return OK when the judge abstains and no pattern matched,
  against "never silent-OK" of their comments.
* Concurrent misses of the judge's cache each ask the model, against "identical (category, prompt_version, slice) →
  one judge call" (`judge/client.py:210`), and the Anthropic client repeats failed requests by itself: no property
  bounds the requests. Abstentions and failures are cached too, in memory for ever. `record_cost` is never called.
* `Sampler`, `BaselineStore`, the divergence detector, the catalog check, `audit_of_audit`, `DetectorLifecycle.transition`,
  `list_pending` and `ack` have no caller in the running auditor.
* The result of the nightly calibration is thrown away (`run_calibration` keeps no blocking authority), and its policy
  of three nights is not what `nightly.py` does, which disables after one.
* A stale lifecycle write can put a disabled detector back to enforcing, or revive a removed one; a row whose
  append failed never gets its entry, since the retry is illegal. The orchestrator asks `state_for` twice per detector.

Records and reviewers:

* A grant that changes nothing in the row it read is answered 200 though a concurrent grant overrides it; a
  demoted admin can grant himself the role back as long as his token lives; grants and the reset are not
  scoped to a tenant. `load_tenant_sample_rates` speaks of active rows and reads all.
* The scanner takes every event with the key `_pii_redacted` for redacted ("the actual values are now placeholder
  tokens", `memory_log_scan.py:97`). Three sorts are not: those with personal data under a structural key or one
  beginning with `_`, when another field was redacted; those a redactor with Presidio marked, which validates what
  the regexes merely match (a US_SSN it rejects stays, and a scanner with the regexes would find it), or the other
  way round, since the regexes know fewer types; and those whose payload came with the key from the
  harness (`events/store.py` keeps it).
* A comparison of a search with `None` under `gte` or `lte` passes validation and raises `ArgumentError` in SQLAlchemy.
* In searches two spellings of a field collapse to the last; the tool filter on flags filters nothing and
  ordering by it raises; the members of an `in` list are not read as times; parameters may name parameters.
* `get_run_replay` calls `build_export_bundle` with arguments it does not take. Messages of the WebSocket lack the
  field `type` the UI looks for, and the UI subscribes to the tenant `default` when none is chosen.
* `get_flag_detail` shows the 500 oldest events, where its comment says "up to 500 most recent" (`hitl_routes.py:264`):
  `_get_run_events` orders by ascending `ts`. The cursor of event pages skips
  events with the ts of a page's end, and late ones. `find_similar` never matches ORM rows.

Console:

* The events are the first thing `get_agent_run` reads, so that the last answer may lack the agent's reply just as it
  may lack the flag (finding 5).
* The sampler row `get_agent_run` picks is the first in no particular order: of a run with several audits, any.
* A run without verdict rows, or whose sampler row could not be written, is polled for ever; so is one that left the
  registry, after an hour, without ever getting a row.
* The page looks for `tool.call.start` and the auditor emits `tool_call.start`: tool calls are not shown.
* A late 401 within a second of a failed re-login drops a token that the user has just got by signing in. A
  submit whose answer is lost leaves a run without a turn.

## 6. Plan

What the models are ready for, in this order.

Proofs: the safety properties are done. What is left to prove is what the prover cannot state, liveness; should it
become able to, `AppendEnds` is the one to start with, since `LockInv` already says who holds the lock.

Models: `AuditPipeline`'s `Answers` replaced by the operators of `Detectors`; the reset in `AuditLog` and `RunLifecycle`;
comments and action items of incidents; the registry's terminate, kill and sweep, for which `RunLifecycle` has `Exit`.

## 7. Not modelled

* `events/receiver.py`, `proto_bridge.py`: conversion field by field, without state.
* Shadow verdicts, replay and health endpoints: reads, one transaction each.
* Certificates, OIDC, secrets, transport, seccomp, eBPF and Sysmon observers, embeddings: calls of libraries and
  kernels, whose outcomes appear as values or choices.
* Metrics, dashboards, migrations, declarations of tables, configuration: nothing of the running auditor's
  control is in them; keys and policies are part of the modules that write the tables.
* The harness's agents and tools: the observed program, which may do anything in `TelemetryGate` and `RunLifecycle`.
* The Rego policy: the constant `Rego` of `GateDecision`.
* The review pages of the UI: presentation of what the API answers; the console's page is in `Console`.
* The adversarial corpus, scripts and generated code.

In the modelled parts: payload contents, wording, logs; comments, action items and embeddings of incidents;
the Slack notifier and the contents of a checkpoint; the signature of a token; the shadow store.
