------------------------------ MODULE RunLifecycle ------------------------------
(***************************************************************************)
(* A run from launch to audit: HarnessRun (the child process and its       *)
(* reaper thread), IpcServer._handle with GateDispatcher (one coroutine    *)
(* per connection), the runs and events tables, and the audit tasks that   *)
(* on_disconnect leaves behind.                                            *)
(*                                                                         *)
(* With mTLS the certificate names the run of a connection; without it     *)
(* the dispatcher only knows the set of runs it has seen events of.  Every *)
(* database transaction is one step, between two of which the other        *)
(* coroutines may run; a transaction may fail.  The auditor may crash      *)
(* anywhere and is booted again; the kernel kills its children with it.    *)
(***************************************************************************)
EXTENDS Integers, Sequences, FiniteSets

CONSTANTS
    Runs,          \* the runs that may be started
    MaxEvents,     \* bound: run -> events its harness sends
    MaxCrashes,    \* bound: crashes of the auditor
    MaxDbFailures  \* bound: failing transactions

ASSUME BoundsAssumption == MaxEvents \in [Runs -> Nat] /\ {MaxCrashes, MaxDbFailures} \subseteq Nat

VARIABLES
    mtls,         \* settings.ipc_mtls_enabled, fixed at boot
    up,           \* the auditor process is running
    proc,         \* run -> its harness process
    reaper,       \* run -> its reaper thread
    handler,      \* run -> the _handle coroutine of its connection
    sent,         \* run -> events the harness has written
    pending,      \* run -> events written and not yet read
    knownRuns,    \* GateDispatcher._known_runs
    status,       \* run -> runs.status, or "absent"
    events,       \* run -> its rows in the events table
    audits,       \* run -> the audit tasks it got, in the order they were created
    crashes, dbFailures

volatile == <<proc, reaper, handler, sent, pending>>
tables == <<status, events>>
bounds == <<crashes, dbFailures>>
vars == <<mtls, up, volatile, knownRuns, tables, audits, bounds>>

\* An audit task: where it is in audit_run, the events it loaded, whether its sampler row was written.
AuditStages == {"mark", "load", "detect", "done", "skipped", "failed", "lost"}
Finished == {"done", "skipped", "failed", "lost"}
Audit == [stage : AuditStages, saw : Nat, row : BOOLEAN]
NewAudit(stage) == [stage |-> stage, saw |-> 0, row |-> FALSE]

Init ==
    /\ up = TRUE
    /\ mtls \in BOOLEAN
    /\ proc = [r \in Runs |-> "none"]
    /\ reaper = [r \in Runs |-> "none"]
    /\ handler = [r \in Runs |-> "none"]
    /\ sent = [r \in Runs |-> 0]
    /\ pending = [r \in Runs |-> 0]
    /\ knownRuns = {}
    /\ status = [r \in Runs |-> "absent"]
    /\ events = [r \in Runs |-> 0]
    /\ audits = [r \in Runs |-> << >>]
    /\ crashes = 0
    /\ dbFailures = 0

\* A transaction that fails leaves the tables alone and uses up one failure.
DbFails == dbFailures < MaxDbFailures /\ dbFailures' = dbFailures + 1 /\ UNCHANGED tables
DbWorks == UNCHANGED dbFailures

\* Mutated form: the row is written whether or not it exists.
upsert_run_overwriting(r) == status' = [status EXCEPT ![r] = "running"]

\* Insert the row if there is none.
upsert_run(r) == status' = [status EXCEPT ![r] = IF @ = "absent" THEN "running" ELSE @]

\* Only a running run is completed.
mark_run_completed(r) == status' = [status EXCEPT ![r] = IF @ = "running" THEN "completed" ELSE @]

\* Runs that were running when the auditor died are ended.
reap_orphaned_runs == status' = [r \in Runs |-> IF status[r] = "running" THEN "aborted" ELSE status[r]]

GotoH(r, stage) == handler' = [handler EXCEPT ![r] = stage]

------------------------------------------------------------------------------
\* The harness process.

\* start_agent_run, HarnessRun.start: spawn the child and its reaper.
Start(r) ==
    /\ up
    /\ proc[r] = "none"
    /\ proc' = [proc EXCEPT ![r] = "alive"]
    /\ reaper' = [reaper EXCEPT ![r] = "waiting"]
    /\ UNCHANGED <<mtls, up, handler, sent, pending, knownRuns, tables, audits, bounds>>

\* Telemetry.connect; the server starts _handle, which awaits on_connect if there is an identity.
Connect(r) ==
    /\ up
    /\ proc[r] = "alive"
    /\ handler[r] = "none"
    /\ GotoH(r, IF mtls THEN "connect" ELSE "read")
    /\ UNCHANGED <<mtls, up, proc, reaper, sent, pending, knownRuns, tables, audits, bounds>>

\* The harness writes an event or a gate request.
Send(r) ==
    /\ proc[r] = "alive"
    /\ handler[r] \notin {"none", "disconnect", "closed"}
    /\ sent[r] < MaxEvents[r]
    /\ sent' = [sent EXCEPT ![r] = @ + 1]
    /\ pending' = [pending EXCEPT ![r] = @ + 1]
    /\ UNCHANGED <<mtls, up, proc, reaper, handler, knownRuns, tables, audits, bounds>>

\* The child exits or is killed; what it has written can still be read.
Exit(r) ==
    /\ proc[r] = "alive"
    /\ proc' = [proc EXCEPT ![r] = "gone"]
    /\ UNCHANGED <<mtls, up, reaper, handler, sent, pending, knownRuns, tables, audits, bounds>>

\* HarnessRun._reap: the child is gone, mark its row; a failure is only logged.
Reap(r) ==
    /\ up
    /\ reaper[r] = "waiting"
    /\ proc[r] = "gone"
    /\ reaper' = [reaper EXCEPT ![r] = "done"]
    /\ \/ DbWorks /\ mark_run_completed(r) /\ UNCHANGED events
       \/ DbFails
    /\ UNCHANGED <<mtls, up, proc, handler, sent, pending, knownRuns, audits, crashes>>

------------------------------------------------------------------------------
\* The connection: IpcServer._handle and GateDispatcher.

\* on_connect with an identity; an error ends the connection.
OnConnect(r) ==
    /\ handler[r] = "connect"
    /\ \/ DbWorks /\ upsert_run(r) /\ UNCHANGED events /\ knownRuns' = knownRuns \cup {r} /\ GotoH(r, "read")
       \/ DbFails /\ UNCHANGED knownRuns /\ GotoH(r, "disconnect")
    /\ UNCHANGED <<mtls, up, proc, reaper, sent, pending, audits, crashes>>

\* read_frame, and on_frame up to the first await.
ReadFrame(r) ==
    /\ handler[r] = "read"
    /\ pending[r] > 0
    /\ pending' = [pending EXCEPT ![r] = @ - 1]
    /\ GotoH(r, IF r \in knownRuns THEN "store" ELSE "ensure")
    /\ UNCHANGED <<mtls, up, proc, reaper, sent, knownRuns, tables, audits, bounds>>

\* Mutated form: see upsert_run_overwriting.
EnsureRunRowOverwriting(r) ==
    /\ handler[r] = "ensure"
    /\ upsert_run_overwriting(r)
    /\ knownRuns' = knownRuns \cup {r}
    /\ GotoH(r, "store")
    /\ UNCHANGED <<mtls, up, proc, reaper, sent, pending, audits, events, bounds>>

\* _ensure_run_row for a run not in the cache; a failure is only logged.
EnsureRunRow(r) ==
    /\ handler[r] = "ensure"
    /\ \/ DbWorks /\ upsert_run(r) /\ UNCHANGED events /\ knownRuns' = knownRuns \cup {r}
       \/ DbFails /\ UNCHANGED knownRuns
    /\ GotoH(r, "store")
    /\ UNCHANGED <<mtls, up, proc, reaper, sent, pending, audits, crashes>>

\* store_event: without a row of the run the foreign key fails; a failure is only logged. Then the
\* next frame, or the end of the connection if the gate raised.
StoreEvent(r) ==
    /\ handler[r] = "store"
    /\ \/ DbWorks /\ status[r] # "absent" /\ events' = [events EXCEPT ![r] = @ + 1] /\ UNCHANGED status
       \/ DbWorks /\ status[r] = "absent" /\ UNCHANGED tables
       \/ DbFails
    /\ \/ GotoH(r, "read") /\ UNCHANGED pending
       \/ GotoH(r, "disconnect") /\ pending' = [pending EXCEPT ![r] = 0]
    /\ UNCHANGED <<mtls, up, proc, reaper, sent, knownRuns, audits, crashes>>

\* End of stream, behind everything the harness wrote; or a reset, which loses what was not read.
PeerClosed(r) ==
    /\ handler[r] = "read"
    /\ proc[r] = "gone"
    /\ GotoH(r, "disconnect")
    /\ pending' = [pending EXCEPT ![r] = 0]
    /\ UNCHANGED <<mtls, up, proc, reaper, sent, knownRuns, tables, audits, bounds>>

\* Mutated form: an audit task for every known run, as without an identity.
OnDisconnectMtlsAllKnown(r) ==
    /\ mtls
    /\ handler[r] = "disconnect"
    /\ mark_run_completed(r)
    /\ audits' = [k \in Runs |-> IF k \in knownRuns THEN Append(audits[k], NewAudit("load")) ELSE audits[k]]
    /\ GotoH(r, "closed")
    /\ UNCHANGED <<mtls, up, proc, reaper, sent, pending, knownRuns, events, bounds>>

\* Mutated form: no audit task when the run could not be completed.
OnDisconnectMtlsNoTask(r) ==
    /\ mtls
    /\ handler[r] = "disconnect"
    /\ mark_run_completed(r)
    /\ audits' = [audits EXCEPT ![r] = IF status[r] = "running" THEN Append(@, NewAudit("load")) ELSE @]
    /\ GotoH(r, "closed")
    /\ UNCHANGED <<mtls, up, proc, reaper, sent, pending, knownRuns, events, bounds>>

\* on_disconnect with an identity: complete the run (a failure is only logged), create its audit task.
OnDisconnectMtls(r) ==
    /\ mtls
    /\ handler[r] = "disconnect"
    /\ \/ DbWorks /\ mark_run_completed(r) /\ UNCHANGED events
       \/ DbFails
    /\ audits' = [audits EXCEPT ![r] = Append(@, NewAudit("load"))]
    /\ GotoH(r, "closed")
    /\ UNCHANGED <<mtls, up, proc, reaper, sent, pending, knownRuns, crashes>>

\* on_disconnect without an identity: an audit task for every known run, and forget them all.
OnDisconnectPlain(r) ==
    /\ ~mtls
    /\ handler[r] = "disconnect"
    /\ audits' = [k \in Runs |-> IF k \in knownRuns THEN Append(audits[k], NewAudit("mark")) ELSE audits[k]]
    /\ knownRuns' = {}
    /\ GotoH(r, "closed")
    /\ UNCHANGED <<mtls, up, proc, reaper, sent, pending, tables, bounds>>

------------------------------------------------------------------------------
\* The audit tasks. Step i of run r's tasks sets the fields of its record.

SetAudit(r, i, a) == audits' = [audits EXCEPT ![r][i] = a]
At(r, i, stage) == audits[r][i].stage = stage

\* _runner: no row, no audit; else complete the run, a failure of which is only logged.
MarkByTask(r, i) ==
    /\ At(r, i, "mark")
    /\ \/ /\ status[r] # "absent"
          /\ (DbWorks /\ mark_run_completed(r) /\ UNCHANGED events) \/ DbFails
          /\ SetAudit(r, i, [audits[r][i] EXCEPT !.stage = "load"])
       \/ /\ (DbWorks /\ status[r] = "absent" /\ UNCHANGED tables) \/ DbFails
          /\ SetAudit(r, i, [audits[r][i] EXCEPT !.stage = "failed"])
    /\ UNCHANGED <<mtls, up, volatile, knownRuns, crashes>>

\* audit_run up to the detectors: load_trace, an error of which ends the task; the sampler decides;
\* _persist_sampler_decision, whose failure (also of its foreign key) is ignored.
LoadAndSample(r, i) ==
    /\ At(r, i, "load")
    /\ \/ \E audit, ok \in BOOLEAN :
            /\ IF ok THEN DbWorks /\ UNCHANGED tables ELSE DbFails
            /\ SetAudit(r, i, [stage |-> IF audit THEN "detect" ELSE "skipped", saw |-> events[r],
                               row |-> ok /\ status[r] # "absent"])
       \/ DbFails /\ SetAudit(r, i, [audits[r][i] EXCEPT !.stage = "failed"])
    /\ UNCHANGED <<mtls, up, volatile, knownRuns, crashes>>

\* Orchestrator.analyze_trace ending in store_run_result (one transaction); an error ends the task.
Detect(r, i) ==
    /\ At(r, i, "detect")
    /\ \/ DbWorks /\ UNCHANGED tables
          /\ SetAudit(r, i, [audits[r][i] EXCEPT !.stage = IF status[r] = "absent" THEN "failed" ELSE "done"])
       \/ DbFails /\ SetAudit(r, i, [audits[r][i] EXCEPT !.stage = "failed"])
    /\ UNCHANGED <<mtls, up, volatile, knownRuns, crashes>>

------------------------------------------------------------------------------
\* Crash and restart of the auditor.

\* Everything in memory is lost, the children are killed.
Crash ==
    /\ up
    /\ crashes < MaxCrashes
    /\ crashes' = crashes + 1
    /\ up' = FALSE
    /\ proc' = [r \in Runs |-> IF proc[r] = "alive" THEN "gone" ELSE proc[r]]
    /\ reaper' = [r \in Runs |-> IF reaper[r] = "waiting" THEN "done" ELSE reaper[r]]
    /\ handler' = [r \in Runs |-> IF handler[r] = "none" THEN "none" ELSE "closed"]
    /\ pending' = [r \in Runs |-> 0]
    /\ knownRuns' = {}
    /\ audits' = [r \in Runs |-> [i \in DOMAIN audits[r] |->
                    IF audits[r][i].stage \in Finished THEN audits[r][i]
                    ELSE [audits[r][i] EXCEPT !.stage = "lost"]]]
    /\ UNCHANGED <<mtls, sent, tables, dbFailures>>

\* Mutated form: boot without the sweep.
BootWithoutSweep ==
    /\ ~up
    /\ up' = TRUE
    /\ UNCHANGED <<mtls, volatile, knownRuns, tables, audits, bounds>>

\* lifespan: reap_orphaned_runs before the server listens; a failure is only logged.
Boot ==
    /\ ~up
    /\ up' = TRUE
    /\ \/ DbWorks /\ reap_orphaned_runs /\ UNCHANGED events
       \/ DbFails
    /\ UNCHANGED <<mtls, volatile, knownRuns, audits, crashes>>

------------------------------------------------------------------------------

HandlerStep(r) ==
    \/ OnConnect(r)
    \/ ReadFrame(r)
    \/ EnsureRunRow(r)
    \/ StoreEvent(r)
    \/ PeerClosed(r)
    \/ OnDisconnectMtls(r)
    \/ OnDisconnectPlain(r)

AuditStep(r, i) == MarkByTask(r, i) \/ LoadAndSample(r, i) \/ Detect(r, i)

RunStep(r) ==
    \/ Start(r)
    \/ Connect(r)
    \/ Send(r)
    \/ Exit(r)
    \/ Reap(r)
    \/ HandlerStep(r)
    \/ \E i \in DOMAIN audits[r] : AuditStep(r, i)

\* Every run has ended, been reaped, disconnected and audited.
Quiescent ==
    /\ up
    /\ \A r \in Runs :
         /\ proc[r] = "gone"
         /\ reaper[r] = "done"
         /\ handler[r] \in {"none", "closed"}
         /\ \A i \in DOMAIN audits[r] : audits[r][i].stage \in Finished

Next == (\E r \in Runs : RunStep(r)) \/ Crash \/ Boot \/ (Quiescent /\ UNCHANGED vars)

Spec == Init /\ [][Next]_vars

\* The event loop runs every coroutine and task that is ready, the reaper thread is scheduled, the
\* supervisor restarts the auditor. Starting, sending and exiting is up to users and agents.
Fairness ==
    /\ \A r \in Runs :
         /\ WF_vars(HandlerStep(r))
         /\ WF_vars(Reap(r))
         /\ WF_vars(\E i \in DOMAIN audits[r] : AuditStep(r, i))
    /\ WF_vars(Boot)

FairSpec == Spec /\ Fairness

------------------------------------------------------------------------------

TypeOK ==
    /\ up \in BOOLEAN
    /\ mtls \in BOOLEAN
    /\ proc \in [Runs -> {"none", "alive", "gone"}]
    /\ reaper \in [Runs -> {"none", "waiting", "done"}]
    /\ handler \in [Runs -> {"none", "connect", "read", "ensure", "store", "disconnect", "closed"}]
    /\ sent \in [Runs -> Nat]
    /\ pending \in [Runs -> Nat]
    /\ knownRuns \subseteq Runs
    /\ status \in [Runs -> {"absent", "running", "completed", "aborted"}]
    /\ events \in [Runs -> Nat]
    /\ \A r \in Runs : sent[r] <= MaxEvents[r] /\ pending[r] + events[r] <= sent[r]
    /\ audits \in [Runs -> Seq(Audit)]
    /\ crashes \in 0 .. MaxCrashes
    /\ dbFailures \in 0 .. MaxDbFailures

\* With mTLS a run is completed only once its harness is gone or its connection has ended: "when the
\* harness disconnects" (mark_run_completed).
CompletedOnlyAfterEnd ==
    mtls => \A r \in Runs :
        status[r] = "completed" => proc[r] = "gone" \/ handler[r] \in {"disconnect", "closed"}

\* With mTLS there is one sampler row per run that entered the pipeline (_persist_sampler_decision).
OneSamplerRow ==
    mtls => \A r \in Runs : Cardinality({i \in DOMAIN audits[r] : audits[r][i].row}) <= 1

\* With mTLS an audit that has loaded its trace has seen every event the run will ever have.
AuditSawWholeTrace ==
    mtls => \A r \in Runs : \A i \in DOMAIN audits[r] :
        audits[r][i].stage \in {"detect", "done", "skipped"} => audits[r][i].saw = events[r]

\* The end of a run is recorded once: completed and aborted runs stay so, whichever of the disconnect
\* handler, the reaper, a late event and the boot sweep comes last.
StatusIsFinal ==
    [][\A r \in Runs : status[r] \in {"completed", "aborted"} => status'[r] = status[r]]_vars

\* A run whose harness is gone does not stay 'running', also across a crash and restart, as long as
\* the database works.
RunSettles ==
    \A r \in Runs : (status[r] = "running" /\ proc[r] = "gone") ~> (status[r] # "running" \/ dbFailures > 0)

\* Run r was audited with all its events, or there is an excuse.
AuditedOrExcused(r) ==
    \/ \E i \in DOMAIN audits[r] : audits[r][i].stage \in {"done", "skipped"} /\ audits[r][i].saw = events[r]
    \/ crashes > 0
    \/ dbFailures > 0

\* With mTLS a run with events is audited, with all of them, once its connection has ended, unless the
\* auditor crashed or the database failed.
DisconnectedRunAudited ==
    \A r \in Runs : (mtls /\ handler[r] = "closed" /\ events[r] > 0) ~> AuditedOrExcused(r)

\* With mTLS what is recorded of a run is exact: it is completed after its end, sampled once, and
\* audited on its whole trace.
AuditIsExact == TypeOK /\ CompletedOnlyAfterEnd /\ OneSamplerRow /\ AuditSawWholeTrace
==============================================================================
