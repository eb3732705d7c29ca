------------------------------- MODULE HitlReview -------------------------------
(***************************************************************************)
(* Human review of flags: the audit pipeline stores a flag and routes it   *)
(* by severity (checkpoint, pause, queue, digest); reviewers send          *)
(* decisions, which close the flag and resume or abort the run's process.  *)
(*                                                                         *)
(* A flag is visible to reviewers from the commit that stores it, while    *)
(* its routing is still under way: routing and decisions interleave at     *)
(* every await.  A run has several flags when it is audited several times. *)
(* Slack and the checkpoint archive in MinIO are outside: the capture is a *)
(* step of the routing that keeps no state here.  So are the queue, which  *)
(* ReviewFeed is about, and the digest lists: no step here reads them.     *)
(***************************************************************************)
EXTENDS Naturals, FiniteSets

CONSTANTS
    Flags,         \* the flags that may be raised
    FlaggedRuns,   \* the runs they are raised about
    Requests,      \* the decisions that may be in progress at the same time
    MaxDecisions   \* bound: decisions begun

ASSUME HitlAssumption == MaxDecisions \in Nat /\ IsFiniteSet(Flags)

Severities == {"low", "medium", "high", "critical"}
HitlDecisions == {"continue", "abort", "quarantine"}

\* submit_decision: how a decision reads as the resolution of the flag.
RESOLUTION_FOR == [d \in HitlDecisions |->
    CASE d = "continue" -> "allowed" [] d = "abort" -> "aborted" [] d = "quarantine" -> "quarantined"]

VARIABLES
    flag,        \* flag -> its row
    decisions,   \* flag -> decisions of its hitl_decisions rows
    trail,       \* (flag, decision) pairs the audit log has an entry of
    router,      \* flag -> next step of its routing
    enforcer,    \* the process-wide enforcer, which get_enforcer chooses by platform
    process,     \* run -> its operating-system process, and how often it is suspended
    request,     \* request -> what it is doing
    started,     \* decisions begun
    late,        \* runs a flag suspended when its decision was already enforced
    notPaused,   \* runs a pause of which had no effect
    notReleased  \* runs a resume or an abort of which had no effect

reviewVars == <<request, started, decisions, trail>>
hitlVars == <<flag, decisions, trail, router, enforcer, process, request, started,
              late, notPaused, notReleased>>

NoFlag == [status |-> "none"]
NoRequest == [stage |-> "idle"]
Raised == {f \in Flags : flag[f] # NoFlag}
Alive == [state |-> "alive", suspends |-> 0]

HitlInit ==
    /\ flag = [f \in Flags |-> NoFlag]
    /\ decisions = [f \in Flags |-> {}]
    /\ trail = {}
    /\ router = [f \in Flags |-> "none"]
    /\ enforcer \in {"cgroup", "job_object"}
    /\ process = [r \in FlaggedRuns |-> Alive]
    /\ request = [q \in Requests |-> NoRequest]
    /\ started = 0
    /\ late = {} /\ notPaused = {} /\ notReleased = {}

------------------------------------------------------------------------------
\* Routing.

\* Mutated form: a critical flag is routed like a high one.
FirstStepNoPause(severity) ==
    CASE severity \in {"high", "critical"} -> "enqueue" [] severity = "medium" -> "digest" [] OTHER -> "done"

\* HitlRouter.route: the first step of each tier.
FirstStep(severity) ==
    CASE severity = "critical" -> "checkpoint"
      [] severity = "high" -> "enqueue"
      [] severity = "medium" -> "digest"
      [] OTHER -> "done"

\* The audit pipeline commits a flag about r and begins to route it.
RaiseFlag(f, r, severity) ==
    /\ flag[f] = NoFlag
    /\ flag' = [flag EXCEPT ![f] = [status |-> "open", run |-> r, severity |-> severity, resolution |-> "none"]]
    /\ router' = [router EXCEPT ![f] = FirstStep(severity)]
    /\ UNCHANGED <<reviewVars, enforcer, process, late, notPaused, notReleased>>

\* CheckpointCapture.capture, which may fail: the routing goes on either way.
CaptureCheckpoint(f) ==
    /\ router[f] = "checkpoint"
    /\ router' = [router EXCEPT ![f] = "pause"]
    /\ UNCHANGED <<flag, reviewVars, enforcer, process, late, notPaused, notReleased>>

\* The decisions of f whose enforcement is still to come.
Enforcing(f) == {q \in Requests : request[q].stage \in {"log", "enforce"} /\ request[q].flag = f}

Running(p) == p.state = "alive" /\ p.suspends = 0
Paused(p) == p.state = "alive" /\ p.suspends > 0

\* Enforcer.pause: the freezer of a cgroup is on or off, the suspends of a process on Windows nest.
Suspended(p) ==
    IF p.state # "alive" THEN p
    ELSE [p EXCEPT !.suspends = IF enforcer = "job_object" THEN @ + 1 ELSE 1]

\* Enforcer.pause, which has no effect on a run that is not registered or has no cgroup.
Pause(f) ==
    LET r == flag[f].run IN
    /\ router[f] = "pause"
    /\ router' = [router EXCEPT ![f] = "enqueue"]
    /\ \/ /\ process' = [process EXCEPT ![r] = Suspended(@)]
          /\ late' = IF process'[r] # process[r] /\ flag[f].status = "resolved" /\ Enforcing(f) = {}
                     THEN late \cup {r} ELSE late
          /\ UNCHANGED notPaused
       \/ notPaused' = notPaused \cup {r} /\ UNCHANGED <<process, late>>
    /\ UNCHANGED <<flag, reviewVars, enforcer, notReleased>>

\* HitlQueue.enqueue; a failure is logged and the routing is done.
Enqueue(f) ==
    /\ router[f] = "enqueue"
    /\ router' = [router EXCEPT ![f] = "done"]
    /\ UNCHANGED <<flag, reviewVars, enforcer, process, late, notPaused, notReleased>>

\* HitlQueue.append_digest.
AppendDigest(f) ==
    /\ router[f] = "digest"
    /\ router' = [router EXCEPT ![f] = "done"]
    /\ UNCHANGED <<flag, reviewVars, enforcer, process, late, notPaused, notReleased>>

RouteStep(f) == CaptureCheckpoint(f) \/ Pause(f) \/ Enqueue(f) \/ AppendDigest(f)

------------------------------------------------------------------------------
\* Decisions.

\* submit_decision: _get_flag, in the transaction that will close the flag.
ReadFlag(q, f, d) ==
    /\ request[q] = NoRequest
    /\ f \in Raised
    /\ started < MaxDecisions
    /\ started' = started + 1
    /\ request' = [request EXCEPT ![q] = [stage |-> "read", flag |-> f, decision |-> d, seen |-> flag[f].resolution]]
    /\ UNCHANGED <<flag, decisions, trail, router, enforcer, process, late, notPaused, notReleased>>

\* Mutated form: a failing commit goes on to the enforcement.
CommitDecisionLost(q) ==
    LET r == request[q] IN
    /\ r.stage = "read"
    /\ request' = [request EXCEPT ![q] = [stage |-> "log", flag |-> r.flag, decision |-> r.decision]]
    /\ UNCHANGED <<flag, decisions, started, trail, router, enforcer, process, late, notPaused, notReleased>>

\* The decision row and the closed flag are committed together.  The UPDATE names the columns whose
\* value differs from the one read: a resolution equal to the one read is not written.
CommitDecision(q) ==
    LET r == request[q] IN
    /\ r.stage = "read"
    /\ decisions' = [decisions EXCEPT ![r.flag] = @ \cup {r.decision}]
    /\ flag' = [flag EXCEPT ![r.flag].status = "resolved",
                            ![r.flag].resolution = IF RESOLUTION_FOR[r.decision] = r.seen THEN @
                                                   ELSE RESOLUTION_FOR[r.decision]]
    /\ request' = [request EXCEPT ![q] = [stage |-> "log", flag |-> r.flag, decision |-> r.decision]]
    /\ UNCHANGED <<started, trail, router, enforcer, process, late, notPaused, notReleased>>

\* The transaction fails: nothing is written and nothing is enforced.
FailCommit(q) ==
    /\ request[q].stage = "read"
    /\ request' = [request EXCEPT ![q] = NoRequest]
    /\ UNCHANGED <<flag, decisions, trail, started, router, enforcer, process, late, notPaused, notReleased>>

\* The audit-log entry, best effort.
AppendTrail(q) ==
    LET r == request[q] IN
    /\ r.stage = "log"
    /\ \/ trail' = trail \cup {<<r.flag, r.decision>>}
       \/ UNCHANGED trail
    /\ request' = [request EXCEPT ![q].stage = "enforce"]
    /\ UNCHANGED <<flag, decisions, started, router, enforcer, process, late, notPaused, notReleased>>

\* Enforcer.resume: the freezer is turned off, or one suspend is taken back.
Resumed(n) == IF enforcer = "job_object" /\ n > 0 THEN n - 1 ELSE 0

\* Mutated form: continue has nothing to do.
EnforcedContinueNothing(p, d) ==
    IF d = "continue" \/ p.state # "alive" THEN p ELSE [state |-> "killed", suspends |-> 0]

\* Mutated form: quarantine is thought to be done by closing the flag.
EnforcedQuarantineNothing(p, d) ==
    IF p.state # "alive" \/ d = "quarantine" THEN p
    ELSE IF d = "continue" THEN [p EXCEPT !.suspends = Resumed(@)] ELSE [state |-> "killed", suspends |-> 0]

\* _apply_enforcement: what resume and abort make of a process.
Enforced(p, d) ==
    IF p.state # "alive" THEN p
    ELSE IF d = "continue" THEN [p EXCEPT !.suspends = Resumed(@)] ELSE [state |-> "killed", suspends |-> 0]

\* _apply_enforcement, which may have no effect: the answer says so and nothing retries.
Enforce(q) ==
    LET r == request[q]
        run == flag[r.flag].run IN
    /\ r.stage = "enforce"
    /\ request' = [request EXCEPT ![q] = NoRequest]
    /\ \/ process' = [process EXCEPT ![run] = Enforced(@, r.decision)] /\ UNCHANGED notReleased
       \/ notReleased' = notReleased \cup {run} /\ UNCHANGED process
    /\ UNCHANGED <<flag, decisions, trail, started, router, enforcer, late, notPaused>>

RequestStep(q) == CommitDecision(q) \/ FailCommit(q) \/ AppendTrail(q) \/ Enforce(q)

\* The harness ends by itself, which a paused one cannot.
Exit(r) ==
    /\ Running(process[r])
    /\ process' = [process EXCEPT ![r].state = "exited"]
    /\ UNCHANGED <<flag, reviewVars, router, enforcer, late, notPaused, notReleased>>

HitlNext ==
    \/ \E f \in Flags, r \in FlaggedRuns, severity \in Severities : RaiseFlag(f, r, severity)
    \/ \E f \in Flags : RouteStep(f)
    \/ \E q \in Requests, f \in Flags, d \in HitlDecisions : ReadFlag(q, f, d)
    \/ \E q \in Requests : RequestStep(q)
    \/ \E r \in FlaggedRuns : Exit(r)

HitlSpec == HitlInit /\ [][HitlNext]_hitlVars

------------------------------------------------------------------------------

FlagRow == [status : {"open", "resolved"}, run : FlaggedRuns, severity : Severities,
            resolution : {"none", "allowed", "aborted", "quarantined"}]

HitlTypeOK ==
    /\ flag \in [Flags -> FlagRow \cup {NoFlag}]
    /\ decisions \in [Flags -> SUBSET HitlDecisions]
    /\ trail \subseteq Flags \X HitlDecisions
    /\ router \in [Flags -> {"none", "checkpoint", "pause", "enqueue", "digest", "done"}]
    /\ enforcer \in {"cgroup", "job_object"}
    /\ process \in [FlaggedRuns -> [state : {"alive", "killed", "exited"}, suspends : Nat]]
    /\ request \in [Requests ->
         {NoRequest} \cup [stage : {"read"}, flag : Flags, decision : HitlDecisions,
                      seen : {"none", "allowed", "aborted", "quarantined"}]
                \cup [stage : {"log", "enforce"}, flag : Flags, decision : HitlDecisions]]
    /\ started \in 0 .. MaxDecisions
    /\ late \subseteq FlaggedRuns /\ notPaused \subseteq FlaggedRuns /\ notReleased \subseteq FlaggedRuns

\* However many reviewers decide a flag at once, it is closed exactly when it has a decision, and its
\* resolution is what one of the recorded decisions says.
ResolutionDecided ==
    \A f \in Raised :
        /\ flag[f].status = "resolved" <=> decisions[f] # {}
        /\ flag[f].status = "resolved" =>
             flag[f].resolution \in {RESOLUTION_FOR[d] : d \in decisions[f]}

\* The enforcer kills a run, and the audit log speaks of a decision, only after a committed decision.
KilledByDecision ==
    /\ \A r \in FlaggedRuns : process[r].state = "killed" =>
         \E f \in Raised : flag[f].run = r /\ decisions[f] \cap {"abort", "quarantine"} # {}
    /\ \A entry \in trail : entry[2] \in decisions[entry[1]]

\* Some open flag or some decision being enforced will decide about the paused run r.
UnderReview(r) ==
    \E f \in Raised : flag[f].run = r /\ (flag[f].status = "open" \/ Enforcing(f) # {})

\* A paused run is under review, unless its decision was enforced before the pause or had no effect:
\* where suspends nest, every one of them is taken back by the time the last flag is decided.
NoForgottenPause ==
    \A r \in FlaggedRuns : Paused(process[r]) => UnderReview(r) \/ r \in late \cup notReleased

\* Once a critical flag is routed its run does not go on, unless some flag of it was decided with
\* continue or the pause had no effect.
CriticalStops ==
    \A f \in Raised : (flag[f].severity = "critical" /\ router[f] \in {"enqueue", "done"}) =>
        \/ ~Running(process[flag[f].run])
        \/ flag[f].run \in notPaused
        \/ \E g \in Raised : flag[g].run = flag[f].run /\ "continue" \in decisions[g]

\* Once a committed abort or quarantine has been enforced the run's process is gone and stays gone,
\* whatever other reviewers decide about it, unless the enforcement had no effect.
AbortEnds ==
    \A f \in Raised :
        (/\ decisions[f] \cap {"abort", "quarantine"} # {}
         /\ \A q \in Enforcing(f) : request[q].decision = "continue")
            => process[flag[f].run].state # "alive" \/ flag[f].run \in notReleased

\* Flags, processes and the audit log follow the committed decisions, and nothing else.
DecisionsStand == HitlTypeOK /\ ResolutionDecided /\ KilledByDecision
==============================================================================
