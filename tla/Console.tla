------------------------------- MODULE Console -------------------------------
(***************************************************************************)
(* The operator's console: the chat thread and its background poller       *)
(* (context/ChatContext.tsx), the HTTP client with its silent re-login     *)
(* (api/client.ts), and the endpoints they talk to (api/agent_routes.py).  *)
(*                                                                         *)
(* get_agent_run reads the database in several queries of one READ         *)
(* COMMITTED transaction, while audits of the run commit: each its sampler *)
(* row, and later its verdicts, flag and incident in one transaction.  A   *)
(* run is audited whenever GateDispatcher.on_disconnect finds it known:    *)
(* without mTLS any connection that ends has every known run audited,      *)
(* those that still run among them, and the next event makes a run known   *)
(* again: nothing here bounds the audits of a run.  What is committed of a *)
(* run:                                                                    *)
(*    traced  its row;                                                     *)
(*    tiers   its sampler rows, "skipped" for tier NONE or "audited";      *)
(*    stored  its results, "clean" for verdicts alone or "flag".           *)
(* The run's entry in the registry, which is kept for an hour, is there     *)
(* all the time.                                                           *)
(*                                                                         *)
(* The interval may fire while earlier polls are under way, of which there *)
(* are at most MaxPolls.  A state update and the render that follows it    *)
(* are two steps.                                                          *)
(***************************************************************************)
EXTENDS Integers, FiniteSets

CONSTANTS ChatRuns, MaxPolls,
          MaxFaults  \* how often a token expires, a connection breaks or a sampler row is lost
Polls == 1..MaxPolls

VARIABLES harness,   \* HarnessRun.status, of the run's entry in _LIVE_RUNS
          traced, tiers, stored,
          sampled,   \* the runs of which an audit was to go on after its sampler row
          turns,     \* the thread: the answer each run's turn shows
          view,      \* the pending turns and the token as of the last render
          changed,   \* turns or token was set since
          flight,    \* the poll, or submit, in each slot
          hitl_token,    \* in localStorage
          token,         \* in the provider's state
          refreshPromise,
          faults         \* those that happened

chatVars == <<turns, view, changed>>
authVars == <<hitl_token, token, refreshPromise>>
tables == <<traced, tiers, stored>>
runVars == <<harness, tables, sampled>>
consoleVars == <<runVars, chatVars, flight, authVars, faults>>

SubmitSlot == 0
Slots == Polls \cup {SubmitSlot}

NoTurn == [kind |-> "none"]
NoState == [kind |-> "agent", state |-> "null"]
Idle == [asks |-> {}]
Opened(asks) == [asks |-> asks, cancelled |-> FALSE,
                 req |-> [r \in asks |-> [pc |-> "send", retried |-> FALSE]]]

ConsoleInit ==
    /\ harness = [r \in ChatRuns |-> "none"]
    /\ traced = {} /\ sampled = {}
    /\ tiers = [r \in ChatRuns |-> {}] /\ stored = [r \in ChatRuns |-> {}]
    /\ turns = [r \in ChatRuns |-> NoTurn]
    /\ view = [pending |-> {}, token |-> TRUE] /\ changed = FALSE
    /\ flight = [s \in Slots |-> Idle]
    /\ hitl_token = "good" /\ token = TRUE /\ refreshPromise = "none"
    /\ faults = 0

-----------------------------------------------------------------------------
(* The run and its audits, as far as the console sees them.                 *)
upsert_run(r) ==
    /\ harness[r] # "none" /\ r \notin traced
    /\ traced' = traced \cup {r} /\ UNCHANGED <<harness, tiers, stored, sampled, faults>>
HarnessEnds(r) ==
    /\ harness[r] = "running" /\ harness' = [harness EXCEPT ![r] = "ended"]
    /\ UNCHANGED <<tables, sampled, faults>>

(* on_disconnect has spawned an audit, which the console cannot see before  *)
(* its sampler row; when that row fails to be written, the audit goes on.   *)
audit_run(r) ==
    /\ r \in traced
    /\ \E tier \in {"skipped", "audited"} :
          /\ \/ tiers' = [tiers EXCEPT ![r] = @ \cup {tier}] /\ UNCHANGED faults
             \/ faults < MaxFaults /\ faults' = faults + 1 /\ UNCHANGED tiers
          /\ sampled' = IF tier = "audited" THEN sampled \cup {r} ELSE sampled
    /\ UNCHANGED <<harness, traced, stored>>
(* store_run_result of one of its audits, which need not come to that: its  *)
(* transaction may fail, and another audit may be at work when it ends.     *)
store_run_result(r) ==
    /\ r \in sampled
    /\ \E result \in {"clean", "flag"} : stored' = [stored EXCEPT ![r] = @ \cup {result}]
    /\ UNCHANGED <<harness, traced, tiers, sampled, faults>>

RunProceeds(r) == /\ upsert_run(r) \/ HarnessEnds(r) \/ audit_run(r) \/ store_run_result(r)
                  /\ UNCHANGED <<chatVars, flight, authVars>>

-----------------------------------------------------------------------------
(* request<T>: one fetch, at most one silent re-login and retry.            *)
At(s, r, pc) == r \in flight[s].asks /\ flight[s].req[r].pc = pc
Moved(s, r, req) == [flight EXCEPT ![s].req[r] = req]
Failed == [pc |-> "failed"]

start_agent_run(r) ==
    /\ harness' = [harness EXCEPT ![r] = "running"]
    /\ flight' = Moved(SubmitSlot, r, [pc |-> "ok"])
    /\ UNCHANGED <<tables, sampled, chatVars, authVars, faults>>

(* The first queries: the row, which may be missing as long as the registry *)
(* knows the run, the events, and a sampler row: the first, in no order.    *)
get_agent_run(s, r) ==
    /\ \E sampler \in IF tiers[r] = {} THEN {"none"} ELSE tiers[r] :
          flight' = Moved(s, r, IF flight[s].cancelled THEN Failed ELSE [pc |-> "flag", sampler |-> sampler])
    /\ UNCHANGED <<runVars, chatVars, authVars, faults>>

tryRefresh == refreshPromise' = IF refreshPromise = "none" THEN "login" ELSE refreshPromise

Unauthorised(s, r) ==
    /\ IF flight[s].req[r].retried \/ hitl_token = "none"
       THEN flight' = Moved(s, r, Failed) /\ UNCHANGED refreshPromise
       ELSE flight' = Moved(s, r, [pc |-> "refresh"]) /\ tryRefresh
    /\ UNCHANGED <<runVars, chatVars, hitl_token, token, faults>>

request(s, r) ==
    /\ At(s, r, "send")
    /\ IF hitl_token # "good" THEN Unauthorised(s, r)
       ELSE IF s = SubmitSlot THEN start_agent_run(r)
       ELSE get_agent_run(s, r)

\* A failed login drops the token and dispatches hitl:auth-expired, whose listener signs the user out.
Refreshed(s, r) ==
    /\ At(s, r, "refresh")
    /\ \/ /\ refreshPromise = "true"
          /\ flight' = Moved(s, r, [pc |-> "send", retried |-> TRUE])
          /\ UNCHANGED <<hitl_token, token>>
       \/ /\ refreshPromise = "false"
          /\ flight' = Moved(s, r, Failed)
          /\ hitl_token' = "none" /\ token' = FALSE
    /\ changed' = (changed \/ token' # token)
    /\ UNCHANGED <<runVars, turns, view, refreshPromise, faults>>

\* The login settles; the promise is forgotten a second later, when those who awaited it went on.
LoginSettles ==
    /\ refreshPromise = "login"
    /\ \/ refreshPromise' = "true" /\ hitl_token' = "good"
       \/ refreshPromise' = "false" /\ UNCHANGED hitl_token
    /\ UNCHANGED <<runVars, chatVars, flight, token, faults>>
RefreshForgotten ==
    /\ refreshPromise \in {"true", "false"}
    /\ \A s \in Slots : \A r \in flight[s].asks : ~At(s, r, "refresh")
    /\ refreshPromise' = "none"
    /\ UNCHANGED <<runVars, chatVars, flight, hitl_token, token, faults>>

-----------------------------------------------------------------------------
(* The remaining queries of get_agent_run, in their order: flag, verdicts;  *)
(* then the incident of the flag, which was committed with it.  They change *)
(* nothing: of a cancelled poll they are left out, and what it has read     *)
(* counts as nothing.                                                       *)
ReadFlag(s, r) ==
    /\ At(s, r, "flag")
    /\ flight' = Moved(s, r, [pc |-> "verdicts", sampler |-> flight[s].req[r].sampler,
                                flag |-> flight[s].req[r].sampler # "none" /\ "flag" \in stored[r]])
    /\ UNCHANGED <<runVars, chatVars, authVars, faults>>

\* Mutated form: the audit counts as complete as soon as the sampler has written its row.
CompleteOnceSampled(sampler, verdicts) == sampler # "none"

audit_complete(sampler, verdicts) == sampler # "none" /\ (sampler = "skipped" \/ verdicts)

\* A flag is shown, and the harness matters, only once audited.
AgentRunState(req, r) ==
    LET audited == audit_complete(req.sampler, stored[r] # {})
    IN  [kind |-> "agent", state |-> "run", audited |-> audited,
         flag |-> audited /\ req.flag, harness_status |-> IF audited THEN harness[r] ELSE "any"]

ReadVerdicts(s, r) ==
    /\ At(s, r, "verdicts")
    /\ flight' = Moved(s, r, [pc |-> "ok", answer |-> AgentRunState(flight[s].req[r], r)])
    /\ UNCHANGED <<runVars, chatVars, authVars, faults>>

(* The connection breaks: before the server acted or, for a submit, after;  *)
(* a query changes nothing, so that for a poll both are the same.           *)
NetworkFails(s, r) ==
    /\ At(s, r, "send") \/ (s = SubmitSlot /\ At(s, r, "ok"))
    /\ faults < MaxFaults /\ faults' = faults + 1
    /\ flight' = Moved(s, r, Failed)
    /\ UNCHANGED <<runVars, chatVars, authVars>>

-----------------------------------------------------------------------------
(* ChatProvider.                                                            *)
isAgentTurnDone(t) == t.state # "null" /\ t.audited /\ t.harness_status # "running"
Pending(thread) == {r \in ChatRuns : thread[r].kind = "agent" /\ ~isAgentTurnDone(thread[r])}

\* The interval of the current effect fires.
Poll(p) ==
    /\ flight[p] = Idle /\ \A q \in Polls : q < p => flight[q] # Idle
    /\ view.token /\ view.pending # {}
    /\ flight' = [flight EXCEPT ![p] = Opened(view.pending)]
    /\ UNCHANGED <<runVars, chatVars, authVars, faults>>

Settled(s) == flight[s].asks # {} /\ \A r \in flight[s].asks : flight[s].req[r].pc \in {"ok", "failed"}

\* Promise.allSettled; a poll whose effect was cleaned up is thrown away.
Apply(p) ==
    /\ Settled(p)
    /\ flight' = [flight EXCEPT ![p] = Idle]
    /\ turns' = IF flight[p].cancelled THEN turns
                ELSE [r \in ChatRuns |->
                        IF r \in flight[p].asks /\ turns[r].kind = "agent" /\ flight[p].req[r].pc = "ok"
                        THEN flight[p].req[r].answer ELSE turns[r]]
    /\ changed' = (changed \/ ~flight[p].cancelled)
    /\ UNCHANGED <<runVars, view, authVars, faults>>

\* handleSubmit lets one submit run at a time.  The user's own turn is shown at once.
submit(r) ==
    /\ token /\ harness[r] = "none" /\ flight[SubmitSlot] = Idle
    /\ flight' = [flight EXCEPT ![SubmitSlot] = Opened({r})]
    /\ changed' = TRUE
    /\ UNCHANGED <<runVars, turns, view, authVars, faults>>
SubmitReturns ==
    /\ Settled(SubmitSlot)
    /\ flight' = [flight EXCEPT ![SubmitSlot] = Idle]
    /\ turns' = [r \in ChatRuns |->
                   IF r \in flight[SubmitSlot].asks /\ flight[SubmitSlot].req[r].pc = "ok" THEN NoState ELSE turns[r]]
    /\ changed' = (changed \/ turns' # turns)
    /\ UNCHANGED <<runVars, view, authVars, faults>>

\* A cancelled poll may still log in again; its answers are not looked at.
Cancelled(f) ==
    [asks |-> f.asks, cancelled |-> TRUE,
     req |-> [r \in f.asks |-> IF f.req[r].pc \in {"send", "refresh"} THEN f.req[r] ELSE Failed]]

\* Mutated form: the effect depends on the token only.
RenderOnToken ==
    /\ changed /\ view.token # token /\ changed' = FALSE
    /\ view' = [pending |-> Pending(turns), token |-> token]
    /\ flight' = [s \in Slots |-> IF s \in Polls /\ flight[s] # Idle THEN Cancelled(flight[s]) ELSE flight[s]]
    /\ UNCHANGED <<runVars, turns, authVars, faults>>

(* The render after a change of turns or token cleans the old effect up and *)
(* starts a new one over the current thread.                                *)
Render ==
    /\ changed /\ changed' = FALSE
    /\ view' = [pending |-> Pending(turns), token |-> token]
    /\ flight' = [s \in Slots |-> IF s \in Polls /\ flight[s] # Idle THEN Cancelled(flight[s]) ELSE flight[s]]
    /\ UNCHANGED <<runVars, turns, authVars, faults>>

signIn ==
    /\ ~token
    /\ token' = TRUE /\ hitl_token' = "good" /\ changed' = TRUE
    /\ UNCHANGED <<runVars, turns, view, flight, refreshPromise, faults>>
reset ==
    /\ \E r \in ChatRuns : turns[r] # NoTurn
    /\ turns' = [r \in ChatRuns |-> NoTurn] /\ changed' = TRUE
    /\ UNCHANGED <<runVars, view, flight, authVars, faults>>
TokenExpires ==
    /\ hitl_token = "good" /\ hitl_token' = "expired"
    /\ faults < MaxFaults /\ faults' = faults + 1
    /\ UNCHANGED <<runVars, chatVars, flight, token, refreshPromise>>

-----------------------------------------------------------------------------
RequestStep(s, r) == \/ request(s, r) \/ Refreshed(s, r)
                     \/ ReadFlag(s, r) \/ ReadVerdicts(s, r)
SlotStep(s) == \/ \E r \in ChatRuns : RequestStep(s, r)
               \/ s \in Polls /\ Apply(s)
               \/ s = SubmitSlot /\ SubmitReturns
LoginStep == LoginSettles \/ RefreshForgotten
ConsoleNext == \/ \E r \in ChatRuns : RunProceeds(r) \/ submit(r)
               \/ \E s \in Slots : SlotStep(s) \/ \E r \in ChatRuns : NetworkFails(s, r)
               \/ \E p \in Polls : Poll(p)
               \/ LoginStep \/ Render \/ signIn \/ reset \/ TokenExpires

-----------------------------------------------------------------------------
VerdictBanner(t) ==
    CASE t.state = "null" -> "dispatched"
      [] t.state # "null" /\ ~t.audited -> "auditing"
      [] t.state # "null" /\ t.audited /\ ~t.flag -> "clean"
      [] OTHER -> "flagged"

\* The thread says this of a run, and the console asks no more about it.
Settles(r, verdict) == turns[r].kind = "agent" /\ isAgentTurnDone(turns[r]) /\ VerdictBanner(turns[r]) = verdict

(* However polls, logins, audits and renders overlap, and however late an   *)
(* answer is applied, the console settles on nothing that was never stored: *)
(* it calls a run flagged only when a flag was stored, and clean only when  *)
(* an audit stored its results or the sampler skipped one.                  *)
VerdictShownWasStored ==
    \A r \in ChatRuns : /\ Settles(r, "flagged") => ("flag" \in stored[r])
                        /\ Settles(r, "clean") => ("skipped" \in tiers[r] \/ stored[r] # {})

(* What the console settles on is the result of the full audit: of a run    *)
(* that it calls clean, and asks about no more, no flag is stored.          *)
CleanIsFinal == \A r \in ChatRuns : Settles(r, "clean") => ("flag" \notin stored[r])

(* The run's audits so far are over, as far as the tables tell. *)
Over(r) == tiers[r] # {} /\ ("audited" \in tiers[r] => stored[r] # {})
(* A turn whose run has ended and been audited is brought up to date,       *)
(* however polls overlap and logins expire; or it was removed, or the user  *)
(* was signed out, or another audit has written its sampler row.            *)
TurnSettles ==
    \A r \in ChatRuns :
        (turns[r].kind = "agent" /\ harness[r] # "running" /\ Over(r))
            ~> (turns[r] = NoTurn \/ ~token \/ isAgentTurnDone(turns[r]) \/ ~Over(r))
=============================================================================
