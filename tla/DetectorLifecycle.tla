------------------------- MODULE DetectorLifecycle -------------------------
(* detectors/lifecycle.py: promotion of one detector@version through the    *)
(* lifecycle table.  transition() reads the latest row, checks the edge and *)
(* the gates of detector_lifecycle_policy.yaml, writes a row in a           *)
(* transaction of its own and appends an audit entry in another one.        *)
(* Nothing is locked between the read and the write, and callers may be     *)
(* any number of admins and jobs.  Rows of other detectors do not matter:   *)
(* every query names detector and version.                                  *)
EXTENDS Integers, FiniteSets

CONSTANTS Callers,      \* tasks that call transition()
          Admins,       \* values of actor_id
          None,         \* no actor_id, no metric, no date
          Reports,      \* the metrics callers supply, in percent
          Jumps,        \* by how many days the clock advances
          LastDay,      \* bound: last day
          MaxRows,      \* bound: transactions that write a row
          MaxFailures   \* bound: transactions that fail

ASSUME LifecycleAssumption ==
    /\ Callers # {} /\ None \notin Admins
    /\ Jumps \subseteq Nat \ {0} /\ LastDay \in Nat /\ MaxRows \in Nat /\ MaxFailures \in Nat
    /\ \A m \in Reports : /\ m.precision \in 0..100 \cup {None}
                          /\ m.fp_rate \in 0..100 \cup {None}
                          /\ m.critical_incidents \in Nat

DetectorState == {"PROPOSED", "SHADOW", "CANARY", "ENFORCING", "DISABLED", "DEPRECATED", "REMOVED"}

LEGAL_TRANSITIONS ==
    {<<"PROPOSED", "SHADOW">>, <<"SHADOW", "CANARY">>, <<"CANARY", "ENFORCING">>,
     <<"ENFORCING", "DISABLED">>, <<"ENFORCING", "DEPRECATED">>,
     <<"DISABLED", "SHADOW">>, <<"DEPRECATED", "REMOVED">>}

(* The policy file, edge by edge. *)
min_days(edge) == IF edge \in {<<"SHADOW", "CANARY">>, <<"CANARY", "ENFORCING">>} THEN 7 ELSE 0
admin_approval(edge) == edge \notin {<<"PROPOSED", "SHADOW">>, <<"ENFORCING", "DISABLED">>}
precision_min(edge) ==
    CASE edge = <<"SHADOW", "CANARY">> -> 80 [] edge = <<"CANARY", "ENFORCING">> -> 85 [] OTHER -> None
fp_rate_max(edge) == IF edge = <<"SHADOW", "CANARY">> THEN 5 ELSE None
no_critical_incidents(edge) == edge = <<"CANARY", "ENFORCING">>

VARIABLES day,      \* the calendar
          stamp,    \* orders the transactions: now() is the start of the transaction
          rows,     \* detector_lifecycle: the committed rows
          call,     \* one transition() per caller
          trail,    \* the audit entries
          failed    \* ghost: changed_at of the calls that raised after the gates
lifecycleVars == <<day, stamp, rows, call, trail, failed>>

Idle == [pc |-> "idle"]
LifecycleInit ==
        /\ day = 0 /\ stamp = 0
        /\ rows = {} /\ trail = {} /\ failed = {}
        /\ call = [c \in Callers |-> Idle]

(* latest_state: PROPOSED and no date when the table has no row. *)
NoRow == [stamp |-> 0, day |-> None, state |-> "PROPOSED"]
latest_state == IF rows = {} THEN NoRow
                ELSE CHOOSE r \in rows : \A s \in rows : s.stamp <= r.stamp
current_state == latest_state.state

\* Mutated form: good metrics stand in for the days.
GatesWithoutSoak(edge, report, days, actor) ==
    /\ admin_approval(edge) => actor # None
    /\ precision_min(edge) # None =>
            report.precision # None /\ report.precision >= precision_min(edge)

(* _check_gates, for a call without force: a metric that is missing fails its gate. *)
_check_gates(edge, report, days, actor) ==
    /\ days >= min_days(edge)
    /\ admin_approval(edge) => actor # None
    /\ precision_min(edge) # None =>
            report.precision # None /\ report.precision >= precision_min(edge)
    /\ fp_rate_max(edge) # None =>
            report.fp_rate # None /\ report.fp_rate <= fp_rate_max(edge)
    /\ no_critical_incidents(edge) => report.critical_incidents = 0

days_in_state(entered_at) == IF entered_at = None THEN 0 ELSE day - entered_at

Accept(c, seen, target, force) ==
    /\ call' = [call EXCEPT ![c] =
            [pc |-> "checked", basis |-> seen.stamp, previous_state |-> seen.state,
             state |-> target, forced |-> force, changed_at |-> 0, day |-> 0]]
    /\ UNCHANGED <<day, stamp, rows, trail, failed>>

\* Mutated form: force overrides the table of transitions too.
CheckForced(c, target, actor, report, force) ==
    LET seen == latest_state
        edge == <<seen.state, target>>
    IN  /\ call[c].pc = "idle"
        /\ force \/ edge \in LEGAL_TRANSITIONS
        /\ force \/ _check_gates(edge, report, days_in_state(seen.day), actor)
        /\ Accept(c, seen, target, force)

(* The first half of transition(): the read, and the checks on what was read. *)
Check(c, target, actor, report, force) ==
    LET seen == latest_state
        edge == <<seen.state, target>>
    IN  /\ call[c].pc = "idle"
        /\ edge \in LEGAL_TRANSITIONS
        /\ force \/ _check_gates(edge, report, days_in_state(seen.day), actor)
        /\ Accept(c, seen, target, force)

(* DbLifecycleStore.write opens its transaction, which fixes changed_at ... *)
Open(c) ==
    /\ call[c].pc = "checked"
    /\ stamp < MaxRows
    /\ stamp' = stamp + 1
    /\ call' = [call EXCEPT ![c] = [@ EXCEPT !.pc = "open", !.changed_at = stamp + 1, !.day = day]]
    /\ UNCHANGED <<day, rows, trail, failed>>

\* The columns that a later transition or a property reads; forced is kept for the properties.
RowOf(q) == [stamp |-> q.changed_at, day |-> q.day, state |-> q.state,
             previous_state |-> q.previous_state, forced |-> q.forced]

(* ... and commits it. *)
Commit(c) ==
    /\ call[c].pc = "open"
    /\ rows' = rows \cup {RowOf(call[c])}
    /\ call' = [call EXCEPT ![c].pc = "committed"]
    /\ UNCHANGED <<day, stamp, trail, failed>>

\* Mutated form: the entry is appended as soon as the gates have passed.
AppendFirst(c) ==
    /\ call[c].pc \in {"open", "committed"}
    /\ trail' = trail \cup {[row |-> call[c].changed_at,
                             previous_state |-> call[c].previous_state, new_state |-> call[c].state]}
    /\ call' = [call EXCEPT ![c] = Idle]
    /\ UNCHANGED <<day, stamp, rows, failed>>

(* The append to the hash-chained log, and the return. *)
AppendEntry(c) ==
    /\ call[c].pc = "committed"
    /\ trail' = trail \cup {[row |-> call[c].changed_at,
                             previous_state |-> call[c].previous_state, new_state |-> call[c].state]}
    /\ call' = [call EXCEPT ![c] = Idle]
    /\ UNCHANGED <<day, stamp, rows, failed>>

(* The database refuses one of the two transactions: the exception reaches *)
(* the caller, who cannot tell which of them it was.                       *)
Fails(c) == /\ Cardinality(failed) < MaxFailures
            /\ failed' = failed \cup {call[c].changed_at}
            /\ call' = [call EXCEPT ![c] = Idle]

WriteFails(c) ==
    /\ call[c].pc = "open"
    /\ Fails(c)
    /\ UNCHANGED <<day, stamp, rows, trail>>

AppendFails(c) ==
    /\ call[c].pc = "committed"
    /\ Fails(c)
    /\ UNCHANGED <<day, stamp, rows, trail>>

LifecycleTick ==
        /\ \E d \in Jumps : day' = day + d
        /\ day' <= LastDay
        /\ UNCHANGED <<stamp, rows, call, trail, failed>>

LifecycleNext ==
        \/ LifecycleTick
        \/ \E c \in Callers :
              \/ \E target \in DetectorState, actor \in Admins \cup {None}, report \in Reports, force \in BOOLEAN :
                        Check(c, target, actor, report, force)
              \/ Open(c)
              \/ Commit(c)
              \/ AppendEntry(c)
              \/ WriteFails(c)
              \/ AppendFails(c)

-----------------------------------------------------------------------------
LifecycleTypeOK ==
          /\ day \in 0..LastDay /\ stamp \in 0..MaxRows
          /\ \A r \in rows : r.stamp \in 1..stamp /\ r.day \in 0..day /\ r.state \in DetectorState
          /\ \A r, s \in rows : r.stamp = s.stamp => r = s
          /\ \A c \in Callers : call[c].pc \in {"idle", "checked", "open", "committed"}
          /\ failed \subseteq 1..stamp

(* A row that was not forced rests on an earlier row of the table: one that *)
(* put the detector into the state it leaves, as long ago as the policy     *)
(* asks.  Along the chain of such rows no detector enforces before it spent *)
(* its days in SHADOW and in CANARY, whoever else was writing meanwhile.    *)
Rests(r, s) == /\ s.stamp < r.stamp
               /\ s.state = r.previous_state
               /\ r.forced \/ r.day - s.day >= min_days(<<s.state, r.state>>)
RowsEarned ==
    LifecycleTypeOK /\ \A r \in rows :
        /\ r.previous_state = "PROPOSED" \/ \E s \in rows : Rests(r, s)
        /\ r.state = "ENFORCING" /\ ~r.forced =>
              \E s, t \in rows :
                 /\ Rests(r, s) /\ Rests(s, t) /\ t.state = "SHADOW"
                 /\ s.forced \/ r.day - t.day >= 14

(* Every entry of the audit log tells of a row that was committed, as it was *)
(* committed; and a row without an entry is one whose caller is still        *)
(* appending, or was told that the transition failed.                        *)
TrailAccounts ==
    /\ \A e \in trail : \E r \in rows : /\ r.stamp = e.row
                                        /\ r.state = e.new_state /\ r.previous_state = e.previous_state
    /\ \A r \in rows : \/ \E e \in trail : e.row = r.stamp
                       \/ r.stamp \in failed
                       \/ \E c \in Callers : call[c].pc = "committed" /\ call[c].changed_at = r.stamp

(* The state of the detector moves along LEGAL_TRANSITIONS, except when a   *)
(* caller commits who read the table before another one's row came in.      *)
Stale(c) == call[c].pc = "open" /\ call[c].basis # latest_state.stamp
LegalUnlessStale ==
    [][   \/ current_state' = current_state
          \/ <<current_state, current_state'>> \in LEGAL_TRANSITIONS
          \/ \E c \in Callers : Stale(c) /\ Commit(c)]_rows
=============================================================================
