---------------------------- MODULE RecordsProofs ----------------------------
(***************************************************************************)
(* For any number of callers, users, viewers, rows, events, queries and    *)
(* days: what can be relied on of the records that requests and jobs leave *)
(* in the database, although they read in one transaction and write in     *)
(* another, or read what changes under them page by page.                  *)
(*                                                                         *)
(* The parts share no row, so each has an invariant of its own, which the  *)
(* steps of the others leave alone: the lifecycle of detectors, roles, the *)
(* feed, the pending queue and the pages of reviewers, personal data at    *)
(* rest, and searches.                                                     *)
(***************************************************************************)
EXTENDS Records, FiniteSetTheorems, WellFoundedInduction, TLAPS

-----------------------------------------------------------------------------
(* The lifecycle of detectors: rows are only ever added and days only ever  *)
(* pass, so the row a caller rested its checks on is still there when it    *)
(* commits, and has been there longer.                                      *)

Calls == [pc : {"checked", "open", "committed"}, basis : Nat, previous_state : DetectorState,
          state : DetectorState, forced : BOOLEAN, changed_at : Nat, day : Nat]
LifecycleTypes ==
    /\ day \in 0..LastDay /\ stamp \in 0..MaxRows /\ failed \subseteq 1..stamp
    /\ call \in [Callers -> {Idle} \cup Calls]
    /\ rows \subseteq [stamp : 1..stamp, day : 0..day, state : DetectorState,
                       previous_state : DetectorState, forced : BOOLEAN]

\* A row follows an edge of the table, and has a stamp of its own; the latest one exists.
RowsLegal ==
    /\ \A r \in rows : <<r.previous_state, r.state>> \in LEGAL_TRANSITIONS
    /\ \A r, s \in rows : r.stamp = s.stamp => r = s
    /\ rows # {} => \E r \in rows : \A s \in rows : s.stamp <= r.stamp

\* A call past its checks has an edge, rests on the row it read, and that row is as old as the gates ask.
\* Before the transaction opens, the row it will write would have today's date.
RestsOn(q, s) ==
    /\ s.stamp = q.basis /\ s.state = q.previous_state
    /\ q.forced \/ (IF q.pc = "checked" THEN day ELSE q.day) - s.day >= min_days(<<s.state, q.state>>)
CallRests(q) ==
    /\ <<q.previous_state, q.state>> \in LEGAL_TRANSITIONS
    /\ q.basis <= stamp
    /\ \/ q.basis = 0 /\ q.previous_state = "PROPOSED"
       \/ \E s \in rows : RestsOn(q, s)
CallsRest == \A c \in Callers : call[c].pc # "idle" => CallRests(call[c])

\* A transaction that is open has a stamp that nobody else has, and one that committed left its row.
Stamped(q) == q.pc \in {"open", "committed"}
StampsOwned ==
    /\ \A c \in Callers : Stamped(call[c]) =>
          /\ call[c].basis < call[c].changed_at /\ call[c].changed_at \in 1..stamp /\ call[c].day \in 0..day
          /\ \A d \in Callers : Stamped(call[d]) /\ call[d].changed_at = call[c].changed_at => c = d
    /\ \A c \in Callers : call[c].pc = "open" => \A r \in rows : r.stamp # call[c].changed_at
    /\ \A c \in Callers : call[c].pc = "committed" => RowOf(call[c]) \in rows

\* A row rests on an earlier one, or is the first of its detector.
RowsRest == \A r \in rows : r.previous_state = "PROPOSED" \/ \E s \in rows : Rests(r, s)

LifecycleInv == LifecycleTypes /\ RowsLegal /\ CallsRest /\ StampsOwned /\ RowsRest /\ TrailAccounts

\* The days of an edge are a number, and no edge leads to PROPOSED.
LEMMA EdgeFacts ==
    /\ \A edge : min_days(edge) \in {0, 7}
    /\ \A edge \in LEGAL_TRANSITIONS : edge[2] # "PROPOSED"
  BY DEF min_days, LEGAL_TRANSITIONS

\* The latest row is a row of the table, with the greatest stamp.
LEMMA LatestRow ==
    ASSUME RowsLegal, rows # {}
    PROVE  latest_state \in rows /\ \A s \in rows : s.stamp <= latest_state.stamp
  BY DEF RowsLegal, latest_state

\* What a call rests on stays, and only gets older.
LEMMA RestsKept ==
    ASSUME LifecycleTypes, NEW q \in Calls, CallRests(q),
           rows \subseteq rows', stamp' \in Nat, stamp' >= stamp, day' \in Nat, day' >= day
    PROVE  CallRests(q)'
<1>1. q.basis <= stamp'
  BY DEF CallRests, Calls, LifecycleTypes
<1>2. ASSUME NEW s \in rows, RestsOn(q, s) PROVE RestsOn(q, s)'
  <2>1. s.day \in Nat /\ q.day \in Nat /\ day \in Nat /\ min_days(<<s.state, q.state>>) \in {0, 7}
    BY EdgeFacts DEF LifecycleTypes, Calls
  <2> QED BY <1>2, <2>1 DEF RestsOn
<1> QED BY <1>1, <1>2 DEF CallRests

LEMMA CallKept ==
    ASSUME LifecycleTypes, CallsRest, NEW d \in Callers, call'[d] = call[d],
           rows \subseteq rows', stamp' \in Nat, stamp' >= stamp, day' \in Nat, day' >= day
    PROVE  (call[d].pc # "idle" => CallRests(call[d]))'
<1> SUFFICES ASSUME call[d].pc # "idle" PROVE CallRests(call[d])'
  OBVIOUS
<1>1. PICK q : q = call[d]
  OBVIOUS
<1>2. q \in Calls /\ CallRests(q)
  BY <1>1 DEF LifecycleTypes, CallsRest, Idle
<1>3. CallRests(q)'
  BY <1>2, RestsKept
<1> QED BY <1>1, <1>3

\* The initial state satisfies the inductive invariant of the lifecycle.
LEMMA LifecycleInitInv == LifecycleInit => LifecycleInv
<1> SUFFICES ASSUME LifecycleInit PROVE LifecycleInv
  OBVIOUS
<1> USE LifecycleAssumption DEF LifecycleInit
<1>1. LifecycleTypes
  BY DEF LifecycleTypes, Idle
<1>2. RowsLegal /\ RowsRest /\ TrailAccounts
  BY DEF RowsLegal, RowsRest, TrailAccounts
<1>3. CallsRest /\ StampsOwned
  BY DEF CallsRest, StampsOwned, Stamped, Idle
<1> QED BY <1>1, <1>2, <1>3 DEF LifecycleInv

\* transition() passes its checks: what it read is in the table.
LEMMA CheckInv ==
    ASSUME LifecycleInv, NEW c \in Callers, NEW target \in DetectorState, NEW actor, NEW report,
           NEW force \in BOOLEAN, Check(c, target, actor, report, force)
    PROVE  LifecycleInv'
<1> PICK s : s = latest_state
  OBVIOUS
<1> DEFINE q == [pc |-> "checked", basis |-> s.stamp, previous_state |-> s.state,
                 state |-> target, forced |-> force, changed_at |-> 0, day |-> 0]
<1> USE LifecycleAssumption DEF LifecycleInv
<1>1. /\ call' = [call EXCEPT ![c] = q] /\ call[c].pc = "idle"
      /\ day' = day /\ stamp' = stamp /\ rows' = rows /\ trail' = trail /\ failed' = failed
      /\ <<s.state, target>> \in LEGAL_TRANSITIONS
      /\ force \/ days_in_state(s.day) >= min_days(<<s.state, target>>)
  BY DEF Check, Accept, _check_gates
<1>2. /\ s.stamp \in 0..stamp /\ s.state \in DetectorState
      /\ rows = {} => s.stamp = 0 /\ s.state = "PROPOSED"
      /\ rows # {} => s \in rows
  <2>1. CASE rows = {}
    BY <2>1 DEF latest_state, NoRow, DetectorState, LifecycleTypes
  <2>2. CASE rows # {}
    BY <2>2, LatestRow DEF LifecycleTypes
  <2> QED BY <2>1, <2>2
<1>3. q \in Calls
  BY <1>2 DEF Calls, LifecycleTypes
<1>4. LifecycleTypes'
  BY <1>1, <1>3 DEF LifecycleTypes
<1>5. RowsLegal' /\ RowsRest'
  BY <1>1 DEF RowsLegal, RowsRest, Rests
<1>6. CallsRest'
  <2>1. ASSUME rows # {} PROVE RestsOn(q, s)'
    <3>1. s.day \in 0..day /\ day \in Nat
      BY <1>2, <2>1 DEF LifecycleTypes
    <3>2. force \/ day - s.day >= min_days(<<s.state, target>>)
      BY <1>1, <3>1, EdgeFacts DEF days_in_state
    <3> QED BY <1>1, <3>2 DEF RestsOn
  <2>2. CallRests(q)'
    BY <1>1, <1>2, <2>1 DEF CallRests, LifecycleTypes
  <2>3. ASSUME NEW d \in Callers, d # c PROVE (call[d].pc # "idle" => CallRests(call[d]))'
    BY <1>1, <2>3, CallKept DEF LifecycleTypes
  <2> QED BY <1>1, <2>2, <2>3 DEF CallsRest, LifecycleTypes
<1>7. StampsOwned'
  BY <1>1 DEF StampsOwned, Stamped, LifecycleTypes
<1>8. TrailAccounts'
  BY <1>1 DEF TrailAccounts, LifecycleTypes
<1> QED BY <1>4, <1>5, <1>6, <1>7, <1>8

\* The transaction opens: the stamp is new, and so is the date.
LEMMA OpenInv == ASSUME LifecycleInv, NEW c \in Callers, Open(c) PROVE LifecycleInv'
<1> USE LifecycleAssumption DEF LifecycleInv
<1>1. PICK p : p = call[c]
  OBVIOUS
<1> DEFINE q == [p EXCEPT !.pc = "open", !.changed_at = stamp + 1, !.day = day]
<1>2. PICK n, today : n = stamp + 1 /\ today = day
  OBVIOUS
<1>3. /\ call' = [call EXCEPT ![c] = q] /\ p.pc = "checked" /\ stamp' = stamp + 1 /\ stamp < MaxRows
      /\ day' = day /\ rows' = rows /\ trail' = trail /\ failed' = failed
  BY <1>1 DEF Open
<1>4. p \in Calls /\ stamp \in Nat /\ day \in Nat /\ p.basis <= stamp
  <2>1. p \in Calls
    BY <1>1, <1>3 DEF LifecycleTypes, Idle
  <2>2. CallRests(p)
    BY <1>1, <1>3 DEF CallsRest
  <2> QED BY <2>1, <2>2 DEF LifecycleTypes, CallRests
<1>5. PICK r : r = q
  OBVIOUS
<1>6. /\ r \in Calls /\ r.pc = "open" /\ r.changed_at = stamp + 1 /\ r.day = day /\ r.basis = p.basis
      /\ r.previous_state = p.previous_state /\ r.state = p.state /\ r.forced = p.forced
      /\ call' = [call EXCEPT ![c] = r]
  <2>1. r = [pc |-> "open", basis |-> p.basis, previous_state |-> p.previous_state, state |-> p.state,
             forced |-> p.forced, changed_at |-> stamp + 1, day |-> day]
    BY <1>4, <1>5 DEF Calls
  <2>2. r \in Calls
    BY <1>4, <2>1 DEF Calls
  <2> QED BY <1>3, <1>5, <2>1, <2>2
<1> HIDE DEF q
<1>7. LifecycleTypes'
  BY <1>3, <1>4, <1>6 DEF LifecycleTypes
<1>8. RowsLegal' /\ RowsRest'
  BY <1>3 DEF RowsLegal, RowsRest, Rests
<1>9. CallsRest'
  <2>1. CallRests(p)
    BY <1>1, <1>3 DEF CallsRest
  <2>2. CallRests(r)'
    <3>1. ASSUME NEW s \in rows, RestsOn(p, s) PROVE RestsOn(r, s)'
      BY <1>3, <1>6, <3>1 DEF RestsOn
    <3>2. r.basis <= stamp'
      BY <1>3, <1>4, <1>6 DEF Calls
    <3> QED BY <1>3, <1>6, <2>1, <3>1, <3>2 DEF CallRests
  <2>3. ASSUME NEW d \in Callers, d # c PROVE (call[d].pc # "idle" => CallRests(call[d]))'
    BY <1>3, <1>4, <1>6, <2>3, CallKept DEF LifecycleTypes
  <2> QED BY <1>6, <2>2, <2>3 DEF CallsRest, LifecycleTypes
<1>10. StampsOwned'
  <2>1. \A d \in Callers : d # c => call'[d] = call[d]
    BY <1>6 DEF LifecycleTypes
  <2>2. call'[c] = r
    BY <1>6 DEF LifecycleTypes
  <2>3. ASSUME NEW d \in Callers, Stamped(call[d])' PROVE
          /\ (call[d].basis < call[d].changed_at)' /\ (call[d].changed_at \in 1..stamp)' /\ (call[d].day \in 0..day)'
          /\ (\A e \in Callers : Stamped(call[e]) /\ call[e].changed_at = call[d].changed_at => d = e)'
    <3>1. \A e \in Callers : e # c /\ Stamped(call'[e]) => call'[e].changed_at \in 1..stamp
      BY <2>1 DEF StampsOwned, Stamped
    <3>2. CASE d = c
      BY <1>3, <1>4, <1>6, <2>1, <2>2, <3>1, <3>2 DEF Stamped, Calls
    <3>3. CASE d # c
      BY <1>3, <1>4, <1>6, <2>1, <2>2, <2>3, <3>1, <3>3 DEF Stamped, StampsOwned
    <3> QED BY <3>2, <3>3
  <2>4. ASSUME NEW d \in Callers, (call[d].pc = "open")' PROVE \A x \in rows' : x.stamp # call'[d].changed_at
    BY <1>3, <1>4, <1>6, <2>1, <2>2, <2>4 DEF StampsOwned, LifecycleTypes
  <2>5. ASSUME NEW d \in Callers, (call[d].pc = "committed")' PROVE RowOf(call[d])' \in rows'
    BY <1>3, <1>6, <2>1, <2>2, <2>5 DEF StampsOwned, RowOf
  <2> QED BY <2>3, <2>4, <2>5 DEF StampsOwned
<1>11. TrailAccounts'
  <2>1. \A d \in Callers : call[d].pc = "committed" => call'[d] = call[d]
    BY <1>1, <1>3, <1>6 DEF LifecycleTypes
  <2> QED BY <1>3, <2>1 DEF TrailAccounts
<1> QED BY <1>7, <1>8, <1>9, <1>10, <1>11

\* The commit: the row rests on the one its caller read, and has the caller's stamp.
LEMMA CommitInv == ASSUME LifecycleInv, NEW c \in Callers, Commit(c) PROVE LifecycleInv'
<1> USE LifecycleAssumption DEF LifecycleInv
<1>1. PICK p : p = call[c]
  OBVIOUS
<1>2. PICK q : q = [p EXCEPT !.pc = "committed"]
  OBVIOUS
<1>3. PICK row : row = RowOf(p)
  OBVIOUS
<1>4. /\ call' = [call EXCEPT ![c] = q] /\ p.pc = "open" /\ rows' = rows \cup {row}
      /\ stamp' = stamp /\ day' = day /\ trail' = trail /\ failed' = failed
  BY <1>1, <1>2, <1>3 DEF Commit
<1>5. p \in Calls /\ CallRests(p) /\ stamp \in Nat /\ day \in Nat
  BY <1>1, <1>4 DEF LifecycleTypes, Idle, CallsRest
<1>6. /\ p.basis < p.changed_at /\ p.changed_at \in 1..stamp /\ p.day \in 0..day
      /\ \A r \in rows : r.stamp # p.changed_at
      /\ \A d \in Callers : Stamped(call[d]) /\ call[d].changed_at = p.changed_at => c = d
  BY <1>1, <1>4 DEF StampsOwned, Stamped
<1>7. /\ row.stamp = p.changed_at /\ row.day = p.day /\ row.state = p.state
      /\ row.previous_state = p.previous_state /\ row.forced = p.forced
      /\ row \in [stamp : 1..stamp, day : 0..day, state : DetectorState,
                   previous_state : DetectorState, forced : BOOLEAN]
  BY <1>3, <1>5, <1>6 DEF RowOf, Calls
<1>8. /\ q.pc = "committed" /\ q.changed_at = p.changed_at /\ q.day = p.day /\ q.basis = p.basis
      /\ q.previous_state = p.previous_state /\ q.state = p.state /\ q.forced = p.forced /\ q \in Calls
  <2>1. q = [pc |-> "committed", basis |-> p.basis, previous_state |-> p.previous_state, state |-> p.state,
             forced |-> p.forced, changed_at |-> p.changed_at, day |-> p.day]
    BY <1>2, <1>5 DEF Calls
  <2> QED BY <1>5, <2>1 DEF Calls
<1>9. call'[c] = q /\ \A d \in Callers : d # c => call'[d] = call[d]
  BY <1>4 DEF LifecycleTypes
<1>10. LifecycleTypes'
  BY <1>4, <1>7, <1>8 DEF LifecycleTypes
<1>11. RowsLegal'
  <2>1. \A r \in rows' : <<r.previous_state, r.state>> \in LEGAL_TRANSITIONS
    BY <1>4, <1>5, <1>7 DEF RowsLegal, CallRests
  <2>2. \A r, s \in rows' : r.stamp = s.stamp => r = s
    BY <1>4, <1>6, <1>7 DEF RowsLegal
  <2>3. \E r \in rows' : \A s \in rows' : s.stamp <= r.stamp
    <3>1. CASE rows = {}
      BY <1>4, <1>5, <1>7, <3>1
    <3>2. CASE rows # {}
      <4>1. PICK r \in rows : \A s \in rows : s.stamp <= r.stamp
        BY <3>2 DEF RowsLegal
      <4>2. \A s \in rows : s.stamp \in Nat
        BY <1>5 DEF LifecycleTypes
      <4> QED BY <1>4, <1>5, <1>6, <1>7, <4>1, <4>2
    <3> QED BY <3>1, <3>2
  <2> QED BY <2>1, <2>2, <2>3 DEF RowsLegal
<1>12. CallsRest'
  <2>1. CallRests(q)'
    <3>1. ASSUME NEW s \in rows, RestsOn(p, s) PROVE RestsOn(q, s)'
      BY <1>4, <1>8, <3>1 DEF RestsOn
    <3> QED BY <1>4, <1>5, <1>8, <3>1 DEF CallRests
  <2>2. ASSUME NEW d \in Callers, d # c PROVE (call[d].pc # "idle" => CallRests(call[d]))'
    BY <1>4, <1>5, <1>9, <2>2, CallKept
  <2> QED BY <1>9, <2>1, <2>2 DEF CallsRest
<1>13. StampsOwned'
  <2>1. \A d \in Callers : /\ Stamped(call'[d]) => Stamped(call[d])
                            /\ call'[d].changed_at = call[d].changed_at
                            /\ call'[d].basis = call[d].basis /\ call'[d].day = call[d].day
    BY <1>1, <1>4, <1>8, <1>9 DEF Stamped
  <2>2. \A d \in Callers : Stamped(call[d])' =>
          /\ (call[d].basis < call[d].changed_at)' /\ (call[d].changed_at \in 1..stamp)' /\ (call[d].day \in 0..day)'
          /\ (\A e \in Callers : Stamped(call[e]) /\ call[e].changed_at = call[d].changed_at => d = e)'
    BY <1>4, <2>1 DEF StampsOwned, Stamped
  <2>3. \A d \in Callers : (call[d].pc = "open")' => \A x \in rows' : x.stamp # call'[d].changed_at
    BY <1>4, <1>6, <1>7, <1>8, <1>9 DEF StampsOwned, Stamped
  <2>4. \A d \in Callers : (call[d].pc = "committed")' => RowOf(call'[d]) \in rows'
    BY <1>3, <1>4, <1>8, <1>9 DEF StampsOwned, RowOf
  <2> QED BY <2>2, <2>3, <2>4 DEF StampsOwned
<1>14. RowsRest'
  <2>1. ASSUME NEW s \in rows, RestsOn(p, s) PROVE Rests(row, s)
    BY <1>4, <1>5, <1>6, <1>7, <2>1 DEF RestsOn, Rests, LifecycleTypes, Calls
  <2>2. row.previous_state = "PROPOSED" \/ \E s \in rows : Rests(row, s)
    BY <1>5, <1>7, <2>1 DEF CallRests
  <2> QED BY <1>4, <2>2 DEF RowsRest, Rests
<1>15. TrailAccounts'
  <2>1. \A d \in Callers : call[d].pc = "committed" => call'[d] = call[d]
    BY <1>1, <1>4, <1>9
  <2> QED BY <1>4, <1>7, <1>8, <1>9, <2>1 DEF TrailAccounts
<1> QED BY <1>10, <1>11, <1>12, <1>13, <1>14, <1>15

\* A call that returns, or raises, leaves the rows as they are.
LEMMA ReturnInv ==
    ASSUME LifecycleInv, NEW c \in Callers, call' = [call EXCEPT ![c] = Idle],
           day' = day, stamp' = stamp, rows' = rows, failed' \subseteq 1..stamp
    PROVE  LifecycleTypes' /\ RowsLegal' /\ CallsRest' /\ StampsOwned' /\ RowsRest'
<1> USE DEF LifecycleInv
<1>1. call'[c] = Idle /\ \A d \in Callers : d # c => call'[d] = call[d]
  BY DEF LifecycleTypes
<1>2. LifecycleTypes'
  BY DEF LifecycleTypes
<1>3. RowsLegal' /\ RowsRest'
  BY DEF RowsLegal, RowsRest, Rests
<1>4. CallsRest'
  <2>1. ASSUME NEW d \in Callers, d # c PROVE (call[d].pc # "idle" => CallRests(call[d]))'
    BY <1>1, <2>1, CallKept DEF LifecycleTypes
  <2> QED BY <1>1, <2>1 DEF CallsRest, Idle
<1>5. StampsOwned'
  BY <1>1 DEF StampsOwned, Stamped, Idle
<1> QED BY <1>2, <1>3, <1>4, <1>5

LEMMA AppendEntryInv == ASSUME LifecycleInv, NEW c \in Callers, AppendEntry(c) PROVE LifecycleInv'
<1> USE DEF LifecycleInv
<1>1. LifecycleTypes' /\ RowsLegal' /\ CallsRest' /\ StampsOwned' /\ RowsRest'
  BY ReturnInv DEF AppendEntry, LifecycleTypes
<1>2. TrailAccounts'
  <2>1. call[c].pc = "committed" /\ RowOf(call[c]) \in rows /\ \A d \in Callers : d # c => call'[d] = call[d]
    BY DEF AppendEntry, StampsOwned, LifecycleTypes
  <2>2. PICK e : e = [row |-> call[c].changed_at, previous_state |-> call[c].previous_state, new_state |-> call[c].state]
    OBVIOUS
  <2>3. trail' = trail \cup {e} /\ rows' = rows /\ failed' = failed
    BY <2>2 DEF AppendEntry
  <2>4. \A x \in trail' : \E r \in rows' : /\ r.stamp = x.row
                                          /\ r.state = x.new_state /\ r.previous_state = x.previous_state
    BY <2>1, <2>2, <2>3 DEF TrailAccounts, RowOf
  <2>5. \A r \in rows : \/ \E x \in trail' : x.row = r.stamp
                       \/ r.stamp \in failed
                       \/ \E d \in Callers : call'[d].pc = "committed" /\ call'[d].changed_at = r.stamp
    BY <2>1, <2>2, <2>3 DEF TrailAccounts
  <2> QED BY <2>3, <2>4, <2>5 DEF TrailAccounts
<1> QED BY <1>1, <1>2

LEMMA FailsInv ==
    ASSUME LifecycleInv, NEW c \in Callers, WriteFails(c) \/ AppendFails(c)
    PROVE  LifecycleInv'
<1> USE DEF LifecycleInv
<1>1. /\ call[c].pc \in {"open", "committed"} /\ call' = [call EXCEPT ![c] = Idle]
      /\ failed' = failed \cup {call[c].changed_at}
      /\ day' = day /\ stamp' = stamp /\ rows' = rows /\ trail' = trail
  BY DEF WriteFails, AppendFails, Fails
<1>2. call[c].changed_at \in 1..stamp /\ \A d \in Callers : d # c => call'[d] = call[d]
  BY <1>1 DEF StampsOwned, Stamped, LifecycleTypes
<1>3. LifecycleTypes' /\ RowsLegal' /\ CallsRest' /\ StampsOwned' /\ RowsRest'
  BY <1>1, <1>2, ReturnInv DEF LifecycleTypes
<1>4. TrailAccounts'
  BY <1>1, <1>2 DEF TrailAccounts
<1> QED BY <1>3, <1>4

LEMMA LifecycleTickInv == ASSUME LifecycleInv, LifecycleTick PROVE LifecycleInv'
<1> USE LifecycleAssumption DEF LifecycleInv
<1>1. /\ day' \in 0..LastDay /\ day' >= day /\ day \in Nat /\ stamp \in Nat
      /\ stamp' = stamp /\ rows' = rows /\ call' = call /\ trail' = trail /\ failed' = failed
  BY DEF LifecycleTick, LifecycleTypes
<1>2. LifecycleTypes'
  BY <1>1 DEF LifecycleTypes
<1>3. RowsLegal' /\ RowsRest'
  BY <1>1 DEF RowsLegal, RowsRest, Rests
<1>4. CallsRest'
  BY <1>1, CallKept DEF CallsRest
<1>5. StampsOwned'
  BY <1>1 DEF StampsOwned, Stamped, RowOf
<1>6. TrailAccounts'
  BY <1>1 DEF TrailAccounts
<1> QED BY <1>2, <1>3, <1>4, <1>5, <1>6

LEMMA LifecycleStepInv == LifecycleInv /\ [Next]_vars => LifecycleInv'
<1> SUFFICES ASSUME LifecycleInv, [Next]_vars PROVE LifecycleInv'
  OBVIOUS
<1>1. CASE LifecycleNext
  BY <1>1, CheckInv, OpenInv, CommitInv, AppendEntryInv, FailsInv, LifecycleTickInv DEF LifecycleNext
<1>2. CASE UNCHANGED lifecycleVars
  <2>1. day' = day /\ stamp' = stamp /\ rows' = rows /\ call' = call /\ trail' = trail /\ failed' = failed
    BY <1>2 DEF lifecycleVars
  <2>2. LifecycleTypes' /\ RowsLegal' /\ RowsRest'
    BY <2>1 DEF LifecycleInv, LifecycleTypes, RowsLegal, RowsRest, Rests
  <2>3. CallsRest'
    BY <2>1 DEF LifecycleInv, CallsRest, CallRests, RestsOn
  <2>4. StampsOwned'
    BY <2>1 DEF LifecycleInv, StampsOwned, Stamped, RowOf
  <2>5. TrailAccounts'
    BY <2>1 DEF LifecycleInv, TrailAccounts
  <2> QED BY <2>2, <2>3, <2>4, <2>5 DEF LifecycleInv
<1>3. LifecycleNext \/ UNCHANGED lifecycleVars
  BY DEF Next, vars
<1> QED BY <1>1, <1>2, <1>3

LEMMA LifecycleAlways == Spec => []LifecycleInv
<1>1. Init => LifecycleInv
  BY LifecycleInitInv DEF Init
<1> QED BY <1>1, LifecycleStepInv, PTL DEF Spec

(* A row that was not forced rests on an earlier row of the table, which    *)
(* put the detector into the state it leaves as long ago as the policy      *)
(* asks; and an enforcing one on a row in CANARY and one in SHADOW, 14 days *)
(* apart together: for any number of callers of transition(), which reads   *)
(* and writes in separate transactions.                                     *)
THEOREM Earned == Spec => []RowsEarned
<1>1. LifecycleInv => RowsEarned
  <2> SUFFICES ASSUME LifecycleInv PROVE RowsEarned
    OBVIOUS
  <2> USE DEF LifecycleInv
  <2>1. LifecycleTypeOK
    <3>1. \A c \in Callers : call[c].pc \in {"idle", "checked", "open", "committed"}
      BY DEF LifecycleTypes, Calls, Idle
    <3> QED BY <3>1 DEF LifecycleTypeOK, LifecycleTypes, RowsLegal
  <2>2. ASSUME NEW r \in rows, r.state = "ENFORCING", ~r.forced
        PROVE  \E s, t \in rows : /\ Rests(r, s) /\ Rests(s, t) /\ t.state = "SHADOW"
                                  /\ s.forced \/ r.day - t.day >= 14
    <3>1. r.previous_state = "CANARY"
      BY <2>2 DEF RowsLegal, LEGAL_TRANSITIONS
    <3>2. PICK s \in rows : Rests(r, s)
      BY <3>1 DEF RowsRest
    <3>3. s.state = "CANARY" /\ r.day - s.day >= 7
      BY <2>2, <3>1, <3>2 DEF Rests, min_days
    <3>4. s.previous_state = "SHADOW"
      BY <3>3 DEF RowsLegal, LEGAL_TRANSITIONS
    <3>5. PICK t \in rows : Rests(s, t)
      BY <3>4 DEF RowsRest
    <3>6. t.state = "SHADOW" /\ (s.forced \/ s.day - t.day >= 7)
      BY <3>3, <3>4, <3>5 DEF Rests, min_days
    <3>7. r.day \in Int /\ s.day \in Int /\ t.day \in Int
      BY DEF LifecycleTypes
    <3>8. s.forced \/ r.day - t.day >= 14
      BY <3>3, <3>6, <3>7
    <3> QED BY <3>2, <3>5, <3>6, <3>8
  <2> QED BY <2>1, <2>2 DEF RowsEarned, RowsRest
<1> QED BY <1>1, LifecycleAlways, PTL

(* The audit log tells of committed rows only, as they were committed, and  *)
(* of every one but those whose caller is still appending or was told that  *)
(* the transition failed.                                                   *)
THEOREM TrailTrue == Spec => []TrailAccounts
  BY LifecycleAlways, PTL DEF LifecycleInv

\* A commit by a caller whose row is still the latest one moves the detector along the edge it checked.
LEMMA FreshCommit ==
    ASSUME LifecycleInv, NEW c \in Callers, Commit(c), ~Stale(c)
    PROVE  <<current_state, current_state'>> \in LEGAL_TRANSITIONS
<1> USE DEF LifecycleInv
<1>1. PICK p : p = call[c]
  OBVIOUS
<1>2. PICK row : row = RowOf(p)
  OBVIOUS
<1>3. p.pc = "open" /\ rows' = rows \cup {row} /\ p.basis = latest_state.stamp /\ p \in Calls /\ CallRests(p)
  BY <1>1, <1>2 DEF Commit, Stale, LifecycleTypes, Idle, CallsRest
<1>4. p.basis < p.changed_at /\ p.changed_at \in Nat /\ p.basis \in Nat
  BY <1>1, <1>3 DEF StampsOwned, Stamped, Calls
<1>5. row.stamp = p.changed_at /\ row.state = p.state
  BY <1>2 DEF RowOf
<1>6. current_state = p.previous_state
  <2>1. CASE rows = {}
    BY <1>3, <2>1 DEF current_state, latest_state, NoRow, CallRests
  <2>2. CASE rows # {}
    <3>1. latest_state \in rows /\ latest_state.stamp \in 1..stamp /\ stamp \in Nat
      BY <2>2, LatestRow DEF LifecycleTypes
    <3>2. PICK s \in rows : RestsOn(p, s)
      BY <1>3, <3>1 DEF CallRests
    <3>3. s = latest_state
      BY <1>3, <3>1, <3>2 DEF RestsOn, RowsLegal
    <3> QED BY <3>2, <3>3 DEF current_state, RestsOn
  <2> QED BY <2>1, <2>2
<1>7. \A s \in rows : s.stamp \in Nat /\ s.stamp < row.stamp
  <2>1. CASE rows = {}
    BY <2>1
  <2>2. CASE rows # {}
    BY <1>3, <1>4, <1>5, <2>2, LatestRow DEF LifecycleTypes
  <2> QED BY <2>1, <2>2
<1>8. latest_state' = row
  <2>1. row \in rows' /\ \A s \in rows' : s.stamp <= row.stamp
    BY <1>3, <1>4, <1>5, <1>7
  <2>2. \A r \in rows' : (\A s \in rows' : s.stamp <= r.stamp) => r = row
    BY <1>3, <1>4, <1>5, <1>7
  <2> QED BY <2>1, <2>2 DEF latest_state
<1>9. current_state' = p.state
  BY <1>5, <1>8 DEF current_state
<1> QED BY <1>3, <1>6, <1>9 DEF CallRests

(* The state of a detector moves along LEGAL_TRANSITIONS, unless a caller   *)
(* commits whose read another one's row has overtaken: the one hole the     *)
(* missing lock leaves.                                                     *)
THEOREM LegalMoves == Spec => LegalUnlessStale
<1> DEFINE Move == \/ current_state' = current_state
                   \/ <<current_state, current_state'>> \in LEGAL_TRANSITIONS
                   \/ \E c \in Callers : Stale(c) /\ Commit(c)
<1>1. LifecycleInv /\ [Next]_vars => [Move]_rows
  <2> SUFFICES ASSUME LifecycleInv, [Next]_vars, rows' # rows PROVE Move
    OBVIOUS
  <2>1. \E c \in Callers : Commit(c)
    BY DEF Next, vars, lifecycleVars, LifecycleNext, LifecycleTick, Check, Accept, Open, AppendEntry,
           WriteFails, AppendFails
  <2> QED BY <2>1, FreshCommit
<1> QED BY <1>1, LifecycleAlways, PTL DEF Spec, LegalUnlessStale

-----------------------------------------------------------------------------
(* Roles and tokens.  The argument: a row that says admin keeps "held" at   *)
(* the clock, and "held" never goes back, so a token with the role admin    *)
(* that is still good bounds how long ago its user was one.                 *)

Claims == [sub : Users, role : _VALID_ROLES, exp : Int]
Serving == [pc : {"read"}, by : Users, user : Users, role : _VALID_ROLES, previous_role : _VALID_ROLES,
            lag : Int, was_admin : BOOLEAN, overtaken : BOOLEAN]
AccessTypes ==
    /\ clock \in Nat /\ role \in [Users -> _VALID_ROLES] /\ held \in [Users -> Int]
    /\ tokens \subseteq Claims /\ grant \in [Handlers -> {Free} \cup Serving]
HeldNow == \A u \in Users : role[u] = "admin" => held[u] = clock
HeldPast == \A u \in Users : held[u] <= clock
TokensHeld == \A t \in tokens : t.role = "admin" => held[t.sub] >= t.exp - TTL /\ held[t.sub] >= 0
\* A grant under way was asked for by somebody who had been an admin, and saw the role of the row unless overtaken.
GrantsRight ==
    \A h \in Handlers : grant[h].pc = "read" =>
        /\ grant[h].was_admin /\ grant[h].lag < TTL
        /\ grant[h].overtaken \/ role[grant[h].user] = grant[h].previous_role
AccessInv == AccessTypes /\ HeldNow /\ HeldPast /\ TokensHeld /\ GrantsRight /\ AdminBacked

\* The initial state satisfies the inductive invariant of the roles.
LEMMA AccessInitInv == AccessInit => AccessInv
<1> SUFFICES ASSUME AccessInit PROVE AccessInv
  OBVIOUS
<1> USE AccessAssumption DEF AccessInit
<1>1. AccessTypes
  BY DEF AccessTypes, _VALID_ROLES
<1>2. HeldNow /\ HeldPast /\ TokensHeld
  BY DEF HeldNow, HeldPast, TokensHeld
<1>3. GrantsRight /\ AdminBacked
  BY DEF GrantsRight, AdminBacked, Free
<1> QED BY <1>1, <1>2, <1>3 DEF AccessInv

LEMMA AccessTickInv == ASSUME AccessInv, AccessTick PROVE AccessInv'
<1> USE AccessAssumption DEF AccessInv, AccessTick
<1>1. clock' \in Nat /\ \A u \in Users : held'[u] = IF role[u] = "admin" THEN clock' ELSE held[u]
  BY DEF AccessTypes
<1>2. \A u \in Users : held'[u] >= held[u] /\ held[u] \in Int /\ held'[u] \in Int
  BY <1>1 DEF AccessTypes, HeldPast
<1>3. AccessTypes' /\ HeldNow'
  BY <1>1 DEF AccessTypes, HeldNow
<1>4. HeldPast'
  BY <1>1 DEF HeldPast, AccessTypes
<1>5. TokensHeld'
  BY <1>2 DEF TokensHeld, AccessTypes, Claims
<1>6. GrantsRight' /\ AdminBacked'
  BY DEF GrantsRight, AdminBacked
<1> QED BY <1>3, <1>4, <1>5, <1>6

LEMMA LoginInv == ASSUME AccessInv, NEW user \in Users, login(user) PROVE AccessInv'
<1> USE AccessAssumption DEF AccessInv
<1>1. PICK t : t = issue_token(user)
  OBVIOUS
<1>2. /\ tokens' = tokens \cup {t} /\ t \in Claims
      /\ t.sub = user /\ t.role = role[user] /\ t.exp = clock + TTL
      /\ clock' = clock /\ role' = role /\ grant' = grant /\ held' = held /\ grants' = grants
  BY <1>1 DEF login, issue_token, AccessTypes, Claims
<1>3. AccessTypes' /\ HeldNow' /\ HeldPast'
  BY <1>2 DEF AccessTypes, HeldNow, HeldPast
<1>4. TokensHeld'
  BY <1>2 DEF TokensHeld, HeldNow, AccessTypes
<1>5. GrantsRight' /\ AdminBacked'
  BY <1>2 DEF GrantsRight, AdminBacked
<1> QED BY <1>3, <1>4, <1>5

LEMMA GrantRoleInv ==
    ASSUME AccessInv, NEW h \in Handlers, NEW bearer \in tokens \cup {NoToken}, NEW session \in tokens \cup {NoToken},
           NEW user \in Users, NEW new_role \in _VALID_ROLES, grant_role(h, bearer, session, user, new_role)
    PROVE  AccessInv'
<1> USE AccessAssumption DEF AccessInv
<1>1. PICK claims : claims = get_current_user(bearer, session)
  OBVIOUS
<1>2. claims \in tokens /\ claims.role = "admin" /\ clock < claims.exp
  BY <1>1 DEF grant_role, require_role, verify_token, get_current_user
<1>3. /\ claims.sub \in Users /\ claims.exp \in Int /\ held[claims.sub] \in Int /\ clock \in Nat
      /\ held[claims.sub] >= 0 /\ clock - held[claims.sub] < TTL
  BY <1>2 DEF AccessTypes, TokensHeld, Claims
<1>4. PICK g : g = [pc |-> "read", by |-> claims.sub, user |-> user, role |-> new_role,
                    previous_role |-> role[user], lag |-> clock - held[claims.sub],
                    was_admin |-> held[claims.sub] >= 0, overtaken |-> FALSE]
  OBVIOUS
<1>5. /\ grant' = [grant EXCEPT ![h] = g] /\ g \in Serving /\ g.was_admin /\ g.lag < TTL
      /\ role[g.user] = g.previous_role
      /\ clock' = clock /\ role' = role /\ tokens' = tokens /\ held' = held /\ grants' = grants
  <2>1. g \in Serving
    BY <1>3, <1>4 DEF Serving, AccessTypes
  <2> QED BY <1>1, <1>3, <1>4, <2>1 DEF grant_role
<1>6. AccessTypes' /\ HeldNow' /\ HeldPast' /\ TokensHeld'
  BY <1>5 DEF AccessTypes, HeldNow, HeldPast, TokensHeld
<1>7. GrantsRight' /\ AdminBacked'
  BY <1>5 DEF GrantsRight, AdminBacked, AccessTypes
<1> QED BY <1>6, <1>7

\* A grant commits: the role it leaves is the one it asked for, unless it read one that was overtaken.
LEMMA GrantCommitsInv == ASSUME AccessInv, NEW h \in Handlers, GrantCommits(h) PROVE AccessInv'
<1> USE AccessAssumption DEF AccessInv
<1>1. PICK g : g = grant[h]
  OBVIOUS
<1>2. g.pc = "read" /\ g \in Serving /\ g.was_admin /\ g.lag < TTL /\ g.user \in Users
      /\ (g.overtaken \/ role[g.user] = g.previous_role)
  BY <1>1 DEF GrantCommits, AccessTypes, Free, Serving, GrantsRight
<1>3. PICK a : a = [by |-> g.by, user |-> g.user, role |-> g.role, lag |-> g.lag, was_admin |-> g.was_admin,
                    stands |-> role'[g.user] = g.role, overtaken |-> g.overtaken]
  OBVIOUS
<1>4. /\ role' = IF g.role = g.previous_role THEN role ELSE [role EXCEPT ![g.user] = g.role]
      /\ held' = [held EXCEPT ![g.user] = IF role'[g.user] = "admin" THEN clock ELSE @]
      /\ grants' = grants \cup {a}
      /\ grant' = [i \in Handlers |->
                      IF i = h THEN Free
                      ELSE IF grant[i].pc = "read" /\ grant[i].user = g.user THEN [grant[i] EXCEPT !.overtaken = TRUE]
                      ELSE grant[i]]
      /\ clock' = clock /\ tokens' = tokens
  BY <1>1, <1>3 DEF GrantCommits
<1>5. /\ role' \in [Users -> _VALID_ROLES] /\ held' \in [Users -> Int]
      /\ \A u \in Users : u # g.user => role'[u] = role[u] /\ held'[u] = held[u]
      /\ held'[g.user] = IF role'[g.user] = "admin" THEN clock ELSE held[g.user]
      /\ role'[g.user] \in {g.role, role[g.user]}
      /\ role[g.user] = g.previous_role => role'[g.user] = g.role
  BY <1>2, <1>4 DEF AccessTypes, Serving
<1>6. \A u \in Users : held'[u] >= held[u] /\ held'[u] <= clock /\ held[u] \in Int /\ held'[u] \in Int
  BY <1>2, <1>5 DEF AccessTypes, HeldPast
<1>7. \A i \in Handlers :
         \/ grant'[i] = Free
         \/ i # h /\ grant'[i] = grant[i] /\ ~(grant[i].pc = "read" /\ grant[i].user = g.user)
         \/ /\ grant[i].pc = "read" /\ grant'[i] \in Serving
            /\ grant'[i].overtaken /\ grant'[i].was_admin = grant[i].was_admin /\ grant'[i].lag = grant[i].lag
  <2> SUFFICES ASSUME NEW i \in Handlers, i # h, grant[i].pc = "read", grant[i].user = g.user
               PROVE  /\ grant'[i] \in Serving /\ grant'[i].overtaken
                      /\ grant'[i].was_admin = grant[i].was_admin /\ grant'[i].lag = grant[i].lag
    BY <1>4
  <2>1. grant[i] \in Serving
    BY DEF AccessTypes, Free
  <2>2. grant'[i] = [grant[i] EXCEPT !.overtaken = TRUE]
    BY <1>4
  <2> QED BY <2>1, <2>2 DEF Serving
<1>8. AccessTypes'
  <2>1. grant' \in [Handlers -> {Free} \cup Serving]
    BY <1>4, <1>7 DEF AccessTypes
  <2> QED BY <1>4, <1>5, <2>1 DEF AccessTypes
<1>9. HeldNow' /\ HeldPast'
  BY <1>2, <1>4, <1>5, <1>6 DEF HeldNow, HeldPast
<1>10. TokensHeld'
  BY <1>4, <1>6 DEF TokensHeld, AccessTypes, Claims
<1>11. GrantsRight'
  <2> SUFFICES ASSUME NEW i \in Handlers, grant'[i].pc = "read"
               PROVE  /\ grant'[i].was_admin /\ grant'[i].lag < TTL
                      /\ grant'[i].overtaken \/ role'[grant'[i].user] = grant'[i].previous_role
    BY DEF GrantsRight
  <2>1. CASE i # h /\ grant'[i] = grant[i] /\ ~(grant[i].pc = "read" /\ grant[i].user = g.user)
    <3>1. grant[i] \in Serving /\ grant[i].user \in Users
      BY <2>1 DEF AccessTypes, Free, Serving
    <3> QED BY <1>5, <2>1, <3>1 DEF GrantsRight
  <2>2. CASE /\ grant[i].pc = "read" /\ grant'[i] \in Serving
             /\ grant'[i].overtaken /\ grant'[i].was_admin = grant[i].was_admin /\ grant'[i].lag = grant[i].lag
    BY <2>2 DEF GrantsRight
  <2> QED BY <1>7, <2>1, <2>2 DEF Free
<1>12. AdminBacked'
  <2>1. a.was_admin /\ a.lag < TTL /\ (a.stands \/ a.overtaken) /\ a.user = g.user /\ a.role = g.role
    BY <1>2, <1>3, <1>5
  <2>2. \A x \in grants' : x.was_admin /\ x.lag < TTL /\ (x.stands \/ x.overtaken)
    BY <1>4, <2>1 DEF AdminBacked
  <2>3. \A u \in Users : role'[u] = "admin" => u \in Founders \/ \E x \in grants' : x.user = u /\ x.role = "admin"
    BY <1>2, <1>4, <1>5, <2>1 DEF AdminBacked
  <2> QED BY <2>2, <2>3 DEF AdminBacked
<1> QED BY <1>8, <1>9, <1>10, <1>11, <1>12

LEMMA GrantFailsInv == ASSUME AccessInv, NEW h \in Handlers, GrantFails(h) PROVE AccessInv'
<1> USE DEF AccessInv, GrantFails
<1>1. AccessTypes' /\ HeldNow' /\ HeldPast' /\ TokensHeld'
  BY DEF AccessTypes, HeldNow, HeldPast, TokensHeld
<1>2. GrantsRight' /\ AdminBacked'
  BY DEF GrantsRight, AdminBacked, AccessTypes, Free
<1> QED BY <1>1, <1>2

(* For any number of users and concurrent requests: nobody is an admin      *)
(* without having been a founder or granted the role, every grant was asked *)
(* for with a token whose user's row had said admin less than the lifetime  *)
(* of a token before, and an answered grant stands unless another grant to  *)
(* the same user overtook it between its read and its commit.               *)
THEOREM AdminsBacked == Spec => []AdminBacked
<1>1. Init => AccessInv
  BY AccessInitInv DEF Init
<1>2. AccessInv /\ [Next]_vars => AccessInv'
  <2> SUFFICES ASSUME AccessInv, [Next]_vars PROVE AccessInv'
    OBVIOUS
  <2>1. CASE AccessNext
    BY <2>1, AccessTickInv, LoginInv, GrantRoleInv, GrantCommitsInv, GrantFailsInv DEF AccessNext
  <2>2. CASE UNCHANGED accessVars
    BY <2>2 DEF accessVars, AccessInv, AccessTypes, HeldNow, HeldPast, TokensHeld, GrantsRight, AdminBacked
  <2>3. AccessNext \/ UNCHANGED accessVars
    BY DEF Next, vars
  <2> QED BY <2>1, <2>2, <2>3
<1>3. AccessInv => AdminBacked
  BY DEF AccessInv
<1> QED BY <1>1, <1>2, <1>3, PTL DEF Spec

-----------------------------------------------------------------------------
(* What reviewers are shown.  The argument for the live feed: who has his   *)
(* tenant's WebSocket is a subscriber, so a flag published after his list   *)
(* goes to his queue, and one published before it is in the list.           *)

Members(s) == {s[i] : i \in DOMAIN s}
Coming(v) == Members(updates[v])
FeedTypes ==
    /\ flagRows \in [Flags -> {"none", "open", "resolved"}] /\ published \subseteq Flags
    /\ subscribers \in [Topics -> SUBSET Viewers] /\ socket \in [Viewers -> Topics \cup {"closed"}]
    /\ updates \in [Viewers -> Seq(Flags)] /\ listed \subseteq Viewers
    /\ told \in [Viewers -> SUBSET Flags] /\ dropped \in [Viewers -> SUBSET Flags]
Subscribed == \A v \in Viewers : socket[v] # "closed" => v \in subscribers[socket[v]]
PublishedStored == \A f \in published : flagRows[f] # "none"
FeedInv == FeedTypes /\ Subscribed /\ PublishedStored /\ NoFlagMissed

\* What an entry at the end adds to a queue, and what the first entry leaves when it is sent.
LEMMA QueueRange ==
    ASSUME NEW S, NEW s \in Seq(S)
    PROVE  /\ \A e \in S : Members(Append(s, e)) = Members(s) \cup {e}
           /\ s # <<>> => Members(s) = {Head(s)} \cup Members(Tail(s))
<1>1. ASSUME NEW e \in S
      PROVE  Members(Append(s, e)) = Members(s) \cup {e}
  <2>1. /\ DOMAIN Append(s, e) = 1..(Len(s) + 1) /\ DOMAIN s = 1..Len(s) /\ Len(s) \in Nat
        /\ Append(s, e)[Len(s) + 1] = e /\ \A i \in 1..Len(s) : Append(s, e)[i] = s[i]
    OBVIOUS
  <2>2. \A i : i \in 1..(Len(s) + 1) <=> i \in 1..Len(s) \/ i = Len(s) + 1
    BY <2>1
  <2> QED BY <2>1, <2>2 DEF Members
<1>2. ASSUME s # <<>>
      PROVE  Members(s) = {Head(s)} \cup Members(Tail(s))
  <2>1. /\ DOMAIN s = 1..Len(s) /\ Len(s) \in Nat \ {0} /\ Head(s) = s[1]
        /\ DOMAIN Tail(s) = 1..(Len(s) - 1) /\ \A i \in 1..(Len(s) - 1) : Tail(s)[i] = s[i + 1]
    BY <1>2
  <2>2. ASSUME NEW i \in 1..Len(s) PROVE s[i] \in {Head(s)} \cup Members(Tail(s))
    <3>1. CASE i = 1
      BY <2>1, <3>1 DEF Members
    <3>2. CASE i # 1
      <4>1. i - 1 \in 1..(Len(s) - 1) /\ (i - 1) + 1 = i
        BY <2>1, <3>2
      <4> QED BY <2>1, <4>1 DEF Members
    <3> QED BY <3>1, <3>2
  <2>3. \A i \in 1..(Len(s) - 1) : i + 1 \in 1..Len(s)
    BY <2>1
  <2>4. 1 \in 1..Len(s)
    BY <2>1
  <2> QED BY <2>1, <2>2, <2>3, <2>4 DEF Members
<1> QED BY <1>1, <1>2

LEMMA FeedInitInv == FeedInit => FeedInv
  BY DEF FeedInit, FeedInv, FeedTypes, Subscribed, PublishedStored, NoFlagMissed

\* Storing and deciding a flag: none that was closed is open again, and none that is published is new.
LEMMA FlagRowInv == ASSUME FeedInv, NEW f \in Flags, StoreFlag(f) \/ Decide(f) PROVE FeedInv'
<1> USE DEF FeedInv, StoreFlag, Decide
<1>1. FeedTypes' /\ Subscribed'
  BY DEF FeedTypes, Subscribed
<1>2. \A g \in published : flagRows'[g] # "none" /\ (flagRows'[g] = "open" => flagRows[g] = "open")
  BY DEF FeedTypes, PublishedStored
<1>3. PublishedStored' /\ NoFlagMissed'
  BY <1>2 DEF PublishedStored, NoFlagMissed
<1> QED BY <1>1, <1>3

\* A flag is published: every subscriber of its tenant has it coming, or dropped it.
LEMMA PublishInv == ASSUME FeedInv, NEW f \in Flags, publish(f) PROVE FeedInv'
<1> USE FeedAssumption DEF FeedInv
<1>1. PICK bucket, full : /\ bucket = subscribers[FlagTenants[f]]
                          /\ full = {v \in bucket : Len(updates[v]) = QueueSize}
  OBVIOUS
<1>2. /\ flagRows[f] # "none" /\ published' = published \cup {f}
      /\ updates' = [v \in Viewers |-> IF v \in bucket \ full THEN Append(updates[v], f) ELSE updates[v]]
      /\ dropped' = [v \in Viewers |-> IF v \in full THEN dropped[v] \cup {f} ELSE dropped[v]]
      /\ flagRows' = flagRows /\ subscribers' = subscribers /\ socket' = socket /\ told' = told /\ listed' = listed
  BY <1>1 DEF publish
<1>3. FeedTypes'
  <2>1. updates' \in [Viewers -> Seq(Flags)]
    BY <1>2 DEF FeedTypes
  <2>2. dropped' \in [Viewers -> SUBSET Flags]
    BY <1>2 DEF FeedTypes
  <2> QED BY <1>2, <2>1, <2>2 DEF FeedTypes
<1>4. Subscribed' /\ PublishedStored'
  BY <1>2 DEF Subscribed, PublishedStored
<1>5. \A v \in Viewers : /\ dropped[v] \subseteq dropped'[v] /\ Coming(v) \subseteq Coming(v)'
                         /\ v \in bucket => f \in dropped'[v] \cup Coming(v)'
  <2> SUFFICES ASSUME NEW v \in Viewers
               PROVE  /\ dropped[v] \subseteq dropped'[v] /\ Coming(v) \subseteq Coming(v)'
                      /\ v \in bucket => f \in dropped'[v] \cup Coming(v)'
    OBVIOUS
  <2>1. updates[v] \in Seq(Flags)
    BY DEF FeedTypes
  <2>2. CASE v \in bucket \ full
    <3>1. updates'[v] = Append(updates[v], f) /\ dropped'[v] = dropped[v]
      BY <1>2, <2>2
    <3>2. Coming(v)' = Coming(v) \cup {f}
      BY <2>1, <3>1, QueueRange DEF Coming
    <3> QED BY <3>1, <3>2
  <2>3. CASE v \notin bucket \ full
    BY <1>1, <1>2, <2>3 DEF Coming
  <2> QED BY <2>2, <2>3
<1>6. NoFlagMissed'
  <2> SUFFICES ASSUME NEW v \in listed, socket[v] = ViewerTenant[v], NEW g \in published', flagRows[g] = "open",
                      FlagTenants[g] = ViewerTenant[v]
               PROVE  g \in told[v] \cup dropped'[v] \cup Coming(v)'
    BY <1>2 DEF NoFlagMissed, Coming, Members
  <2>1. v \in Viewers /\ ViewerTenant[v] \in Topics
    BY DEF FeedTypes
  <2>2. CASE g = f
    BY <1>1, <1>5, <2>1, <2>2 DEF Subscribed
  <2>3. CASE g \in published
    BY <1>5, <2>1, <2>3 DEF NoFlagMissed, Coming, Members
  <2> QED BY <1>2, <2>2, <2>3
<1> QED BY <1>3, <1>4, <1>6

\* A viewer comes: nothing is said of him before he lists.  The others keep their entries.
LEMMA ConnectInv == ASSUME FeedInv, NEW v \in Viewers, NEW topic \in Topics, Connect(v, topic) PROVE FeedInv'
<1> USE FeedAssumption DEF FeedInv, Connect, subscribe
<1>1. FeedTypes'
  BY DEF FeedTypes
<1>2. Subscribed'
  BY DEF FeedTypes, Subscribed
<1>3. PublishedStored' /\ NoFlagMissed'
  BY DEF PublishedStored, NoFlagMissed, FeedTypes
<1> QED BY <1>1, <1>2, <1>3

\* An entry is sent: the viewer was told what he had coming.
LEMMA WsFlagsInv == ASSUME FeedInv, NEW v \in Viewers, ws_flags(v) PROVE FeedInv'
<1> USE DEF FeedInv
<1>1. /\ updates[v] # <<>> /\ updates[v] \in Seq(Flags)
      /\ updates' = [updates EXCEPT ![v] = Tail(updates[v])]
      /\ told' = [told EXCEPT ![v] = told[v] \cup {Head(updates[v])}]
      /\ flagRows' = flagRows /\ published' = published /\ subscribers' = subscribers
      /\ socket' = socket /\ listed' = listed /\ dropped' = dropped
  BY DEF ws_flags, FeedTypes
<1>2. Tail(updates[v]) \in Seq(Flags) /\ Head(updates[v]) \in Flags
  BY <1>1
<1>3. FeedTypes' /\ Subscribed' /\ PublishedStored'
  BY <1>1, <1>2 DEF FeedTypes, Subscribed, PublishedStored
<1>4. \A w \in Viewers : told[w] \cup Coming(w) \subseteq told'[w] \cup Coming(w)'
  <2>1. told[v] \cup Coming(v) \subseteq told'[v] \cup Coming(v)'
    <3>1. updates'[v] = Tail(updates[v]) /\ told'[v] = told[v] \cup {Head(updates[v])}
      BY <1>1 DEF FeedTypes
    <3>2. Coming(v) = {Head(updates[v])} \cup Coming(v)'
      BY <1>1, <3>1, QueueRange DEF Coming
    <3> QED BY <3>1, <3>2
  <2>2. ASSUME NEW w \in Viewers, w # v PROVE told'[w] = told[w] /\ Coming(w)' = Coming(w)
    BY <1>1, <2>2 DEF FeedTypes, Coming
  <2> QED BY <2>1, <2>2
<1>5. NoFlagMissed'
  BY <1>1, <1>4 DEF NoFlagMissed, Coming, Members, FeedTypes
<1> QED BY <1>3, <1>5

LEMMA DisconnectInv == ASSUME FeedInv, NEW v \in Viewers, Disconnect(v) PROVE FeedInv'
<1> USE FeedAssumption DEF FeedInv, Disconnect, unsubscribe
<1>1. FeedTypes'
  BY DEF FeedTypes
<1>2. Subscribed'
  BY DEF FeedTypes, Subscribed
<1>3. PublishedStored'
  BY DEF PublishedStored
<1>4. socket'[v] = "closed" /\ ViewerTenant[v] \in Topics
  BY DEF FeedTypes
<1>5. \A w \in Viewers : w # v => socket'[w] = socket[w] /\ updates'[w] = updates[w]
  BY DEF FeedTypes
<1>6. NoFlagMissed'
  BY <1>4, <1>5 DEF NoFlagMissed, FeedTypes
<1> QED BY <1>1, <1>2, <1>3, <1>6

\* The list of the open flags has every one of the viewer's tenant.
LEMMA ListFlagsInv ==
    ASSUME FeedInv, NEW v \in Viewers, NEW status \in {All, "open", "resolved"}, NEW tenant_id \in Topics \cup {All},
           list_flags(v, status, tenant_id)
    PROVE  FeedInv'
<1> USE DEF FeedInv
<1>1. /\ told' = [told EXCEPT ![v] = told[v] \cup _get_flags(v, status, tenant_id)]
      /\ listed' = IF status \in {All, "open"} /\ tenant_id \in {All, ViewerTenant[v]} THEN listed \cup {v} ELSE listed
      /\ flagRows' = flagRows /\ published' = published /\ subscribers' = subscribers
      /\ socket' = socket /\ updates' = updates /\ dropped' = dropped
  BY DEF list_flags, FeedTypes
<1>2. FeedTypes' /\ Subscribed' /\ PublishedStored'
  BY <1>1 DEF FeedTypes, Subscribed, PublishedStored, _get_flags
<1>3. \A w \in Viewers : told[w] \subseteq told'[w]
  BY <1>1 DEF FeedTypes
<1>4. ASSUME status \in {All, "open"}, tenant_id \in {All, ViewerTenant[v]},
             NEW f \in published, flagRows[f] = "open", FlagTenants[f] = ViewerTenant[v]
      PROVE  f \in told'[v]
  <2>1. f \in _get_flags(v, status, tenant_id)
    BY <1>4 DEF _get_flags, FeedTypes
  <2> QED BY <1>1, <2>1 DEF FeedTypes
<1>5. NoFlagMissed'
  BY <1>1, <1>3, <1>4 DEF NoFlagMissed, FeedTypes
<1> QED BY <1>2, <1>5

LEMMA FeedAlways == Spec => []NoFlagMissed
<1>1. Init => FeedInv
  BY FeedInitInv DEF Init
<1>2. FeedInv /\ [Next]_vars => FeedInv'
  <2> SUFFICES ASSUME FeedInv, [Next]_vars PROVE FeedInv'
    OBVIOUS
  <2>1. CASE FeedNext
    BY <2>1, FlagRowInv, PublishInv, ConnectInv, WsFlagsInv, DisconnectInv, ListFlagsInv DEF FeedNext
  <2>2. CASE UNCHANGED feedVars
    BY <2>2 DEF feedVars, FeedInv, FeedTypes, Subscribed, PublishedStored, NoFlagMissed
  <2>3. FeedNext \/ UNCHANGED feedVars
    BY DEF Next, ReviewNext, vars, reviewVars
  <2> QED BY <2>1, <2>2, <2>3
<1>3. FeedInv => NoFlagMissed
  BY DEF FeedInv
<1> QED BY <1>1, <1>2, <1>3, PTL DEF Spec

-----------------------------------------------------------------------------
(* The pending queue.  The argument: a flag is enqueued once, so a hash     *)
(* that LookUp did not find is not there later either, when CleanUp removes *)
(* its entry from the index.                                                *)

Listing == [pc : {"idle", "look", "clean"}, todo : SUBSET Flags, found : SUBSET Flags, gone : Flags \cup {"none"}]
QueueInv ==
    /\ listing \in Listing
    /\ records \subseteq index /\ index \subseteq enqueued /\ enqueued \subseteq Flags
    /\ throughout \subseteq records
    /\ listing.todo \subseteq enqueued
    /\ listing.pc = "clean" => listing.gone \in enqueued \ records
    /\ PendingReachable

LEMMA QueueStep == ASSUME QueueInv, QueueNext PROVE QueueInv'
<1> USE DEF QueueInv, PendingReachable
<1>1. ASSUME NEW f \in Flags, enqueue(f) \/ Expire(f) \/ ack(f) PROVE QueueInv'
  BY <1>1 DEF enqueue, Expire, ack
<1>2. ASSUME NEW f \in Flags, LookUp(f) PROVE QueueInv'
  <2>1. CASE f \in records
    <3>1. listing' = [pc |-> "look", todo |-> listing.todo \ {f}, found |-> listing.found \cup {f}, gone |-> listing.gone]
      BY <1>2, <2>1 DEF LookUp, Listing
    <3> QED BY <1>2, <2>1, <3>1 DEF LookUp, Listing
  <2>2. CASE f \notin records
    <3>1. listing' = [pc |-> "clean", todo |-> listing.todo \ {f}, found |-> listing.found, gone |-> f]
      BY <1>2, <2>2 DEF LookUp, Listing
    <3> QED BY <1>2, <2>2, <3>1 DEF LookUp, Listing
  <2> QED BY <2>1, <2>2
<1>3. CASE list_pending
  <2>1. listing' = [pc |-> "look", todo |-> index, found |-> {}, gone |-> "none"]
    BY <1>3 DEF list_pending, NoListing
  <2> QED BY <1>3, <2>1 DEF list_pending, Listing
<1>4. CASE CleanUp
  <2>1. listing' = [pc |-> "look", todo |-> listing.todo, found |-> listing.found, gone |-> "none"]
    BY <1>4 DEF CleanUp, Listing
  <2> QED BY <1>4, <2>1 DEF CleanUp, Listing
<1>5. CASE Listed
  BY <1>5 DEF Listed, NoListing, Listing
<1> QED BY <1>1, <1>2, <1>3, <1>4, <1>5 DEF QueueNext

LEMMA QueueAlways == Spec => []PendingReachable
<1>1. Init => QueueInv
  BY DEF Init, QueueInit, QueueInv, PendingReachable, NoListing, Listing
<1>2. QueueInv /\ [Next]_vars => QueueInv'
  <2> SUFFICES ASSUME QueueInv, [Next]_vars PROVE QueueInv'
    OBVIOUS
  <2>1. CASE UNCHANGED queueVars
    BY <2>1 DEF queueVars, QueueInv, PendingReachable
  <2>2. QueueNext \/ UNCHANGED queueVars
    BY DEF Next, ReviewNext, vars, reviewVars
  <2> QED BY <2>1, <2>2, QueueStep
<1>3. QueueInv => PendingReachable
  BY DEF QueueInv
<1> QED BY <1>1, <1>2, <1>3, PTL DEF Spec

-----------------------------------------------------------------------------
(* The pages of a run's events.  The argument: every page moves the cursor  *)
(* to the last ts it shows, and the cut of that page excuses the events     *)
(* with the same ts and those that arrive later.                            *)

Cuts == [ts : Nat, size : Nat]
PageTypes ==
    /\ arrived \in Seq(Nat \ {0}) /\ cursor \in Nat /\ cuts \in Seq(Cuts)
    /\ \E last \in Nat : \A i \in DOMAIN arrived : arrived[i] <= last
CutsRight ==
    /\ cursor # 0 => cuts # <<>> /\ cuts[Len(cuts)].ts = cursor
    /\ \A p \in DOMAIN cuts : cuts[p].size <= Len(arrived)
PageInv == PageTypes /\ CutsRight /\ PagesComplete

\* A nonempty set of indices whose values are bounded has one with the greatest value.
LEMMA GreatestExists ==
    ASSUME NEW f, NEW S, S # {}, NEW b \in Nat, \A i \in S : f[i] \in Nat /\ f[i] <= b
    PROVE  \E i \in S : \A j \in S : f[j] <= f[i]
<1> DEFINE T == {b - f[i] : i \in S}
           R == OpToRel(<, Nat)
<1>1. T \subseteq Nat /\ T # {}
  OBVIOUS
<1>2. IsWellFoundedOn(R, Nat)
  BY NatLessThanWellFounded
<1> HIDE DEF R
<1>3. PICK x \in T : \A y \in T : ~(<<y, x>> \in R)
  BY <1>1, <1>2, WFMin
<1>4. \A y \in T : ~(y < x)
  BY <1>1, <1>3 DEF R, OpToRel
<1>5. PICK i \in S : x = b - f[i]
  BY <1>3
<1>6. ASSUME NEW j \in S PROVE f[j] <= f[i]
  <2>1. ~(b - f[j] < b - f[i])
    BY <1>4, <1>5
  <2> QED BY <2>1
<1> QED BY <1>6

LEMMA PageTypeFacts ==
    ASSUME PageTypes
    PROVE  /\ Len(arrived) \in Nat /\ DOMAIN arrived = 1..Len(arrived) /\ \A i \in DOMAIN arrived : arrived[i] \in Nat /\ arrived[i] > 0
           /\ Len(cuts) \in Nat /\ DOMAIN cuts = 1..Len(cuts) /\ \A p \in DOMAIN cuts : cuts[p].ts \in Nat /\ cuts[p].size \in Nat
           /\ cursor \in Nat /\ (cuts # <<>> => Len(cuts) \in DOMAIN cuts)
<1>1. Len(arrived) \in Nat /\ DOMAIN arrived = 1..Len(arrived) /\ \A i \in DOMAIN arrived : arrived[i] \in Nat /\ arrived[i] > 0
  BY DEF PageTypes
<1>2. cuts \in Seq(Cuts) /\ cursor \in Nat
  BY DEF PageTypes
<1>3. Len(cuts) \in Nat /\ DOMAIN cuts = 1..Len(cuts) /\ (\A p \in DOMAIN cuts : cuts[p] \in Cuts)
      /\ (cuts # <<>> => Len(cuts) \in DOMAIN cuts)
  BY <1>2
<1>4. \A p \in DOMAIN cuts : cuts[p].ts \in Nat /\ cuts[p].size \in Nat
  BY <1>3 DEF Cuts
<1> QED BY <1>1, <1>2, <1>3, <1>4

\* The answers of the database: the first rows by ts.
LEMMA PageFacts ==
    ASSUME NEW after, NEW limit, NEW page \in _get_run_events(after, limit)
    PROVE  /\ page \subseteq DOMAIN arrived /\ \A i \in page : arrived[i] > after
           /\ \A i \in page, j \in DOMAIN arrived \ page : arrived[j] > after => arrived[i] <= arrived[j]
  BY DEF _get_run_events

LEMMA ArriveInv == ASSUME PageInv, NEW ts \in Times, Arrive(ts) PROVE PageInv'
<1>1. PageTypes /\ CutsRight /\ PagesComplete
  BY DEF PageInv
<1>2. /\ ts \in Nat /\ ts > 0 /\ arrived' = Append(arrived, ts)
      /\ cursor' = cursor /\ seen' = seen /\ cuts' = cuts
  BY FeedAssumption DEF Arrive
<1>3. PICK n \in Nat : n = Len(arrived)
  BY <1>1 DEF PageTypes
<1>4. /\ DOMAIN arrived' = 1..(n + 1) /\ Len(arrived') = n + 1 /\ arrived'[n + 1] = ts
      /\ \A i \in 1..n : arrived'[i] = arrived[i]
      /\ arrived' \in Seq(Nat \ {0})
  BY <1>1, <1>2, <1>3 DEF PageTypes
<1>5. /\ DOMAIN arrived = 1..n /\ (\A i \in DOMAIN arrived : arrived[i] \in Nat) /\ cursor \in Nat
      /\ (\A p \in DOMAIN cuts : cuts[p].ts \in Nat /\ cuts[p].size \in Nat)
      /\ (cuts # <<>> => Len(cuts) \in DOMAIN cuts)
  BY <1>1, <1>3, PageTypeFacts
<1>6. \A i \in DOMAIN arrived' : i \in DOMAIN arrived \/ i = n + 1
  BY <1>4, <1>5
<1>7. PageTypes'
  <2>1. PICK last \in Nat : \A i \in DOMAIN arrived : arrived[i] <= last
    BY <1>1 DEF PageTypes
  <2>2. last + ts \in Nat /\ \A i \in DOMAIN arrived' : arrived'[i] <= last + ts
    BY <1>2, <1>4, <1>5, <1>6, <2>1
  <2>3. \E l \in Nat : \A i \in DOMAIN arrived' : arrived'[i] <= l
    BY <2>2
  <2> QED BY <1>1, <1>2, <1>4, <2>3 DEF PageTypes
<1>8. CutsRight'
  <2>1. \A p \in DOMAIN cuts : cuts[p].size <= Len(arrived')
    BY <1>1, <1>3, <1>4, <1>5 DEF CutsRight
  <2> QED BY <1>1, <1>2, <2>1 DEF CutsRight
<1>9. PagesComplete'
  <2>1. ASSUME NEW i \in DOMAIN arrived' \ seen, arrived'[i] <= cursor
        PROVE  \E p \in DOMAIN cuts : /\ arrived'[i] <= cuts[p].ts
                                      /\ i > cuts[p].size \/ arrived'[i] = cuts[p].ts
    <3>1. CASE i \in DOMAIN arrived
      BY <1>1, <1>4, <1>5, <2>1, <3>1 DEF PagesComplete
    <3>2. CASE i = n + 1
      <4>1. cursor # 0
        BY <1>2, <1>4, <1>5, <2>1, <3>2
      <4>2. Len(cuts) \in DOMAIN cuts /\ cuts[Len(cuts)].ts = cursor /\ cuts[Len(cuts)].size <= n
        BY <1>1, <1>3, <1>5, <4>1 DEF CutsRight
      <4>3. PICK p : p = Len(cuts)
        OBVIOUS
      <4>4. i > cuts[p].size
        BY <1>5, <3>2, <4>2, <4>3
      <4> QED BY <2>1, <4>2, <4>3, <4>4
    <3> QED BY <1>6, <3>1, <3>2
  <2> QED BY <1>2, <2>1 DEF PagesComplete
<1> QED BY <1>7, <1>8, <1>9 DEF PageInv

\* The next page: the events it passes over have the ts it ends with.
LEMMA GetRunEventsInv == ASSUME PageInv, get_run_events PROVE PageInv'
<1>0. PageTypes /\ CutsRight /\ PagesComplete
  BY DEF PageInv
<1>1. PICK page \in _get_run_events(cursor, PageLimit) :
          /\ page # {} /\ seen' = seen \cup page
          /\ cursor' = CHOOSE ts \in {arrived[i] : i \in page} : \A i \in page : arrived[i] <= ts
          /\ cuts' = Append(cuts, [ts |-> cursor', size |-> Len(arrived)])
  BY DEF get_run_events
<1>2. arrived' = arrived
  BY DEF get_run_events
<1>3. /\ page \subseteq DOMAIN arrived /\ \A i \in page : arrived[i] > cursor
      /\ \A i \in page, j \in DOMAIN arrived \ page : arrived[j] > cursor => arrived[i] <= arrived[j]
  BY PageFacts
<1>4. /\ Len(arrived) \in Nat /\ (\A i \in DOMAIN arrived : arrived[i] \in Nat) /\ cursor \in Nat
      /\ Len(cuts) \in Nat /\ DOMAIN cuts = 1..Len(cuts)
  BY <1>0, PageTypeFacts
<1>5. \E ts \in {arrived[i] : i \in page} : \A i \in page : arrived[i] <= ts
  <2>1. PICK last \in Nat : \A i \in DOMAIN arrived : arrived[i] <= last
    BY <1>0 DEF PageTypes
  <2>2. \A i \in page : arrived[i] \in Nat /\ arrived[i] <= last
    BY <1>3, <1>4, <2>1
  <2>3. PICK k \in page : \A i \in page : arrived[i] <= arrived[k]
    BY <1>1, <2>2, GreatestExists
  <2> QED BY <2>3
<1>6. cursor' \in {arrived[i] : i \in page} /\ \A i \in page : arrived[i] <= cursor'
  BY <1>1, <1>5
<1>7. PICK k \in page : cursor' = arrived[k]
  BY <1>6
<1>8. cursor' \in Nat /\ cursor' > cursor
  BY <1>3, <1>4, <1>7
<1>9. PICK cut : cut = [ts |-> cursor', size |-> Len(arrived)]
  OBVIOUS
<1>10. cut \in Cuts /\ cut.ts = cursor' /\ cut.size = Len(arrived)
  BY <1>4, <1>8, <1>9 DEF Cuts
<1>11. /\ cuts' \in Seq(Cuts) /\ cuts' # <<>> /\ Len(cuts') = Len(cuts) + 1
       /\ DOMAIN cuts' = 1..(Len(cuts) + 1)
       /\ cuts'[Len(cuts) + 1] = cut /\ \A p \in 1..Len(cuts) : cuts'[p] = cuts[p]
  <2>1. cuts' = Append(cuts, cut) /\ cuts \in Seq(Cuts)
    BY <1>0, <1>1, <1>9 DEF PageTypes
  <2> QED BY <1>10, <2>1
<1>12. PageTypes'
  BY <1>0, <1>2, <1>8, <1>11 DEF PageTypes
<1>13. CutsRight'
  <2>1. \A p \in DOMAIN cuts' : p \in DOMAIN cuts \/ p = Len(cuts) + 1
    BY <1>4, <1>11
  <2>2. \A p \in DOMAIN cuts' : cuts'[p].size <= Len(arrived)
    BY <1>0, <1>4, <1>10, <1>11, <2>1 DEF CutsRight
  <2> QED BY <1>2, <1>10, <1>11, <2>2 DEF CutsRight
<1>14. PagesComplete'
  <2>1. ASSUME NEW i \in DOMAIN arrived \ seen', arrived[i] <= cursor'
        PROVE  \E p \in DOMAIN cuts' : /\ arrived[i] <= cuts'[p].ts
                                       /\ i > cuts'[p].size \/ arrived[i] = cuts'[p].ts
    <3>1. CASE arrived[i] <= cursor
      <4>1. PICK p \in DOMAIN cuts : arrived[i] <= cuts[p].ts /\ (i > cuts[p].size \/ arrived[i] = cuts[p].ts)
        BY <1>0, <1>1, <3>1 DEF PagesComplete
      <4>2. p \in DOMAIN cuts' /\ cuts'[p] = cuts[p]
        BY <1>4, <1>11
      <4> QED BY <4>1, <4>2
    <3>2. CASE arrived[i] > cursor
      <4>1. i \in DOMAIN arrived \ page /\ arrived[i] \in Nat
        BY <1>1, <1>4
      <4>2. arrived[k] <= arrived[i]
        BY <1>3, <3>2, <4>1
      <4>3. arrived[i] = cursor'
        BY <1>7, <1>8, <2>1, <4>1, <4>2
      <4>4. Len(cuts) + 1 \in DOMAIN cuts'
        BY <1>4, <1>11
      <4> QED BY <1>8, <1>10, <1>11, <4>3, <4>4
    <3> QED BY <1>4, <3>1, <3>2
  <2> QED BY <1>0, <1>2, <2>1 DEF PagesComplete
<1> QED BY <1>12, <1>13, <1>14 DEF PageInv

LEMMA PagesAlways == Spec => []PagesComplete
<1>1. Init => PageInv
  BY DEF Init, PageInit, PageInv, PageTypes, CutsRight, PagesComplete
<1>2. PageInv /\ [Next]_vars => PageInv'
  <2> SUFFICES ASSUME PageInv, [Next]_vars PROVE PageInv'
    OBVIOUS
  <2>1. CASE PageNext
    BY <2>1, ArriveInv, GetRunEventsInv DEF PageNext
  <2>2. CASE UNCHANGED pageVars
    BY <2>2 DEF pageVars, PageInv, PageTypes, CutsRight, PagesComplete
  <2>3. PageNext \/ UNCHANGED pageVars
    BY DEF Next, ReviewNext, vars, reviewVars
  <2> QED BY <2>1, <2>2, <2>3
<1>3. PageInv => PagesComplete
  BY DEF PageInv
<1> QED BY <1>1, <1>2, <1>3, PTL DEF Spec

(* Nothing falls between two reads of a reviewer, for any number of         *)
(* viewers, flags, queue sizes, events and page sizes: a flag that is open  *)
(* and published reaches whoever subscribed and listed, a pending one stays *)
(* reachable, and no event is passed over but one that arrived late or has  *)
(* the very ts a page ended with.                                           *)
THEOREM NothingIsWithheld == Spec => []NothingWithheld
  BY FeedAlways, QueueAlways, PagesAlways, PTL DEF NothingWithheld, NoFlagLost

-----------------------------------------------------------------------------
(* Personal data at rest: what a scan has seen and counted stays accounted  *)
(* for until it is in a flag, or its run in the list of failures.           *)

EventTypes ==
    /\ process \in Processes /\ stored \in Nat /\ IsFiniteSet(events) /\ memory \subseteq Metadata
    /\ \A e \in events : e.id \in 1..stored /\ e.run \in Runs
    /\ \A e, x \in events : e.id = x.id => e = x
\* What the redactor marked is clean for the engine it redacted with.
Redacted == \A e \in events : e.mark \notin {NoMark, Supplied} =>
                \A path \in Paths : Skipped(path) \/ Clean(e.texts[path], e.backend)
Found(row, engine) == _extract_entities_from_payload(row, engine)

ScanShape(s) ==
    /\ s = [pc |-> s.pc, tenant |-> s.tenant, engine |-> s.engine, seen |-> s.seen, failed |-> s.failed,
            findings |-> s.findings]
    /\ s.pc \in {"memory", "persist", "done"} /\ s.seen \subseteq 1..stored
    /\ s.pc = "done" => DOMAIN s.findings = {}

\* What the scan is to find, and that it is accounted for.
ToFind(e, s) == e.id \in s.seen /\ e.mark = NoMark /\ Found(e, s.engine) # {}
Counted(e, s) == e.run \in DOMAIN s.findings /\ Found(e, s.engine) \subseteq DOMAIN s.findings[e.run]
Accounted(s) == \A e \in events : ToFind(e, s) =>
    Counted(e, s) \/ e.run \in s.failed \/ Flagged(e, Found(e, s.engine))

RestInv ==
    /\ EventTypes /\ Redacted
    /\ scan = NoScan \/ (ScanShape(scan) /\ Accounted(scan))

\* Counting names what is there.
LEMMA CountsAre ==
    ASSUME NEW S, NEW e \in S, NEW engine
    PROVE  Found(e, engine) \subseteq DOMAIN Counts(S, engine)
  BY DEF Counts, Found

\* Adding to the counts of a run forgets no type.
LEMMA SumKeeps == ASSUME NEW B, NEW C PROVE DOMAIN B \subseteq DOMAIN (B (+) C)
  BY DEF (+)

\* Whichever engine redacts, it leaves nothing it knows.
LEMMA RedactedIsClean ==
    ASSUME NEW payload \in Payloads, NEW path \in Paths, NEW backend \in {"presidio", "regex"}
    PROVE  Clean(redact_text(payload.texts[path], backend), backend)
<1>1. PICK text : text = payload.texts[path]
  OBVIOUS
<1>2. \A span \in text : span.regex \subseteq Range(_REGEX_PATTERNS)
  BY <1>1, RedactionAssumption
<1>3. \A type : Tag(type).regex = {} /\ Tag(type)["presidio"] = {}
  BY DEF Tag
<1>4. CASE backend = "presidio"
  <2>1. redact_text(text, backend) = {IF span.presidio = {} THEN span ELSE Tag(CHOOSE type \in span.presidio : TRUE) : span \in text}
    BY <1>4 DEF redact_text, _presidio_redact
  <2> QED BY <1>1, <1>3, <1>4, <2>1 DEF Clean
<1>5. CASE backend = "regex"
  <2>1. PICK pats : pats = _REGEX_PATTERNS
    OBVIOUS
  <2>2. Range(_REGEX_PATTERNS) = {pats[i] : i \in DOMAIN pats}
    BY <2>1 DEF Range
  <2>3. redact_text(text, backend) =
          {IF {i \in DOMAIN pats : pats[i] \in span.regex} = {} THEN span
           ELSE Tag(pats[Min({i \in DOMAIN pats : pats[i] \in span.regex})]) : span \in text}
    BY <1>5, <2>1 DEF redact_text, _regex_redact
  <2>4. ASSUME NEW span \in redact_text(text, backend) PROVE span.regex = {}
    <3>1. PICK old \in text :
            span = IF {i \in DOMAIN pats : pats[i] \in old.regex} = {} THEN old
                   ELSE Tag(pats[Min({i \in DOMAIN pats : pats[i] \in old.regex})])
      BY <2>3
    <3>2. CASE {i \in DOMAIN pats : pats[i] \in old.regex} = {}
      <4>1. old.regex \subseteq {pats[i] : i \in DOMAIN pats}
        BY <1>2, <2>2
      <4>2. old.regex = {}
        BY <3>2, <4>1
      <4> QED BY <3>1, <3>2, <4>2
    <3>3. CASE {i \in DOMAIN pats : pats[i] \in old.regex} # {}
      BY <1>3, <3>1, <3>3
    <3> QED BY <3>2, <3>3
  <2> QED BY <1>1, <1>5, <2>4 DEF Clean
<1> QED BY <1>4, <1>5

\* Nothing but the scan's own steps and new events touches what the scan has to account for.
LEMMA AccountedStays ==
    ASSUME Accounted(scan), scan' = scan, flags \subseteq flags', \A e \in events' : e.id \in scan.seen => e \in events
    PROVE  Accounted(scan)'
  BY DEF Accounted, ToFind, Counted, Flagged

LEMMA StoreEventInv ==
    ASSUME RestInv, NEW run \in Runs, NEW payload \in Payloads, NEW raising, store_event(run, payload, raising)
    PROVE  RestInv'
<1>1. PICK row : row = _redact_payload(payload, Engine(process.backend, raising))
  OBVIOUS
<1>2. PICK e : e = [id |-> stored + 1, run |-> run, texts |-> row.texts, mark |-> row.mark, backend |-> process.backend]
  OBVIOUS
<1>3. /\ stored' = stored + 1 /\ events' = events \cup {e} /\ UNCHANGED <<process, runRows, memory, flags, scan, scans>>
      /\ e.id = stored + 1 /\ e.run = run /\ e.texts = row.texts /\ e.mark = row.mark /\ e.backend = process.backend
  BY <1>1, <1>2 DEF store_event
<1>4. EventTypes'
  <2>1. IsFiniteSet(events')
    BY <1>3, FS_AddElement DEF RestInv, EventTypes
  <2>2. \A x \in events : x.id \in 1..stored /\ x.id \in 1..stored + 1 /\ x.id # stored + 1
    BY DEF RestInv, EventTypes
  <2> QED BY <1>3, <2>1, <2>2 DEF RestInv, EventTypes
<1>5. Redacted'
  <2>1. ASSUME row.mark \notin {NoMark, Supplied}, NEW path \in Paths, ~Skipped(path)
        PROVE  Clean(row.texts[path], process.backend)
    <3>1. PICK entities : entities = _detect_entities_skipping_structural(payload.texts, Engine(process.backend, raising))
      OBVIOUS
    <3>2. row = payload \/ row = [texts |-> _walk_and_redact(payload.texts, process.backend), mark |-> entities]
      BY <1>1, <3>1 DEF _redact_payload, Engine
    <3>3. row # payload
      BY <2>1, RedactionAssumption
    <3>4. row.texts = _walk_and_redact(payload.texts, process.backend)
      BY <3>2, <3>3
    <3>5. row.texts[path] = redact_text(payload.texts[path], process.backend)
      BY <2>1, <3>4 DEF _walk_and_redact
    <3>6. process.backend \in {"presidio", "regex"}
      BY DEF RestInv, EventTypes, Processes
    <3> QED BY <3>5, <3>6, RedactedIsClean
  <2> SUFFICES ASSUME NEW x \in events', x.mark \notin {NoMark, Supplied}, NEW path \in Paths, ~Skipped(path)
               PROVE  Clean(x.texts[path], x.backend)
    BY DEF Redacted
  <2>2. CASE x = e
    BY <1>3, <2>1, <2>2
  <2>3. CASE x \in events
    BY <2>3 DEF RestInv, Redacted
  <2> QED BY <1>3, <2>2, <2>3
<1>6. ASSUME ScanShape(scan), Accounted(scan) PROVE ScanShape(scan)' /\ Accounted(scan)'
  <2>1. scan.seen \subseteq 1..stored /\ stored \in Nat
    BY <1>6 DEF ScanShape, RestInv, EventTypes
  <2>2. ScanShape(scan)'
    BY <1>3, <1>6, <2>1 DEF ScanShape
  <2>3. \A x \in events' : x.id \in scan.seen => x \in events
    BY <1>3, <2>1
  <2> QED BY <1>3, <1>6, <2>2, <2>3, AccountedStays
<1> QED BY <1>3, <1>4, <1>5, <1>6 DEF RestInv

LEMMA RestartInv == ASSUME RestInv, NEW p \in Processes, Restart(p) PROVE RestInv'
<1>1. process' = p /\ UNCHANGED <<runRows, events, memory, flags, scan, stored, scans>>
  BY DEF Restart
<1>2. EventTypes' /\ Redacted'
  BY <1>1 DEF RestInv, EventTypes, Redacted
<1>3. ASSUME ScanShape(scan), Accounted(scan) PROVE ScanShape(scan)' /\ Accounted(scan)'
  BY <1>1, <1>3, AccountedStays DEF ScanShape
<1> QED BY <1>1, <1>2, <1>3 DEF RestInv

LEMMA ScanEventsInv ==
    ASSUME RestInv, NEW tenant, NEW engine, NEW since, scan_events(tenant, engine, since)
    PROVE  RestInv'
<1> DEFINE seenRows == {e \in events : TenantOf[e.run] = tenant /\ e.id >= since}
           Of(run) == {e \in seenRows : e.run = run /\ Found(e, engine) # {}}
<1>1. PICK s : s = scan'
  OBVIOUS
<1>2. PICK f : f = [run \in {r \in Runs : Of(r) # {}} |-> Counts(Of(run), engine)]
  OBVIOUS
<1>3. /\ s = [pc |-> "memory", tenant |-> tenant, engine |-> engine, seen |-> {e.id : e \in seenRows}, failed |-> {}, findings |-> f]
      /\ UNCHANGED <<process, runRows, events, memory, flags, stored>>
  BY <1>1, <1>2 DEF scan_events, Found
<1>4. /\ s.pc = "memory" /\ s.tenant = tenant /\ s.engine = engine /\ s.seen = {e.id : e \in seenRows} /\ s.failed = {}
      /\ s.findings = f
  BY <1>3
<1>5. EventTypes' /\ Redacted'
  BY <1>3 DEF RestInv, EventTypes, Redacted
<1>6. \A e \in events : e.id \in s.seen => e \in seenRows
  BY <1>4 DEF RestInv, EventTypes
<1>7. s.seen \subseteq 1..stored
  BY <1>4 DEF RestInv, EventTypes
<1>8. \A e \in seenRows : Found(e, engine) # {} => e \in Of(e.run) /\ e.run \in Runs
  BY DEF RestInv, EventTypes
<1> HIDE DEF seenRows, Of
<1>9. DOMAIN f = {r \in Runs : Of(r) # {}} /\ \A run \in DOMAIN f : f[run] = Counts(Of(run), engine)
  BY <1>2
<1>10. ScanShape(s)
  BY <1>3, <1>4, <1>7 DEF ScanShape
<1>11. ASSUME NEW e \in events, ToFind(e, s) PROVE Counted(e, s)
  <2>1. e \in seenRows /\ Found(e, engine) # {}
    BY <1>4, <1>6, <1>11 DEF ToFind
  <2>2. e \in Of(e.run) /\ e.run \in Runs
    BY <1>8, <2>1
  <2>3. e.run \in DOMAIN f /\ f[e.run] = Counts(Of(e.run), engine)
    BY <1>9, <2>2
  <2>4. Found(e, engine) \subseteq DOMAIN Counts(Of(e.run), engine)
    BY <2>2, CountsAre
  <2> QED BY <1>4, <2>3, <2>4 DEF Counted
<1>12. ScanShape(scan)' /\ Accounted(scan)'
  BY <1>1, <1>3, <1>10, <1>11 DEF ScanShape, Accounted
<1> QED BY <1>5, <1>12 DEF RestInv

\* Memory only adds to the counts.
LEMMA ScanMemoryInv == ASSUME RestInv, NEW table_exists, NEW engine, scan_memory(table_exists, engine) PROVE RestInv'
<1> DEFINE Row(m) == [id |-> m.id, texts |-> m.flags.texts, mark |-> m.flags.mark]
           found == {m \in memory : /\ table_exists /\ m.run \in Runs /\ TenantOf[m.run] = scan.tenant
                                    /\ Found(Row(m), engine) # {}}
           Of(run) == {Row(m) : m \in {n \in found : n.run = run}}
           Before(run) == IF run \in DOMAIN scan.findings THEN scan.findings[run] ELSE EmptyBag
<1>1. scan.pc = "memory" /\ scan # NoScan /\ ScanShape(scan) /\ Accounted(scan)
  BY DEF scan_memory, RestInv, NoScan
<1>2. PICK D : D = DOMAIN scan.findings \cup {m.run : m \in found}
  OBVIOUS
<1>3. PICK f : f = [run \in D |-> Before(run) (+) Counts(Of(run), engine)]
  OBVIOUS
<1>4. /\ scan' = [scan EXCEPT !.pc = "persist", !.findings = f]
      /\ UNCHANGED <<process, runRows, events, memory, flags, stored>>
  BY <1>2, <1>3 DEF scan_memory, Found
<1> HIDE DEF found, Row, Of
<1>5. PICK s : s = scan'
  OBVIOUS
<1>6. /\ s = [pc |-> "persist", tenant |-> s.tenant, engine |-> s.engine, seen |-> s.seen, failed |-> s.failed, findings |-> s.findings]
      /\ s.pc = "persist" /\ s.engine = scan.engine /\ s.seen = scan.seen /\ s.failed = scan.failed /\ s.findings = f
  <2>1. PICK q : q = scan
    OBVIOUS
  <2>2. q = [pc |-> q.pc, tenant |-> q.tenant, engine |-> q.engine, seen |-> q.seen, failed |-> q.failed, findings |-> q.findings]
    BY <1>1, <2>1 DEF ScanShape
  <2>3. s = [q EXCEPT !.pc = "persist", !.findings = f]
    BY <1>4, <1>5, <2>1
  <2> QED BY <2>1, <2>2, <2>3
<1>7. ScanShape(s)
  BY <1>1, <1>6 DEF ScanShape
<1>8. ASSUME NEW e \in events, Counted(e, scan) PROVE Counted(e, s)
  <2>1. e.run \in DOMAIN scan.findings /\ e.run \in D
    BY <1>2, <1>8 DEF Counted
  <2>2. f[e.run] = scan.findings[e.run] (+) Counts(Of(e.run), engine)
    BY <1>3, <2>1
  <2>3. DOMAIN scan.findings[e.run] \subseteq DOMAIN f[e.run]
    BY <2>2, SumKeeps
  <2>4. e.run \in DOMAIN f
    BY <1>3, <2>1
  <2> QED BY <1>6, <1>8, <2>3, <2>4 DEF Counted
<1>9. ASSUME NEW e \in events, ToFind(e, s)
      PROVE  Counted(e, s) \/ e.run \in s.failed \/ Flagged(e, Found(e, s.engine))
  <2>1. ToFind(e, scan)
    BY <1>6, <1>9 DEF ToFind
  <2> QED BY <1>1, <1>6, <1>8, <2>1 DEF Accounted
<1>10. EventTypes' /\ Redacted'
  BY <1>4 DEF RestInv, EventTypes, Redacted
<1>11. ScanShape(scan)' /\ Accounted(scan)'
  BY <1>4, <1>5, <1>7, <1>9 DEF ScanShape, Accounted, Flagged
<1> QED BY <1>10, <1>11 DEF RestInv

\* A run that leaves the findings is in a flag with its counts, or among the failures.
LEMMA WithoutRun ==
    ASSUME RestInv, scan.pc = "persist", NEW run \in DOMAIN scan.findings, NEW s, NEW more,
           s = [pc |-> scan.pc, tenant |-> scan.tenant, engine |-> scan.engine, seen |-> scan.seen,
                failed |-> scan.failed \cup more, findings |-> Without(run)]
    PROVE  /\ ScanShape(s) /\ s.pc = "persist" /\ s.seen = scan.seen /\ s.engine = scan.engine /\ s.failed = scan.failed \cup more
           /\ DOMAIN s.findings = DOMAIN scan.findings \ {run}
           /\ \A r \in DOMAIN s.findings : s.findings[r] = scan.findings[r]
<1>1. ScanShape(scan)
  BY DEF RestInv, NoScan
<1>2. PICK f : f = Without(run)
  OBVIOUS
<1>3. DOMAIN f = DOMAIN scan.findings \ {run} /\ \A r \in DOMAIN f : f[r] = scan.findings[r]
  BY <1>2 DEF Without, Restrict
<1>4. /\ s = [pc |-> s.pc, tenant |-> s.tenant, engine |-> s.engine, seen |-> s.seen, failed |-> s.failed, findings |-> s.findings]
      /\ s.pc = "persist" /\ s.engine = scan.engine /\ s.seen = scan.seen /\ s.failed = scan.failed \cup more /\ s.findings = f
  BY <1>2
<1>5. ScanShape(s)
  BY <1>1, <1>3, <1>4 DEF ScanShape
<1> QED BY <1>3, <1>4, <1>5

LEMMA PersistInv == ASSUME RestInv, NEW run \in Runs, Persist(run) PROVE RestInv'
<1>1. /\ scan.pc = "persist" /\ run \in DOMAIN scan.findings
      /\ UNCHANGED <<process, runRows, events, memory, stored, scans>>
  BY DEF Persist
<1>2. PICK s : s = scan'
  OBVIOUS
<1>3. ScanShape(scan) /\ Accounted(scan)
  BY <1>1 DEF RestInv, NoScan
<1>4. s = [pc |-> scan.pc, tenant |-> scan.tenant, engine |-> scan.engine, seen |-> scan.seen,
           failed |-> scan.failed \cup {}, findings |-> Without(run)]
  <2>1. PICK q : q = scan
    OBVIOUS
  <2>2. q = [pc |-> q.pc, tenant |-> q.tenant, engine |-> q.engine, seen |-> q.seen, failed |-> q.failed, findings |-> q.findings]
    BY <1>3, <2>1 DEF ScanShape
  <2>3. PICK f : f = Without(run)
    OBVIOUS
  <2>4. s = [q EXCEPT !.findings = f]
    BY <1>2, <2>1, <2>3 DEF Persist
  <2>5. q.failed \cup {} = q.failed
    OBVIOUS
  <2>6. s = [pc |-> q.pc, tenant |-> q.tenant, engine |-> q.engine, seen |-> q.seen, failed |-> q.failed, findings |-> f]
    BY <2>2, <2>4
  <2> QED BY <2>1, <2>3, <2>5, <2>6
<1>5. /\ ScanShape(s) /\ s.seen = scan.seen /\ s.engine = scan.engine /\ s.failed = scan.failed \cup {}
      /\ DOMAIN s.findings = DOMAIN scan.findings \ {run}
      /\ \A r \in DOMAIN s.findings : s.findings[r] = scan.findings[r]
  BY <1>1, <1>4, WithoutRun
<1>6. PICK sev : sev = severity_hint(scan.findings[run])
  OBVIOUS
<1>7. PICK f : f = [run |-> run, counts |-> scan.findings[run], severity |-> sev]
  OBVIOUS
<1>8. flags' = flags \cup {f} /\ f.run = run /\ f.counts = scan.findings[run]
  BY <1>6, <1>7 DEF Persist
<1>9. ASSUME NEW e \in events, ToFind(e, s)
      PROVE  Counted(e, s) \/ e.run \in s.failed \/ \E x \in flags' : x.run = e.run /\ Found(e, s.engine) \subseteq DOMAIN x.counts
  <2>1. ToFind(e, scan)
    BY <1>5, <1>9 DEF ToFind
  <2>2. CASE e.run \in scan.failed
    BY <1>5, <2>2
  <2>3. CASE Flagged(e, Found(e, scan.engine))
    BY <1>5, <1>8, <2>3 DEF Flagged
  <2>4. CASE Counted(e, scan)
    BY <1>5, <1>8, <2>4 DEF Counted
  <2> QED BY <1>3, <2>1, <2>2, <2>3, <2>4 DEF Accounted
<1>10. EventTypes' /\ Redacted'
  BY <1>1 DEF RestInv, EventTypes, Redacted
<1>11. ScanShape(scan)' /\ Accounted(scan)'
  BY <1>1, <1>2, <1>5, <1>9 DEF ScanShape, Accounted, Flagged
<1> QED BY <1>10, <1>11 DEF RestInv

LEMMA PersistFailsInv == ASSUME RestInv, NEW run \in Runs, PersistFails(run) PROVE RestInv'
<1>1. /\ scan.pc = "persist" /\ run \in DOMAIN scan.findings
      /\ UNCHANGED <<process, runRows, events, memory, flags, stored, scans>>
  BY DEF PersistFails
<1>2. PICK s : s = scan'
  OBVIOUS
<1>3. ScanShape(scan) /\ Accounted(scan)
  BY <1>1 DEF RestInv, NoScan
<1>4. s = [pc |-> scan.pc, tenant |-> scan.tenant, engine |-> scan.engine, seen |-> scan.seen,
           failed |-> scan.failed \cup {run}, findings |-> Without(run)]
  <2>1. PICK q : q = scan
    OBVIOUS
  <2>2. q = [pc |-> q.pc, tenant |-> q.tenant, engine |-> q.engine, seen |-> q.seen, failed |-> q.failed, findings |-> q.findings]
    BY <1>3, <2>1 DEF ScanShape
  <2>3. PICK f : f = Without(run)
    OBVIOUS
  <2>4. s = [q EXCEPT !.findings = f, !.failed = @ \cup {run}]
    BY <1>2, <2>1, <2>3 DEF PersistFails
  <2>5. s = [pc |-> q.pc, tenant |-> q.tenant, engine |-> q.engine, seen |-> q.seen, failed |-> q.failed \cup {run}, findings |-> f]
    BY <2>2, <2>4
  <2> QED BY <2>1, <2>3, <2>5
<1>5. /\ ScanShape(s) /\ s.seen = scan.seen /\ s.engine = scan.engine /\ s.failed = scan.failed \cup {run}
      /\ DOMAIN s.findings = DOMAIN scan.findings \ {run}
      /\ \A r \in DOMAIN s.findings : s.findings[r] = scan.findings[r]
  <2>1. PICK more : more = {run}
    OBVIOUS
  <2> QED BY <1>1, <1>4, <2>1, WithoutRun
<1>6. ASSUME NEW e \in events, ToFind(e, s)
      PROVE  Counted(e, s) \/ e.run \in s.failed \/ Flagged(e, Found(e, s.engine))
  <2>1. ToFind(e, scan)
    BY <1>5, <1>6 DEF ToFind
  <2>2. CASE Counted(e, scan)
    BY <1>5, <2>2 DEF Counted
  <2> QED BY <1>3, <1>5, <2>1, <2>2 DEF Accounted
<1>7. EventTypes' /\ Redacted'
  BY <1>1 DEF RestInv, EventTypes, Redacted
<1>8. ScanShape(scan)' /\ Accounted(scan)'
  BY <1>1, <1>2, <1>5, <1>6 DEF ScanShape, Accounted, Flagged
<1> QED BY <1>7, <1>8 DEF RestInv

LEMMA ScanCompletedInv == ASSUME RestInv, ScanCompleted PROVE RestInv'
<1>1. /\ scan.pc = "persist" /\ DOMAIN scan.findings = {}
      /\ UNCHANGED <<process, runRows, events, memory, flags, stored, scans>>
  BY DEF ScanCompleted
<1>2. PICK s : s = scan'
  OBVIOUS
<1>3. ScanShape(scan) /\ Accounted(scan)
  BY <1>1 DEF RestInv, NoScan
<1>4. PICK q : q = scan
  OBVIOUS
<1>5. q = [pc |-> q.pc, tenant |-> q.tenant, engine |-> q.engine, seen |-> q.seen, failed |-> q.failed, findings |-> q.findings]
  BY <1>3, <1>4 DEF ScanShape
<1>6. s = [q EXCEPT !.pc = "done"]
  BY <1>2, <1>4 DEF ScanCompleted
<1>7. /\ s = [pc |-> s.pc, tenant |-> s.tenant, engine |-> s.engine, seen |-> s.seen, failed |-> s.failed, findings |-> s.findings]
      /\ s.pc = "done" /\ s.engine = scan.engine /\ s.seen = scan.seen /\ s.failed = scan.failed /\ s.findings = scan.findings
  BY <1>4, <1>5, <1>6
<1>8. ScanShape(s)
  BY <1>1, <1>3, <1>7 DEF ScanShape
<1>9. Accounted(s)
  BY <1>3, <1>7 DEF Accounted, ToFind, Counted
<1>10. EventTypes' /\ Redacted'
  BY <1>1 DEF RestInv, EventTypes, Redacted
<1>11. ScanShape(scan)' /\ Accounted(scan)'
  BY <1>1, <1>2, <1>8, <1>9 DEF ScanShape, Accounted, Flagged
<1> QED BY <1>10, <1>11 DEF RestInv

LEMMA ResetInv == ASSUME RestInv, reset_demo_data PROVE RestInv'
<1>1. events' = {} /\ memory' = {} /\ flags' = {} /\ UNCHANGED <<process, scan, stored, scans>>
  BY DEF reset_demo_data
<1>2. EventTypes' /\ Redacted' /\ Accounted(scan)'
  BY <1>1, FS_EmptySet DEF RestInv, EventTypes, Redacted, Accounted
<1>3. ASSUME ScanShape(scan) PROVE ScanShape(scan)'
  BY <1>1, <1>3 DEF ScanShape
<1> QED BY <1>1, <1>2, <1>3 DEF RestInv

(* Whatever engines redactor and scanner ran with and at whichever texts    *)
(* Presidio raised, for any number of runs, events, memory entries and      *)
(* scans, and through restarts, resets and flags that could not be written: *)
(* what a scan's engine matches in an unmarked event that it read is in a   *)
(* flag of the run or the run known to have failed, and an event that the   *)
(* redactor marked is clean for the redactor's own engine outside the       *)
(* structural keys.  Nothing is claimed of events that came with a mark.    *)
THEOREM LeaksAlwaysSurface == Spec => []LeaksSurface
<1>1. Init => RestInv
  BY FS_EmptySet DEF Init, RestInit, RestInv, EventTypes, Redacted
<1>2. RestInv /\ [Next]_vars => RestInv'
  <2> SUFFICES ASSUME RestInv, [Next]_vars PROVE RestInv'
    OBVIOUS
  <2>1. CASE RestNext
    BY <2>1, StoreEventInv, RestartInv, ScanEventsInv, ScanMemoryInv, PersistInv, PersistFailsInv, ScanCompletedInv, ResetInv
       DEF RestNext, run_pii_scanner, main, run_scan
  <2>2. CASE UNCHANGED restVars
    <3>1. UNCHANGED <<process, runRows, events, memory, flags, scan, stored, scans>>
      BY <2>2 DEF restVars
    <3>2. EventTypes' /\ Redacted'
      BY <3>1 DEF RestInv, EventTypes, Redacted
    <3>3. ASSUME ScanShape(scan), Accounted(scan) PROVE ScanShape(scan)' /\ Accounted(scan)'
      BY <3>1, <3>3, AccountedStays DEF ScanShape
    <3> QED BY <3>1, <3>2, <3>3 DEF RestInv
  <2>3. RestNext \/ UNCHANGED restVars
    BY DEF Next, vars
  <2> QED BY <2>1, <2>2, <2>3
<1>3. RestInv => LeaksSurface
  <2> SUFFICES ASSUME RestInv PROVE LeaksSurface
    OBVIOUS
  <2>1. ASSUME scan.pc = "done", NEW e \in events, e.id \in scan.seen, Found(e, scan.engine) # {}
        PROVE  e.run \in scan.failed \/ Flagged(e, Found(e, scan.engine))
    <3>1. ScanShape(scan) /\ Accounted(scan)
      BY <2>1 DEF RestInv, NoScan
    <3>2. ToFind(e, scan)
      BY <2>1 DEF ToFind, Found, _extract_entities_from_payload
    <3>3. ~Counted(e, scan)
      BY <2>1, <3>1 DEF ScanShape, Counted
    <3> QED BY <3>1, <3>2, <3>3 DEF Accounted
  <2> QED BY <2>1 DEF LeaksSurface, RestInv, Redacted, Found
<1> QED BY <1>1, <1>2, <1>3, PTL DEF Spec

-----------------------------------------------------------------------------
(* Searches: the filter that is compiled has the conditions the caller      *)
(* wrote, the last of each field, and the connection is in the scope of the *)
(* request's tenant from its arrival to its answer.                         *)

GoodQuery(q) ==
    /\ DOMAIN q = {"resource", "filter", "limit", "order_by", "desc"}
    /\ q.resource \in {"events", "flags"} /\ q.limit \in Int
    /\ Len(q.filter) \in Nat /\ DOMAIN q.filter = 1..Len(q.filter)

\* After i pairs: every field named so far, with the value it was last given.
LastOf(q, f, i) ==
    /\ DOMAIN f = {Field(q, j) : j \in 1..i}
    /\ \A x \in DOMAIN f : \E j \in 1..i : Field(q, j) = x /\ f[x] = q.filter[j].ops /\ \A k \in j+1..i : Field(q, k) # x


\* One turn of the loop, and what the loop computes.
Turn(q, f, i) == [x \in DOMAIN f \cup {Field(q, i)} |-> IF x = Field(q, i) THEN q.filter[i].ops ELSE f[x]]
Loop(q, g, n) == g = [i \in 0..n |-> IF i = 0 THEN <<>> ELSE Turn(q, g[i - 1], i)]

LEMMA TurnKeeps ==
    ASSUME NEW q, NEW f, NEW i \in Nat, LastOf(q, f, i)
    PROVE  LastOf(q, Turn(q, f, i + 1), i + 1)
<1>1. PICK g : g = Turn(q, f, i + 1)
  OBVIOUS
<1>2. PICK y : y = Field(q, i + 1)
  OBVIOUS
<1>3. PICK o : o = q.filter[i + 1].ops
  OBVIOUS
<1>4. g = [x \in DOMAIN f \cup {y} |-> IF x = y THEN o ELSE f[x]]
  BY <1>1, <1>2, <1>3 DEF Turn
<1>5. 1..i+1 = 1..i \cup {i + 1}
  OBVIOUS
<1>6. DOMAIN g = {Field(q, j) : j \in 1..i+1}
  BY <1>2, <1>4, <1>5 DEF LastOf
<1>7. ASSUME NEW x \in DOMAIN g
      PROVE  \E j \in 1..i+1 : Field(q, j) = x /\ g[x] = q.filter[j].ops /\ \A k \in j+1..i+1 : Field(q, k) # x
  <2>1. CASE x = y
    <3>1. g[x] = o /\ i + 1 \in 1..i+1 /\ (i + 1) + 1..i+1 = {}
      BY <1>4, <2>1
    <3> QED BY <1>2, <1>3, <2>1, <3>1
  <2>2. CASE x # y
    <3>1. x \in DOMAIN f /\ g[x] = f[x]
      BY <1>4, <2>2
    <3>2. PICK j \in 1..i : Field(q, j) = x /\ f[x] = q.filter[j].ops /\ \A k \in j+1..i : Field(q, k) # x
      BY <3>1 DEF LastOf
    <3>3. ASSUME NEW k \in j+1..i+1 PROVE Field(q, k) # x
      <4>1. k \in j+1..i \/ k = i + 1
        OBVIOUS
      <4> QED BY <1>2, <2>2, <3>2, <4>1
    <3> QED BY <1>5, <3>1, <3>2, <3>3
  <2> QED BY <2>1, <2>2
<1> QED BY <1>1, <1>6, <1>7 DEF LastOf

\* Induction, as a fact about sets: a set of numbers that lacks one lacks a least one.
LEMMA EveryNumber ==
    ASSUME NEW S, 0 \in S, \A n \in Nat : n \in S => n + 1 \in S
    PROVE  \A n \in Nat : n \in S
<1> DEFINE T == Nat \ S
           R == OpToRel(<, Nat)
<1> SUFFICES ASSUME T # {} PROVE FALSE
  OBVIOUS
<1>1. IsWellFoundedOn(R, Nat)
  BY NatLessThanWellFounded
<1> HIDE DEF R
<1>2. PICK x \in T : \A y \in T : ~(<<y, x>> \in R)
  BY <1>1, WFMin
<1>3. \A y \in T : ~(y < x)
  BY <1>2 DEF R, OpToRel
<1>4. x \in Nat /\ x # 0 /\ x \notin S
  OBVIOUS
<1>5. x - 1 \in Nat /\ x - 1 < x /\ (x - 1) + 1 = x
  BY <1>4
<1>6. x - 1 \in S
  BY <1>3, <1>5
<1> QED BY <1>4, <1>5, <1>6

LEMMA LoopExists == ASSUME NEW q PROVE \A n \in Nat : \E g : Loop(q, g, n)
<1>1. PICK S : S = {n \in Nat : \E g : Loop(q, g, n)}
  OBVIOUS
<1>2. 0 \in S
  <2>1. PICK g : g = [i \in 0..0 |-> <<>>]
    OBVIOUS
  <2>2. 0..0 = {0}
    OBVIOUS
  <2>3. Loop(q, g, 0)
    BY <2>1, <2>2 DEF Loop
  <2> QED BY <1>1, <2>3
<1>3. ASSUME NEW m \in Nat, m \in S PROVE m + 1 \in S
  <2>1. PICK g : Loop(q, g, m)
    BY <1>1, <1>3
  <2>2. PICK h : h = [i \in 0..m+1 |-> IF i = m + 1 THEN Turn(q, g[m], m + 1) ELSE g[i]]
    OBVIOUS
  <2>3. \A i \in 0..m : h[i] = g[i]
    BY <2>2
  <2>4. h[m + 1] = Turn(q, g[m], m + 1)
    BY <2>2
  <2>5. DOMAIN h = 0..m+1 /\ h = [i \in DOMAIN h |-> h[i]]
    BY <2>2
  <2>6. \A i \in 0..m : g[i] = IF i = 0 THEN <<>> ELSE Turn(q, g[i - 1], i)
    BY <2>1 DEF Loop
  <2>7. ASSUME NEW i \in 0..m+1 PROVE h[i] = IF i = 0 THEN <<>> ELSE Turn(q, h[i - 1], i)
    <3>1. CASE i = m + 1
      <4>1. i # 0 /\ i - 1 = m /\ m \in 0..m
        BY <3>1
      <4> QED BY <2>3, <2>4, <3>1, <4>1
    <3>2. CASE i = 0
      BY <2>3, <2>6, <3>2
    <3>3. CASE i \in 1..m
      <4>1. i \in 0..m /\ i - 1 \in 0..m /\ i # 0
        BY <3>3
      <4> QED BY <2>3, <2>6, <4>1
    <3> QED BY <3>1, <3>2, <3>3
  <2>8. Loop(q, h, m + 1)
    BY <2>5, <2>7 DEF Loop
  <2> QED BY <1>1, <2>8
<1>4. \A n \in Nat : n \in S
  BY <1>2, <1>3, EveryNumber
<1> QED BY <1>1, <1>4

LEMMA LoopRight == ASSUME NEW q, NEW n \in Nat, NEW g, Loop(q, g, n) PROVE \A i \in 0..n : LastOf(q, g[i], i)
<1>1. PICK S : S = {i \in Nat : i <= n => LastOf(q, g[i], i)}
  OBVIOUS
<1>2. \A i \in 0..n : g[i] = IF i = 0 THEN <<>> ELSE Turn(q, g[i - 1], i)
  BY DEF Loop
<1>3. 0 \in S
  <2>1. DOMAIN g[0] = {} /\ 1..0 = {}
    BY <1>2
  <2>2. LastOf(q, g[0], 0)
    BY <2>1 DEF LastOf
  <2> QED BY <1>1, <2>2
<1>4. ASSUME NEW i \in Nat, i \in S PROVE i + 1 \in S
  <2> SUFFICES ASSUME i + 1 <= n PROVE LastOf(q, g[i + 1], i + 1)
    BY <1>1
  <2>1. i \in 0..n /\ i + 1 \in 0..n /\ i + 1 # 0 /\ (i + 1) - 1 = i
    OBVIOUS
  <2>2. LastOf(q, g[i], i)
    BY <1>1, <1>4, <2>1
  <2>3. g[i + 1] = Turn(q, g[i], i + 1)
    BY <1>2, <2>1
  <2> QED BY <2>2, <2>3, TurnKeeps
<1>5. \A i \in Nat : i \in S
  BY <1>3, <1>4, EveryNumber
<1> QED BY <1>1, <1>5

LEMMA Normalised == ASSUME NEW q, Len(q.filter) \in Nat PROVE LastOf(q, _normalise_filter_keys(q), Len(q.filter))
<1>1. PICK n : n = Len(q.filter)
  OBVIOUS
<1>2. PICK u : u = CHOOSE g : Loop(q, g, n)
  OBVIOUS
<1>3. _normalise_filter_keys(q) = u[n]
  BY <1>1, <1>2 DEF _normalise_filter_keys, Loop, Turn, Field
<1>4. \E g : Loop(q, g, n)
  BY <1>1, LoopExists
<1>5. Loop(q, u, n)
  BY <1>2, <1>4
<1>6. n \in Nat /\ n \in 0..n
  BY <1>1
<1>7. LastOf(q, u[n], n)
  BY <1>5, <1>6, LoopRight
<1> QED BY <1>1, <1>3, <1>7

\* The WHERE clause is the conjunction of the conditions that apply.
LEMMA WhereIsWanted == ASSUME NEW q, GoodQuery(q), NEW row PROVE Where(q, row) <=> Wanted(q, row)
<1>1. PICK n : n = Len(q.filter)
  OBVIOUS
<1>2. n \in Nat /\ DOMAIN q.filter = 1..n
  BY <1>1 DEF GoodQuery
<1>3. PICK f : f = _normalise_filter_keys(q)
  OBVIOUS
<1>4. LastOf(q, f, n)
  BY <1>1, <1>2, <1>3, Normalised
<1>5. PICK cols : cols = _ALLOWLIST(q.resource)
  OBVIOUS
<1>6. PICK g : g = Filtering(q)
  OBVIOUS
<1>7. DOMAIN g = {x \in DOMAIN f : cols[x] # "TRUE"} /\ \A x \in DOMAIN g : g[x] = f[x]
  BY <1>3, <1>5, <1>6 DEF Filtering, Restrict
<1>8. Where(q, row) <=> \A x \in DOMAIN g : _apply_operator(row, cols[x], f[x])
  BY <1>5, <1>6, <1>7 DEF Where
<1>9. Wanted(q, row) <=>
        \A i \in 1..n : (cols[Field(q, i)] # "TRUE" /\ ~\E j \in 1..n : j > i /\ Field(q, j) = Field(q, i))
                           => _apply_operator(row, cols[Field(q, i)], q.filter[i].ops)
  BY <1>2, <1>5 DEF Wanted, Applies
<1>10. ASSUME Where(q, row), NEW i \in 1..n, cols[Field(q, i)] # "TRUE", ~\E j \in 1..n : j > i /\ Field(q, j) = Field(q, i)
       PROVE  _apply_operator(row, cols[Field(q, i)], q.filter[i].ops)
  <2>1. Field(q, i) \in DOMAIN f
    BY <1>4 DEF LastOf
  <2>2. PICK j \in 1..n : Field(q, j) = Field(q, i) /\ f[Field(q, i)] = q.filter[j].ops /\ \A k \in j+1..n : Field(q, k) # Field(q, i)
    BY <1>4, <2>1 DEF LastOf
  <2>3. ~(j > i) /\ ~(i \in j+1..n)
    BY <1>10, <2>2
  <2>4. j = i
    BY <1>2, <2>3
  <2> QED BY <1>7, <1>8, <1>10, <2>1, <2>2, <2>4
<1>11. ASSUME Wanted(q, row), NEW x \in DOMAIN g PROVE _apply_operator(row, cols[x], f[x])
  <2>1. x \in DOMAIN f /\ cols[x] # "TRUE"
    BY <1>7
  <2>2. PICK j \in 1..n : Field(q, j) = x /\ f[x] = q.filter[j].ops /\ \A k \in j+1..n : Field(q, k) # x
    BY <1>4, <2>1 DEF LastOf
  <2>3. ~\E k \in 1..n : k > j /\ Field(q, k) = Field(q, j)
    <3> SUFFICES ASSUME NEW k \in 1..n, k > j PROVE Field(q, k) # x
      BY <2>2
    <3>1. k \in j+1..n
      BY <1>2
    <3> QED BY <2>2, <3>1
  <2> QED BY <1>9, <1>11, <2>1, <2>2, <2>3
<1> QED BY <1>8, <1>9, <1>10, <1>11

\* The rows run_query may return of those that match.
LEMMA SelectionsExact ==
    ASSUME NEW q, GoodQuery(q), Compiles(q), NEW mine, IsFiniteSet(mine), \A row \in mine : row.ts \in Int,
           NEW R \in Selections(q, {row \in mine : Wanted(q, row)})
    PROVE  Exact(q, R, mine) /\ R \subseteq mine
<1>1. PICK S : S = {row \in mine : Wanted(q, row)}
  OBVIOUS
<1>2. IsFiniteSet(S) /\ S \subseteq mine
  BY <1>1, FS_Subset
<1>3. /\ R \subseteq S /\ Cardinality(R) = Min({_cap_limit(q.limit), Cardinality(S)})
      /\ \A row \in S \ R : \A kept \in R : ~Precedes(q, row, kept)
  BY <1>1 DEF Selections
<1>4. PICK cap : cap = _cap_limit(q.limit)
  OBVIOUS
<1>5. PICK size : size = Cardinality(S)
  OBVIOUS
<1>6. cap \in Int /\ size \in Nat
  BY <1>2, <1>4, <1>5, FS_CardinalityType, SearchAssumption DEF GoodQuery, _cap_limit
<1>7. Min({cap, size}) \in {cap, size}
  <2>1. \E x \in {cap, size} : \A y \in {cap, size} : x <= y
    BY <1>6
  <2> QED BY <2>1 DEF Min
<1>8. ASSUME Cardinality(R) < cap PROVE S \subseteq R
  <2>1. Cardinality(R) = size
    BY <1>3, <1>4, <1>5, <1>6, <1>7, <1>8
  <2>2. S = R
    BY <1>2, <1>3, <1>5, <2>1, FS_Subset
  <2> QED BY <2>2
<1>9. ASSUME q.order_by \in {"ts", "created_at"}, NEW row \in R, NEW other \in S \ R
      PROVE  IF q.desc THEN other.ts <= row.ts ELSE other.ts >= row.ts
  <2>1. q.order_by # Null
    BY <1>9, SearchAssumption
  <2>2. q.order_by \in DOMAIN _ALLOWLIST(q.resource)
    BY <2>1 DEF Compiles
  <2>3. _ALLOWLIST(q.resource)[q.order_by] = "ts"
    BY <1>9, <2>2 DEF _ALLOWLIST, GoodQuery
  <2>4. ~Precedes(q, other, row)
    BY <1>3
  <2>5. ~IF q.desc THEN other["ts"] > row["ts"] ELSE other["ts"] < row["ts"]
    BY <2>1, <2>3, <2>4 DEF Precedes
  <2>6. other.ts \in Int /\ row.ts \in Int
    BY <1>2, <1>3
  <2> QED BY <2>5, <2>6
<1>10. Exact(q, R, mine)
  BY <1>1, <1>3, <1>4, <1>8, <1>9 DEF Exact
<1> QED BY <1>2, <1>3, <1>10

SearchInv ==
    /\ tables \in Tables
    /\ \A q \in saved : GoodQuery(q.query)
    /\ request.pc \in {"load", "select", "report", "answer"} =>
          /\ request.tenant \in Tenants /\ conn.role = "auditor_api" /\ conn.tenant = request.tenant
    /\ request.pc = "select" =>
          /\ GoodQuery(request.query) /\ Compiles(request.query)
          /\ request.from # Null => \E q \in saved : q.id = request.from /\ q.tenant_id = request.tenant
    /\ AnswersExact

\* In the scope of a tenant, its rows are what is visible.
LEMMA InScope ==
    ASSUME SearchInv, request.pc \in {"load", "select", "report"}, NEW S
    PROVE  Visible(S) = {row \in S : row.tenant_id = request.tenant}
  BY SearchAssumption DEF SearchInv, Visible, _create_policy

LEMMA ArrivesInv ==
    ASSUME SearchInv, NEW tenant \in Tenants, NEW body, Arrives(tenant, body),
           {"pc", "tenant"} \subseteq DOMAIN body, body.pc \in {"load", "select", "report"},
           body.pc = "select" => {"query", "from"} \subseteq DOMAIN body /\ GoodQuery(body.query) /\ Compiles(body.query) /\ body.from = Null
    PROVE  SearchInv'
<1>1. /\ request' = [body EXCEPT !.tenant = tenant] /\ conn' = [role |-> "auditor_api", tenant |-> tenant]
      /\ UNCHANGED <<tables, saved>>
  BY DEF Arrives, tenant_scope
<1>2. PICK r : r = request'
  OBVIOUS
<1>3. r.pc = body.pc /\ r.tenant = tenant /\ (body.pc = "select" => r.query = body.query /\ r.from = body.from)
  BY <1>1, <1>2
<1>4. conn'.role = "auditor_api" /\ conn'.tenant = tenant
  BY <1>1
<1> QED BY <1>1, <1>2, <1>3, <1>4 DEF SearchInv, AnswersExact

LEMMA SearchStep == ASSUME SearchInv, NEW tenant \in Tenants, NEW query \in Queries, search(tenant, query) PROVE SearchInv'
<1>1. PICK b : b = [pc |-> "select", tenant |-> Null, query |-> query, from |-> Null]
  OBVIOUS
<1>2. /\ {"pc", "tenant"} \subseteq DOMAIN b /\ {"query", "from"} \subseteq DOMAIN b
      /\ b.pc = "select" /\ b.query = query /\ b.from = Null
  BY <1>1
<1>3. GoodQuery(query)
  BY SearchAssumption DEF GoodQuery
<1>4. Compiles(query) /\ Arrives(tenant, b)
  BY <1>1 DEF search
<1> QED BY <1>2, <1>3, <1>4, ArrivesInv

LEMMA CreateSavedQueryStep ==
    ASSUME SearchInv, NEW tenant \in Tenants, NEW body \in Stored, create_saved_query(tenant, body)
    PROVE  SearchInv'
<1>1. PICK s : s = [id |-> served + 1, tenant_id |-> tenant, query |-> body.query, params |-> body.params]
  OBVIOUS
<1>2. saved' = saved \cup {s} /\ s.query = body.query /\ request.pc = "none" /\ UNCHANGED <<tables, conn, request>>
  BY <1>1 DEF create_saved_query, _insert_saved_query
<1>3. GoodQuery(s.query)
  BY <1>2, SearchAssumption DEF GoodQuery
<1> QED BY <1>2, <1>3 DEF SearchInv, AnswersExact

LEMMA RunSavedQueryStep ==
    ASSUME SearchInv, NEW tenant \in Tenants, NEW id, NEW overrides, run_saved_query(tenant, id, overrides)
    PROVE  SearchInv'
<1>1. PICK b : b = [pc |-> "load", tenant |-> Null, id |-> id, overrides |-> overrides]
  OBVIOUS
<1>2. {"pc", "tenant"} \subseteq DOMAIN b /\ b.pc = "load"
  BY <1>1
<1>3. Arrives(tenant, b)
  BY <1>1 DEF run_saved_query
<1> QED BY <1>2, <1>3, ArrivesInv

LEMMA ReconstructStep ==
    ASSUME SearchInv, NEW tenant \in Tenants, NEW flag_id, reconstruct_incident(tenant, flag_id)
    PROVE  SearchInv'
<1>1. PICK b : b = [pc |-> "report", tenant |-> Null, flag_id |-> flag_id]
  OBVIOUS
<1>2. {"pc", "tenant"} \subseteq DOMAIN b /\ b.pc = "report"
  BY <1>1
<1>3. Arrives(tenant, b)
  BY <1>1 DEF reconstruct_incident
<1> QED BY <1>2, <1>3, ArrivesInv

\* Binding parameters leaves a query a query.
LEMMA BoundIsGood == ASSUME NEW q, GoodQuery(q), NEW params PROVE GoodQuery(_bind_params(q, params))
<1>1. PICK n : n = Len(q.filter)
  OBVIOUS
<1>2. n \in Nat /\ DOMAIN q.filter = 1..n
  BY <1>1 DEF GoodQuery
<1> DEFINE Ops(ops) == [op \in DOMAIN ops |-> IF op = "in" THEN {Bound(v, params) : v \in ops[op]} ELSE Bound(ops[op], params)]
<1>3. PICK f : f = [i \in DOMAIN q.filter |-> [q.filter[i] EXCEPT !.ops = Ops(q.filter[i].ops)]]
  OBVIOUS
<1>4. PICK b : b = [q EXCEPT !.filter = f]
  OBVIOUS
<1>5. _bind_params(q, params) = b
  BY <1>3, <1>4 DEF _bind_params
<1> HIDE DEF Ops
<1>6. DOMAIN f = 1..n
  BY <1>2, <1>3
<1>7. Len(f) = n
  BY <1>2, <1>6
<1>8. DOMAIN b = DOMAIN q /\ b.filter = f /\ b.resource = q.resource /\ b.limit = q.limit
  BY <1>4 DEF GoodQuery
<1>9. GoodQuery(b)
  BY <1>2, <1>6, <1>7, <1>8 DEF GoodQuery
<1> QED BY <1>5, <1>9

LEMMA LoadStep == ASSUME SearchInv, Load PROVE SearchInv'
<1>1. request.pc = "load" /\ UNCHANGED <<tables, conn, saved, served>>
  BY DEF Load
<1>2. PICK found : found = {q \in Visible(saved) : q.id = request.id}
  OBVIOUS
<1>3. PICK q : q = CHOOSE x \in found : TRUE
  OBVIOUS
<1>4. PICK query : query = _bind_params(q.query, Merged(q.params, request.overrides))
  OBVIOUS
<1>5. request' = IF found = {} \/ ~model_validate(query) \/ ~Compiles(query) THEN [pc |-> "error"]
                 ELSE [pc |-> "select", tenant |-> request.tenant, query |-> query, from |-> request.id]
  BY <1>2, <1>3, <1>4 DEF Load
<1>6. CASE request' = [pc |-> "error"]
  <2>1. request'.pc = "error"
    BY <1>6
  <2> QED BY <1>1, <2>1 DEF SearchInv, AnswersExact
<1>7. CASE request' # [pc |-> "error"]
  <2>1. /\ found # {} /\ Compiles(query)
        /\ request' = [pc |-> "select", tenant |-> request.tenant, query |-> query, from |-> request.id]
    BY <1>5, <1>7
  <2>2. q \in found
    BY <1>3, <2>1
  <2>3. q \in saved /\ q.tenant_id = request.tenant /\ q.id = request.id
    BY <1>1, <1>2, <2>2, InScope
  <2>4. GoodQuery(query)
    BY <1>4, <2>3, BoundIsGood DEF SearchInv
  <2>5. PICK r : r = request'
    OBVIOUS
  <2>6. r.pc = "select" /\ r.tenant = request.tenant /\ r.query = query /\ r.from = request.id
    BY <2>1, <2>5
  <2> QED BY <1>1, <2>1, <2>3, <2>4, <2>5, <2>6 DEF SearchInv, AnswersExact
<1> QED BY <1>6, <1>7

LEMMA RunQueryStep == ASSUME SearchInv, run_query PROVE SearchInv'
<1>1. request.pc = "select" /\ UNCHANGED <<tables, conn, saved, served>>
  BY DEF run_query
<1>2. PICK q : q = request.query
  OBVIOUS
<1>3. CASE request' = [pc |-> "error"]
  <2>1. request'.pc = "error"
    BY <1>3
  <2> QED BY <1>1, <2>1 DEF SearchInv, AnswersExact
<1>4. CASE request' # [pc |-> "error"]
  <2>1. PICK S : S = tables[q.resource]
    OBVIOUS
  <2>2. PICK R \in Selections(q, {row \in Visible(S) : Where(q, row)}) :
          request' = [pc |-> "answer", tenant |-> request.tenant, query |-> q, from |-> request.from, rows |-> R]
    BY <1>2, <1>4, <2>1 DEF run_query
  <2>3. GoodQuery(q) /\ Compiles(q)
    BY <1>1, <1>2 DEF SearchInv
  <2>4. PICK mine : mine = {row \in S : row.tenant_id = request.tenant}
    OBVIOUS
  <2>5. Visible(S) = mine
    BY <1>1, <2>4, InScope
  <2>6. {row \in Visible(S) : Where(q, row)} = {row \in mine : Wanted(q, row)}
    BY <2>3, <2>5, WhereIsWanted
  <2>7. IsFiniteSet(S) /\ \A row \in S : row.ts \in Int
    BY <2>1, <2>3, SearchAssumption DEF SearchInv, GoodQuery
  <2>8. IsFiniteSet(mine) /\ \A row \in mine : row.ts \in Int
    BY <2>4, <2>7, FS_Subset
  <2>9. Exact(q, R, mine) /\ R \subseteq mine
    BY <2>2, <2>3, <2>6, <2>8, SelectionsExact
  <2>10. PICK r : r = request'
    OBVIOUS
  <2>11. r.pc = "answer" /\ r.tenant = request.tenant /\ r.query = q /\ r.from = request.from /\ r.rows = R
    BY <2>2, <2>10
  <2>12. \A row \in r.rows : row.tenant_id = r.tenant
    BY <2>4, <2>9, <2>11
  <2>13. r.from # Null => \E x \in saved : x.id = r.from /\ x.tenant_id = r.tenant
    BY <1>1, <2>11 DEF SearchInv
  <2>14. Exact(r.query, r.rows, {row \in tables[r.query.resource] : row.tenant_id = r.tenant})
    BY <2>1, <2>4, <2>9, <2>11
  <2>15. AnswersExact'
    BY <1>1, <2>10, <2>12, <2>13, <2>14 DEF AnswersExact
  <2> QED BY <1>1, <2>10, <2>11, <2>15 DEF SearchInv
<1> QED BY <1>3, <1>4

LEMMA ReportStep == ASSUME SearchInv, Report PROVE SearchInv'
<1>1. request.pc = "report" /\ UNCHANGED <<tables, conn, saved, served>>
  BY DEF Report
<1>2. PICK flag : flag = {f \in Visible(tables.flags) : f.id = request.flag_id}
  OBVIOUS
<1>3. PICK events_ : events_ = {e \in Visible(tables.events) : \E f \in flag : e.run_id = f.run_id}
  OBVIOUS
<1>4. PICK hitl : hitl = {h \in tables.hitl_decisions : \E f \in flag : h.flag_id = f.id}
  OBVIOUS
<1>5. PICK R : R = flag \cup events_ \cup hitl
  OBVIOUS
<1>6. request' = [pc |-> "answer", tenant |-> request.tenant, query |-> Null, from |-> Null, rows |-> R]
  BY <1>2, <1>3, <1>4, <1>5 DEF Report
<1>7. PICK r : r = request'
  OBVIOUS
<1>8. r.pc = "answer" /\ r.tenant = request.tenant /\ r.query = Null /\ r.from = Null /\ r.rows = R
  BY <1>6, <1>7
<1>9. \A f \in flag : f \in tables.flags /\ f.tenant_id = request.tenant
  BY <1>1, <1>2, InScope
<1>10. \A e \in events_ : e.tenant_id = request.tenant
  BY <1>1, <1>3, InScope
<1>11. \A h \in hitl : h.tenant_id = request.tenant
  BY <1>4, <1>9, SearchAssumption DEF SearchInv
<1>12. \A row \in r.rows : row.tenant_id = r.tenant
  BY <1>5, <1>8, <1>9, <1>10, <1>11
<1> QED BY <1>1, <1>7, <1>8, <1>12 DEF SearchInv, AnswersExact

LEMMA CloseStep == ASSUME SearchInv, Close PROVE SearchInv'
<1>1. request' = NoRequest /\ UNCHANGED <<tables, saved, served>>
  BY DEF Close
<1>2. request'.pc = "none"
  BY <1>1 DEF NoRequest
<1> QED BY <1>1, <1>2 DEF SearchInv, AnswersExact

(* For any tenants, tables, queries, parameters and page size: an answer    *)
(* has the caller's tenant's rows and no others, those that its conditions  *)
(* call for, the last spelling of a field deciding, and the first of them   *)
(* where there are too many (search, run_saved_query, reconstruct_incident  *)
(* on a pooled connection).                                                 *)
THEOREM AnswersAreExact == Spec => []AnswersExact
<1>1. Init => SearchInv
  BY DEF Init, SearchInit, SearchInv, AnswersExact, NoRequest
<1>2. SearchInv /\ [Next]_vars => SearchInv'
  <2> SUFFICES ASSUME SearchInv, [Next]_vars PROVE SearchInv'
    OBVIOUS
  <2>1. CASE SearchNext
    BY <2>1, SearchStep, CreateSavedQueryStep, RunSavedQueryStep, ReconstructStep, LoadStep, RunQueryStep, ReportStep, CloseStep
       DEF SearchNext
  <2>2. CASE UNCHANGED searchVars
    BY <2>2 DEF searchVars, SearchInv, AnswersExact
  <2>3. SearchNext \/ UNCHANGED searchVars
    BY DEF Next, vars
  <2> QED BY <2>1, <2>2, <2>3
<1>3. SearchInv => AnswersExact
  BY DEF SearchInv
<1> QED BY <1>1, <1>2, <1>3, PTL DEF Spec
=============================================================================
