--------------------------- MODULE RunLifecycleProofs ---------------------------
(***************************************************************************)
(* For any number of runs, events, crashes and failing transactions: with  *)
(* mTLS a run is completed only after its end, gets one sampler row, and   *)
(* is audited on its whole trace; and whichever of the disconnect handler, *)
(* the reaper, a late event and the boot sweep comes last, the end of a    *)
(* run is recorded once.                                                   *)
(*                                                                         *)
(* The argument: a run has one connection, an event is stored only by its  *)
(* handler, and with an identity the one audit task is created when the    *)
(* handler closes.                                                         *)
(***************************************************************************)
EXTENDS RunLifecycle, FiniteSetTheorems, SequenceTheorems, TLAPS

Statuses == {"absent", "running", "completed", "aborted"}
Handlers == {"none", "connect", "read", "ensure", "store", "disconnect", "closed"}
ProcTypes ==
    /\ up \in BOOLEAN /\ mtls \in BOOLEAN
    /\ proc \in [Runs -> {"none", "alive", "gone"}] /\ reaper \in [Runs -> {"none", "waiting", "done"}]
    /\ handler \in [Runs -> Handlers] /\ sent \in [Runs -> Nat] /\ pending \in [Runs -> Nat] /\ knownRuns \subseteq Runs
TableTypes ==
    /\ status \in [Runs -> Statuses] /\ events \in [Runs -> Nat]
    /\ crashes \in 0 .. MaxCrashes /\ dbFailures \in 0 .. MaxDbFailures
AuditTypes == audits \in [Runs -> Seq(Audit)]
Types == ProcTypes /\ TableTypes /\ AuditTypes

\* An event is written, read, in the hands of the handler, and stored.
InHand(r) == IF handler[r] \in {"ensure", "store"} THEN 1 ELSE 0
Flow == \A r \in Runs : sent[r] <= MaxEvents[r] /\ pending[r] + InHand(r) + events[r] <= sent[r]

\* With an identity a run has one audit task at most, and that once its connection has ended.
OneAudit == mtls => \A r \in Runs : Len(audits[r]) <= 1 /\ (audits[r] # << >> => handler[r] = "closed")

IInv == Types /\ Flow /\ CompletedOnlyAfterEnd /\ OneAudit /\ AuditSawWholeTrace

\* The status of a run moves from absent to running to its end.
Moves(old, new) == \/ new = old
                   \/ old = "absent" /\ new = "running"
                   \/ old = "running" /\ new \in {"completed", "aborted"}

LEMMA Numbers == MaxCrashes \in Nat /\ MaxDbFailures \in Nat /\ MaxEvents \in [Runs -> Nat]
  BY BoundsAssumption

\* What a transaction may do to the tables.
LEMMA Transactions ==
    ASSUME TableTypes, NEW r \in Runs
    PROVE  /\ DbFails => dbFailures' \in 0 .. MaxDbFailures /\ status' = status /\ events' = events
           /\ DbWorks => dbFailures' \in 0 .. MaxDbFailures
           /\ upsert_run(r) => /\ status' \in [Runs -> Statuses] /\ \A k \in Runs : k # r => status'[k] = status[k]
                               /\ status'[r] = IF status[r] = "absent" THEN "running" ELSE status[r]
           /\ mark_run_completed(r) => /\ status' \in [Runs -> Statuses] /\ \A k \in Runs : k # r => status'[k] = status[k]
                                       /\ status'[r] = IF status[r] = "running" THEN "completed" ELSE status[r]
<1>1. /\ DbFails => dbFailures' \in 0 .. MaxDbFailures /\ status' = status /\ events' = events
      /\ DbWorks => dbFailures' \in 0 .. MaxDbFailures
  BY Numbers DEF TableTypes, DbFails, DbWorks, tables
<1>2. upsert_run(r) => /\ status' \in [Runs -> Statuses] /\ \A k \in Runs : k # r => status'[k] = status[k]
                       /\ status'[r] = IF status[r] = "absent" THEN "running" ELSE status[r]
  BY DEF TableTypes, upsert_run, Statuses
<1>3. mark_run_completed(r) => /\ status' \in [Runs -> Statuses] /\ \A k \in Runs : k # r => status'[k] = status[k]
                               /\ status'[r] = IF status[r] = "running" THEN "completed" ELSE status[r]
  BY DEF TableTypes, mark_run_completed, Statuses
<1> QED BY <1>1, <1>2, <1>3

LEMMA InitInv == Init => IInv
<1> SUFFICES ASSUME Init PROVE IInv
  OBVIOUS
<1> USE Numbers DEF Init
<1>1. ProcTypes
  BY DEF ProcTypes, Handlers
<1>2. TableTypes
  BY DEF TableTypes, Statuses
<1>3. AuditTypes
  BY DEF AuditTypes
<1>4. Flow
  BY DEF Flow, InHand
<1>5. CompletedOnlyAfterEnd /\ OneAudit /\ AuditSawWholeTrace
  BY DEF CompletedOnlyAfterEnd, OneAudit, AuditSawWholeTrace
<1> QED BY <1>1, <1>2, <1>3, <1>4, <1>5 DEF IInv, Types

\* What the audit tasks say is left alone by whatever leaves them, the events and the closed handlers alone.
LEMMA AuditsStay ==
    ASSUME IInv, mtls' = mtls, audits' = audits, \A r \in Runs : handler[r] = "closed" => handler'[r] = "closed" /\ events'[r] = events[r]
    PROVE  AuditTypes' /\ OneAudit' /\ AuditSawWholeTrace'
<1>1. AuditTypes' /\ OneAudit'
  BY DEF IInv, Types, AuditTypes, OneAudit
<1>2. ASSUME mtls, NEW r \in Runs, NEW i \in DOMAIN audits[r] PROVE events'[r] = events[r]
  <2>1. audits[r] # << >>
    BY <1>2
  <2> QED BY <1>2, <2>1 DEF IInv, OneAudit
<1>3. AuditSawWholeTrace'
  BY <1>2 DEF IInv, AuditSawWholeTrace
<1> QED BY <1>1, <1>3

\* The steps of the harness and of the network.
LEMMA HarnessInv == ASSUME IInv, NEW r \in Runs, Start(r) \/ Connect(r) \/ Send(r) \/ Exit(r) PROVE IInv'
<1> USE Numbers
<1>1. ProcTypes'
  BY DEF IInv, Types, ProcTypes, Start, Connect, Send, Exit, GotoH, Handlers
<1>2. UNCHANGED <<mtls, status, events, audits, crashes, dbFailures>>
  BY DEF Start, Connect, Send, Exit, tables, bounds
<1>3. TableTypes'
  BY <1>2 DEF IInv, Types, TableTypes
<1>4. Flow'
  BY DEF IInv, Types, ProcTypes, TableTypes, Flow, InHand, Start, Connect, Send, Exit, GotoH, tables
<1>5. CompletedOnlyAfterEnd'
  BY DEF IInv, Types, ProcTypes, CompletedOnlyAfterEnd, Start, Connect, Send, Exit, GotoH, tables
<1>6. \A k \in Runs : handler[k] = "closed" => handler'[k] = "closed" /\ events'[k] = events[k]
  BY <1>2 DEF IInv, Types, ProcTypes, Start, Connect, Send, Exit, GotoH
<1> QED BY <1>1, <1>2, <1>3, <1>4, <1>5, <1>6, AuditsStay DEF IInv, Types

\* The reaper: the child is gone.
LEMMA ReapInv == ASSUME IInv, NEW r \in Runs, Reap(r) PROVE IInv'
<1>1. UNCHANGED <<mtls, up, proc, handler, sent, pending, knownRuns, audits, crashes>> /\ proc[r] = "gone"
  BY DEF Reap
<1>2. ProcTypes'
  BY <1>1 DEF IInv, Types, ProcTypes, Reap
<1>3. /\ dbFailures' \in 0 .. MaxDbFailures /\ events' = events /\ status' \in [Runs -> Statuses]
      /\ \A k \in Runs : k # r => status'[k] = status[k]
  BY Transactions DEF IInv, Types, TableTypes, Reap
<1>4. TableTypes'
  BY <1>1, <1>3 DEF IInv, Types, TableTypes
<1>5. Flow'
  BY <1>1, <1>3 DEF IInv, Flow, InHand
<1>6. CompletedOnlyAfterEnd'
  BY <1>1, <1>3 DEF IInv, CompletedOnlyAfterEnd
<1> QED BY <1>1, <1>2, <1>3, <1>4, <1>5, <1>6, AuditsStay DEF IInv, Types

\* The connection, up to its end.
LEMMA ConnectionInv ==
    ASSUME IInv, NEW r \in Runs, OnConnect(r) \/ EnsureRunRow(r) PROVE IInv'
<1>1. UNCHANGED <<mtls, up, proc, reaper, sent, pending, audits, crashes>>
  BY DEF OnConnect, EnsureRunRow
<1>2. PICK h \in {"read", "store", "disconnect"} :
        /\ handler' = [handler EXCEPT ![r] = h] /\ handler[r] \in {"connect", "ensure"}
        /\ h = "store" <=> handler[r] = "ensure"
  BY DEF OnConnect, EnsureRunRow, GotoH
<1>3. /\ handler' \in [Runs -> Handlers] /\ handler'[r] = h /\ \A k \in Runs : k # r => handler'[k] = handler[k]
      /\ knownRuns' \subseteq Runs
  BY <1>2 DEF IInv, Types, ProcTypes, Handlers, OnConnect, EnsureRunRow
<1>4. ProcTypes'
  BY <1>1, <1>3 DEF IInv, Types, ProcTypes
<1>5. /\ dbFailures' \in 0 .. MaxDbFailures /\ events' = events /\ status' \in [Runs -> Statuses]
      /\ \A k \in Runs : status'[k] = "completed" => status[k] = "completed"
  <2>1. TableTypes
    BY DEF IInv, Types
  <2>2. CASE DbFails
    BY <2>1, <2>2, Transactions DEF TableTypes
  <2>3. CASE DbWorks /\ upsert_run(r) /\ UNCHANGED events
    BY <2>1, <2>3, Transactions
  <2> QED BY <2>2, <2>3 DEF OnConnect, EnsureRunRow
<1>6. TableTypes'
  BY <1>1, <1>5 DEF IInv, Types, TableTypes
<1>7. Flow'
  BY <1>1, <1>2, <1>3, <1>5 DEF IInv, Flow, InHand
<1>8. CompletedOnlyAfterEnd'
  BY <1>1, <1>2, <1>3, <1>5 DEF IInv, CompletedOnlyAfterEnd
<1>9. \A k \in Runs : handler[k] = "closed" => handler'[k] = "closed" /\ events'[k] = events[k]
  BY <1>2, <1>3, <1>5
<1> QED BY <1>1, <1>4, <1>6, <1>7, <1>8, <1>9, AuditsStay DEF IInv, Types

LEMMA ReadFrameInv == ASSUME IInv, NEW r \in Runs, ReadFrame(r) \/ PeerClosed(r) PROVE IInv'
<1>1. UNCHANGED <<mtls, up, proc, reaper, sent, knownRuns, status, events, audits, crashes, dbFailures>>
  BY DEF ReadFrame, PeerClosed, tables, bounds
<1>2. PICK h \in {"store", "ensure", "disconnect"}, n \in Nat :
        /\ handler' = [handler EXCEPT ![r] = h] /\ pending' = [pending EXCEPT ![r] = n] /\ handler[r] = "read"
        /\ IF h = "disconnect" THEN n = 0 ELSE n + 1 = pending[r]
  BY DEF ReadFrame, PeerClosed, GotoH, IInv, Types, ProcTypes
<1>3. /\ handler' \in [Runs -> Handlers] /\ handler'[r] = h /\ \A k \in Runs : k # r => handler'[k] = handler[k]
      /\ pending' \in [Runs -> Nat] /\ pending'[r] = n /\ \A k \in Runs : k # r => pending'[k] = pending[k]
  BY <1>2 DEF IInv, Types, ProcTypes, Handlers
<1>4. ProcTypes' /\ TableTypes'
  BY <1>1, <1>3 DEF IInv, Types, ProcTypes, TableTypes
<1>5. Flow'
  BY <1>1, <1>2, <1>3 DEF IInv, Types, ProcTypes, TableTypes, Flow, InHand
<1>6. CompletedOnlyAfterEnd'
  BY <1>1, <1>2, <1>3 DEF IInv, CompletedOnlyAfterEnd
<1>7. \A k \in Runs : handler[k] = "closed" => handler'[k] = "closed" /\ events'[k] = events[k]
  BY <1>1, <1>2, <1>3
<1> QED BY <1>1, <1>4, <1>5, <1>6, <1>7, AuditsStay DEF IInv, Types

\* An event is stored: its handler is not closed.
LEMMA StoreEventInv == ASSUME IInv, NEW r \in Runs, StoreEvent(r) PROVE IInv'
<1>1. UNCHANGED <<mtls, up, proc, reaper, sent, knownRuns, status, audits, crashes>>
  BY DEF StoreEvent, DbFails, tables
<1>2. PICK h \in {"read", "disconnect"}, n \in Nat :
        /\ handler' = [handler EXCEPT ![r] = h] /\ pending' = [pending EXCEPT ![r] = n] /\ handler[r] = "store"
        /\ n <= pending[r]
  <2>1. pending = [pending EXCEPT ![r] = pending[r]] /\ pending[r] \in Nat
    BY DEF IInv, Types, ProcTypes
  <2> QED BY <2>1 DEF StoreEvent, GotoH
<1>3. /\ handler' \in [Runs -> Handlers] /\ handler'[r] = h /\ \A k \in Runs : k # r => handler'[k] = handler[k]
      /\ pending' \in [Runs -> Nat] /\ pending'[r] = n /\ \A k \in Runs : k # r => pending'[k] = pending[k]
  BY <1>2 DEF IInv, Types, ProcTypes, Handlers
<1>4. ProcTypes'
  BY <1>1, <1>3 DEF IInv, Types, ProcTypes
<1>5. /\ dbFailures' \in 0 .. MaxDbFailures /\ events' \in [Runs -> Nat] /\ events'[r] \in {events[r], events[r] + 1}
      /\ \A k \in Runs : k # r => events'[k] = events[k]
  BY Transactions DEF IInv, Types, TableTypes, StoreEvent, DbFails, DbWorks, tables
<1>6. TableTypes'
  BY <1>1, <1>5 DEF IInv, Types, TableTypes
<1>7. Flow'
  <2> SUFFICES ASSUME NEW k \in Runs PROVE sent'[k] <= MaxEvents[k] /\ pending'[k] + InHand(k)' + events'[k] <= sent'[k]
    BY DEF Flow
  <2>1. sent[k] <= MaxEvents[k] /\ pending[k] + InHand(k) + events[k] <= sent[k]
    BY DEF IInv, Flow
  <2>2. pending[k] \in Nat /\ events[k] \in Nat /\ sent[k] \in Nat /\ pending'[k] \in Nat /\ events'[k] \in Nat
    BY <1>3, <1>5 DEF IInv, Types, ProcTypes, TableTypes
  <2>3. CASE k = r
    BY <1>1, <1>2, <1>3, <1>5, <2>1, <2>2, <2>3 DEF InHand
  <2>4. CASE k # r
    BY <1>1, <1>3, <1>5, <2>1, <2>4 DEF InHand
  <2> QED BY <2>3, <2>4
<1>8. CompletedOnlyAfterEnd'
  BY <1>1, <1>2, <1>3 DEF IInv, CompletedOnlyAfterEnd
<1>9. \A k \in Runs : handler[k] = "closed" => handler'[k] = "closed" /\ events'[k] = events[k]
  BY <1>2, <1>3, <1>5
<1> QED BY <1>1, <1>4, <1>6, <1>7, <1>8, <1>9, AuditsStay DEF IInv, Types

\* The end of a connection with an identity: the one audit task is created.
LEMMA DisconnectMtlsInv == ASSUME IInv, NEW r \in Runs, OnDisconnectMtls(r) PROVE IInv'
<1>1. /\ UNCHANGED <<mtls, up, proc, reaper, sent, pending, knownRuns, crashes>> /\ mtls /\ handler[r] = "disconnect"
      /\ handler' = [handler EXCEPT ![r] = "closed"] /\ audits' = [audits EXCEPT ![r] = Append(@, NewAudit("load"))]
  BY DEF OnDisconnectMtls, GotoH
<1>2. handler' \in [Runs -> Handlers] /\ handler'[r] = "closed" /\ \A k \in Runs : k # r => handler'[k] = handler[k]
  BY <1>1 DEF IInv, Types, ProcTypes, Handlers
<1>3. ProcTypes'
  BY <1>1, <1>2 DEF IInv, Types, ProcTypes
<1>4. /\ dbFailures' \in 0 .. MaxDbFailures /\ events' = events /\ status' \in [Runs -> Statuses]
      /\ \A k \in Runs : k # r => status'[k] = status[k]
  BY Transactions DEF IInv, Types, TableTypes, OnDisconnectMtls
<1>5. TableTypes'
  BY <1>1, <1>4 DEF IInv, Types, TableTypes
<1>6. Flow'
  BY <1>1, <1>2, <1>4 DEF IInv, Flow, InHand
<1>7. CompletedOnlyAfterEnd'
  BY <1>1, <1>2, <1>4 DEF IInv, CompletedOnlyAfterEnd
<1>8. audits[r] = << >>
  BY <1>1 DEF IInv, OneAudit
<1>9. PICK a : a = NewAudit("load")
  OBVIOUS
<1>10. a \in Audit /\ a.stage = "load"
  BY <1>9 DEF NewAudit, Audit, AuditStages
<1>11. Append(audits[r], a) = <<a>> /\ <<a>> \in Seq(Audit) /\ Len(<<a>>) = 1 /\ DOMAIN <<a>> = {1} /\ <<a>>[1] = a
  BY <1>8, <1>10
<1>12. audits' \in [Runs -> Seq(Audit)] /\ audits'[r] = <<a>> /\ \A k \in Runs : k # r => audits'[k] = audits[k]
  BY <1>1, <1>9, <1>11 DEF IInv, Types, AuditTypes
<1>13. OneAudit'
  BY <1>1, <1>2, <1>11, <1>12 DEF IInv, OneAudit
<1>14. AuditSawWholeTrace'
  <2> SUFFICES ASSUME mtls', NEW k \in Runs, NEW i \in DOMAIN audits'[k], audits'[k][i].stage \in {"detect", "done", "skipped"}
               PROVE  audits'[k][i].saw = events'[k]
    BY DEF AuditSawWholeTrace
  <2>1. k # r
    BY <1>10, <1>11, <1>12
  <2>2. audits'[k] = audits[k]
    BY <1>12, <2>1
  <2> QED BY <1>1, <1>4, <2>2 DEF IInv, AuditSawWholeTrace
<1> QED BY <1>3, <1>5, <1>6, <1>7, <1>12, <1>13, <1>14 DEF IInv, Types, AuditTypes

\* Without an identity only types are at stake.
LEMMA DisconnectPlainInv == ASSUME IInv, NEW r \in Runs, OnDisconnectPlain(r) PROVE IInv'
<1>1. /\ UNCHANGED <<mtls, up, proc, reaper, sent, pending, status, events, crashes, dbFailures>> /\ ~mtls
      /\ handler' = [handler EXCEPT ![r] = "closed"] /\ knownRuns' = {} /\ handler[r] = "disconnect"
      /\ audits' = [k \in Runs |-> IF k \in knownRuns THEN Append(audits[k], NewAudit("mark")) ELSE audits[k]]
  BY DEF OnDisconnectPlain, GotoH, tables, bounds
<1>2. handler' \in [Runs -> Handlers] /\ handler'[r] = "closed" /\ \A k \in Runs : k # r => handler'[k] = handler[k]
  BY <1>1 DEF IInv, Types, ProcTypes, Handlers
<1>3. ProcTypes' /\ TableTypes'
  BY <1>1, <1>2 DEF IInv, Types, ProcTypes, TableTypes
<1>4. Flow'
  BY <1>1, <1>2 DEF IInv, Flow, InHand
<1>5. PICK a : a = NewAudit("mark")
  OBVIOUS
<1>6. a \in Audit
  BY <1>5 DEF NewAudit, Audit, AuditStages
<1>7. ASSUME NEW k \in Runs PROVE audits[k] \in Seq(Audit) /\ Append(audits[k], a) \in Seq(Audit)
  BY <1>6 DEF IInv, Types, AuditTypes
<1>8. AuditTypes'
  BY <1>1, <1>5, <1>7 DEF AuditTypes
<1>9. CompletedOnlyAfterEnd' /\ OneAudit' /\ AuditSawWholeTrace'
  BY <1>1 DEF CompletedOnlyAfterEnd, OneAudit, AuditSawWholeTrace
<1> QED BY <1>3, <1>4, <1>8, <1>9 DEF IInv, Types

\* A step of an audit task replaces its record, by one that has the trace as it is if it has one.
LEMMA TaskInv ==
    ASSUME IInv, NEW r \in Runs, NEW i \in DOMAIN audits[r], NEW a \in Audit,
           UNCHANGED <<mtls, up, proc, reaper, handler, sent, pending, knownRuns, crashes, events>>,
           SetAudit(r, i, a), mtls /\ a.stage \in {"detect", "done", "skipped"} => a.saw = events[r],
           dbFailures' \in 0 .. MaxDbFailures, status' \in [Runs -> Statuses],
           \A k \in Runs : k # r => status'[k] = status[k]
    PROVE  IInv'
<1>1. ProcTypes' /\ TableTypes'
  BY DEF IInv, Types, ProcTypes, TableTypes
<1>2. Flow'
  BY DEF IInv, Flow, InHand
<1>3. audits[r] # << >> /\ audits[r] \in Seq(Audit)
  BY DEF IInv, Types, AuditTypes
<1>4. mtls => handler[r] = "closed"
  BY <1>3 DEF IInv, OneAudit
<1>5. CompletedOnlyAfterEnd'
  BY <1>4 DEF IInv, CompletedOnlyAfterEnd
<1>6. PICK s : s = [audits[r] EXCEPT ![i] = a]
  OBVIOUS
<1>7. s \in Seq(Audit) /\ Len(s) = Len(audits[r]) /\ DOMAIN s = DOMAIN audits[r] /\ s[i] = a
      /\ \A j \in DOMAIN s : j # i => s[j] = audits[r][j]
  BY <1>3, <1>6, ExceptSeq
<1>8. audits' = [audits EXCEPT ![r] = s]
  BY <1>6 DEF SetAudit
<1>9. audits' \in [Runs -> Seq(Audit)] /\ audits'[r] = s /\ \A k \in Runs : k # r => audits'[k] = audits[k]
  BY <1>7, <1>8 DEF IInv, Types, AuditTypes
<1>10. OneAudit'
  <2> SUFFICES ASSUME mtls, NEW k \in Runs PROVE Len(audits'[k]) <= 1 /\ (audits'[k] # << >> => handler'[k] = "closed")
    BY DEF OneAudit
  <2>1. CASE k = r
    BY <1>4, <1>7, <1>9, <2>1 DEF IInv, OneAudit
  <2>2. CASE k # r
    BY <1>9, <2>2 DEF IInv, OneAudit
  <2> QED BY <2>1, <2>2
<1>11. AuditSawWholeTrace'
  <2> SUFFICES ASSUME mtls, NEW k \in Runs, NEW j \in DOMAIN audits'[k], audits'[k][j].stage \in {"detect", "done", "skipped"}
               PROVE audits'[k][j].saw = events[k]
    BY DEF AuditSawWholeTrace
  <2>1. CASE k = r /\ j = i
    BY <1>7, <1>9, <2>1
  <2>2. CASE k = r /\ j # i
    BY <1>7, <1>9, <2>2 DEF IInv, AuditSawWholeTrace
  <2>3. CASE k # r
    BY <1>9, <2>3 DEF IInv, AuditSawWholeTrace
  <2> QED BY <2>1, <2>2, <2>3
<1> QED BY <1>1, <1>2, <1>5, <1>9, <1>10, <1>11 DEF IInv, Types, AuditTypes

LEMMA AuditInv == ASSUME IInv, NEW r \in Runs, NEW i \in DOMAIN audits[r], AuditStep(r, i) PROVE IInv'
<1>1. TableTypes /\ events[r] \in Nat
  BY DEF IInv, Types, TableTypes
<1>2. UNCHANGED <<mtls, up, proc, reaper, handler, sent, pending, knownRuns, crashes, events>>
  BY <1>1, Transactions DEF AuditStep, MarkByTask, LoadAndSample, Detect, volatile, tables
<1>3. dbFailures' \in 0 .. MaxDbFailures /\ status' \in [Runs -> Statuses] /\ \A k \in Runs : k # r => status'[k] = status[k]
  <2>1. status \in [Runs -> Statuses]
    BY <1>1 DEF TableTypes
  <2> QED BY <1>1, <2>1, Transactions DEF AuditStep, MarkByTask, LoadAndSample, Detect, tables
<1>4. PICK old : old = audits[r][i]
  OBVIOUS
<1>5. old \in Audit
  BY <1>4 DEF IInv, Types, AuditTypes
<1>6. ASSUME NEW st \in AuditStages
      PROVE  /\ [old EXCEPT !.stage = st] \in Audit /\ [old EXCEPT !.stage = st].stage = st
             /\ [old EXCEPT !.stage = st].saw = old.saw
  BY <1>5 DEF Audit
<1>7. CASE MarkByTask(r, i)
  <2>1. PICK st \in {"load", "failed"} : SetAudit(r, i, [old EXCEPT !.stage = st])
    BY <1>4, <1>7 DEF MarkByTask
  <2>2. st \in AuditStages
    BY DEF AuditStages
  <2> QED BY <1>2, <1>3, <1>6, <2>1, <2>2, TaskInv
<1>8. CASE LoadAndSample(r, i)
  <2>1. CASE SetAudit(r, i, [old EXCEPT !.stage = "failed"])
    <3>1. "failed" \in AuditStages
      BY DEF AuditStages
    <3> QED BY <1>2, <1>3, <1>6, <2>1, <3>1, TaskInv
  <2>2. CASE \E audit, ok \in BOOLEAN :
               SetAudit(r, i, [stage |-> IF audit THEN "detect" ELSE "skipped", saw |-> events[r],
                               row |-> ok /\ status[r] # "absent"])
    <3>1. PICK audit \in BOOLEAN, ok \in BOOLEAN :
               SetAudit(r, i, [stage |-> IF audit THEN "detect" ELSE "skipped", saw |-> events[r],
                               row |-> ok /\ status[r] # "absent"])
      BY <2>2
    <3>2. PICK a : a = [stage |-> IF audit THEN "detect" ELSE "skipped", saw |-> events[r], row |-> ok /\ status[r] # "absent"]
      OBVIOUS
    <3>3. a \in Audit
      <4>1. (ok /\ status[r] # "absent") \in BOOLEAN /\ (IF audit THEN "detect" ELSE "skipped") \in AuditStages
        BY DEF AuditStages
      <4> QED BY <1>1, <3>2, <4>1 DEF Audit
    <3>4. a.saw = events[r] /\ SetAudit(r, i, a)
      BY <3>1, <3>2
    <3> QED BY <1>2, <1>3, <3>3, <3>4, TaskInv
  <2> QED BY <1>4, <1>8, <2>1, <2>2 DEF LoadAndSample
<1>9. CASE Detect(r, i)
  <2>1. PICK st \in {"done", "failed"} : SetAudit(r, i, [old EXCEPT !.stage = st])
    BY <1>4, <1>9 DEF Detect
  <2>2. st \in AuditStages /\ (mtls => old.saw = events[r])
    BY <1>4, <1>9 DEF AuditStages, IInv, AuditSawWholeTrace, Detect, At
  <2> QED BY <1>2, <1>3, <1>6, <2>1, <2>2, TaskInv
<1> QED BY <1>7, <1>8, <1>9 DEF AuditStep

\* Crash and restart: what was finished stays, the rest is lost.
LEMMA CrashInv == ASSUME IInv, Crash PROVE IInv'
<1> USE Numbers
<1>1. ProcTypes'
  BY DEF IInv, Types, ProcTypes, Crash, Handlers
<1>2. TableTypes'
  BY DEF IInv, Types, TableTypes, Crash, tables
<1>3. Flow'
  <2> SUFFICES ASSUME NEW k \in Runs PROVE sent'[k] <= MaxEvents[k] /\ pending'[k] + InHand(k)' + events'[k] <= sent'[k]
    BY DEF Flow
  <2>1. sent[k] <= MaxEvents[k] /\ pending[k] + InHand(k) + events[k] <= sent[k] /\ InHand(k) \in {0, 1}
    BY DEF IInv, Flow, InHand
  <2>2. pending[k] \in Nat /\ events[k] \in Nat /\ sent[k] \in Nat
    BY DEF IInv, Types, ProcTypes, TableTypes
  <2>3. pending'[k] = 0 /\ InHand(k)' = 0 /\ events' = events /\ sent' = sent
    BY DEF Crash, InHand, tables
  <2> QED BY <2>1, <2>2, <2>3
<1>4. CompletedOnlyAfterEnd'
  BY DEF IInv, Types, ProcTypes, CompletedOnlyAfterEnd, Crash, tables
<1>5. ASSUME NEW r \in Runs
      PROVE  /\ audits'[r] \in Seq(Audit) /\ Len(audits'[r]) = Len(audits[r])
             /\ \A i \in DOMAIN audits'[r] :
                  audits'[r][i].stage \in {"detect", "done", "skipped"} => i \in DOMAIN audits[r] /\ audits'[r][i] = audits[r][i]
  <2> DEFINE After(i) == IF audits[r][i].stage \in Finished THEN audits[r][i] ELSE [audits[r][i] EXCEPT !.stage = "lost"]
  <2>1. audits[r] \in Seq(Audit) /\ DOMAIN audits[r] = 1 .. Len(audits[r]) /\ Len(audits[r]) \in Nat
    BY DEF IInv, Types, AuditTypes
  <2>2. ASSUME NEW i \in 1 .. Len(audits[r])
        PROVE  After(i) \in Audit /\ (After(i).stage \in {"detect", "done", "skipped"} => After(i) = audits[r][i])
    <3>1. PICK a : a = audits[r][i]
      OBVIOUS
    <3>2. a \in Audit
      BY <2>1, <3>1
    <3>3. [a EXCEPT !.stage = "lost"] \in Audit /\ [a EXCEPT !.stage = "lost"].stage = "lost"
      BY <3>2 DEF Audit, AuditStages
    <3> QED BY <3>1, <3>2, <3>3
  <2> HIDE DEF After
  <2>3. audits'[r] = [i \in 1 .. Len(audits[r]) |-> After(i)]
    BY <2>1 DEF Crash, After
  <2>4. audits'[r] \in Seq(Audit) /\ Len(audits'[r]) = Len(audits[r]) /\ DOMAIN audits'[r] = 1 .. Len(audits[r])
    BY <2>1, <2>2, <2>3, IsASeq
  <2> QED BY <2>1, <2>2, <2>3, <2>4
<1>6. audits' = [r \in Runs |-> audits'[r]] /\ UNCHANGED <<mtls, status, events>>
  BY DEF Crash, tables
<1>7. AuditTypes'
  <2>1. AuditTypes' <=> audits' \in [Runs -> Seq(Audit)]
    BY DEF AuditTypes
  <2> QED BY <1>5, <1>6, <2>1
<1>8. OneAudit'
  <2> SUFFICES ASSUME mtls, NEW r \in Runs PROVE Len(audits'[r]) <= 1 /\ (audits'[r] # << >> => handler'[r] = "closed")
    BY <1>6 DEF OneAudit
  <2>1. Len(audits[r]) <= 1 /\ (audits[r] # << >> => handler[r] = "closed") /\ audits[r] \in Seq(Audit)
    BY DEF IInv, Types, AuditTypes, OneAudit
  <2>2. handler[r] = "closed" => handler'[r] = "closed"
    BY DEF Crash
  <2>3. audits'[r] # << >> => audits[r] # << >>
    BY <1>5, <2>1
  <2> QED BY <1>5, <2>1, <2>2, <2>3
<1>9. AuditSawWholeTrace'
  BY <1>5, <1>6 DEF IInv, AuditSawWholeTrace
<1> QED BY <1>1, <1>2, <1>3, <1>4, <1>7, <1>8, <1>9 DEF IInv, Types

LEMMA BootInv == ASSUME IInv, Boot PROVE IInv'
<1>1. UNCHANGED <<mtls, proc, reaper, handler, sent, pending, knownRuns, audits, crashes>> /\ up' = TRUE
  BY DEF Boot, volatile
<1>2. /\ dbFailures' \in 0 .. MaxDbFailures /\ events' = events /\ status' \in [Runs -> Statuses]
      /\ \A k \in Runs : status'[k] = "completed" => status[k] = "completed"
  BY Numbers DEF IInv, Types, TableTypes, Boot, reap_orphaned_runs, Statuses, DbFails, DbWorks, tables
<1>3. ProcTypes' /\ TableTypes'
  BY <1>1, <1>2 DEF IInv, Types, ProcTypes, TableTypes
<1>4. Flow'
  BY <1>1, <1>2 DEF IInv, Flow, InHand
<1>5. CompletedOnlyAfterEnd'
  BY <1>1, <1>2 DEF IInv, CompletedOnlyAfterEnd
<1> QED BY <1>1, <1>2, <1>3, <1>4, <1>5, AuditsStay DEF IInv, Types

LEMMA StutterInv == ASSUME IInv, UNCHANGED vars PROVE IInv'
<1>1. /\ UNCHANGED <<mtls, up, proc, reaper, handler, sent, pending, knownRuns, status, events, audits>>
      /\ UNCHANGED <<crashes, dbFailures>>
  BY DEF vars, volatile, tables, bounds
<1>2. Types'
  BY <1>1 DEF IInv, Types, ProcTypes, TableTypes, AuditTypes
<1>3. Flow' /\ CompletedOnlyAfterEnd'
  BY <1>1 DEF IInv, Flow, InHand, CompletedOnlyAfterEnd
<1>4. OneAudit' /\ AuditSawWholeTrace'
  BY <1>1 DEF IInv, OneAudit, AuditSawWholeTrace
<1> QED BY <1>2, <1>3, <1>4 DEF IInv

LEMMA StepInv == IInv /\ [Next]_vars => IInv'
<1> SUFFICES ASSUME IInv, [Next]_vars PROVE IInv'
  OBVIOUS
<1>1. ASSUME NEW r \in Runs, RunStep(r) PROVE IInv'
  BY <1>1, HarnessInv, ReapInv, ConnectionInv, ReadFrameInv, StoreEventInv, DisconnectMtlsInv, DisconnectPlainInv, AuditInv
     DEF RunStep, HandlerStep
<1> QED BY <1>1, CrashInv, BootInv, StutterInv DEF Next

LEMMA AlwaysInv == Spec => []IInv
  BY InitInv, StepInv, PTL DEF Spec

\* What is recorded of a run with an identity is exact, for any number of runs and events, whatever
\* crashes and whichever transactions fail.
THEOREM AuditsAreExact == Spec => []AuditIsExact
<1>1. IInv => AuditIsExact
  <2> SUFFICES ASSUME IInv PROVE AuditIsExact
    OBVIOUS
  <2>1. TypeOK
    <3>1. \A r \in Runs : sent[r] <= MaxEvents[r] /\ pending[r] + events[r] <= sent[r]
      <4> TAKE r \in Runs
      <4>1. sent[r] <= MaxEvents[r] /\ pending[r] + InHand(r) + events[r] <= sent[r] /\ InHand(r) \in {0, 1}
        BY DEF IInv, Flow, InHand
      <4>2. pending[r] \in Nat /\ events[r] \in Nat /\ sent[r] \in Nat
        BY DEF IInv, Types, ProcTypes, TableTypes
      <4> QED BY <4>1, <4>2
    <3> QED BY <3>1 DEF IInv, Types, ProcTypes, TableTypes, AuditTypes, TypeOK, Statuses, Handlers
  <2>2. OneSamplerRow
    <3> SUFFICES ASSUME mtls, NEW r \in Runs PROVE Cardinality({i \in DOMAIN audits[r] : audits[r][i].row}) <= 1
      BY DEF OneSamplerRow
    <3>1. PICK S : S = {i \in DOMAIN audits[r] : audits[r][i].row}
      OBVIOUS
    <3>2. Len(audits[r]) <= 1 /\ audits[r] \in Seq(Audit)
      BY DEF IInv, Types, AuditTypes, OneAudit
    <3>3. S \subseteq {1}
      BY <3>1, <3>2
    <3>4. IsFiniteSet({1}) /\ Cardinality({1}) = 1
      BY FS_Singleton
    <3> QED BY <3>1, <3>3, <3>4, FS_Subset
  <2> QED BY <2>1, <2>2 DEF IInv, AuditIsExact
<1> QED BY <1>1, AlwaysInv, PTL

\* No step takes a run's status backwards, or from one end to another.
LEMMA StatusMoves == IInv /\ [Next]_vars => \A r \in Runs : Moves(status[r], status'[r])
<1> SUFFICES ASSUME IInv, [Next]_vars PROVE \A r \in Runs : Moves(status[r], status'[r])
  OBVIOUS
<1>1. TableTypes
  BY DEF IInv, Types
<1>2. ASSUME status' = status PROVE \A r \in Runs : Moves(status[r], status'[r])
  BY <1>2 DEF Moves
<1>3. ASSUME NEW r \in Runs, upsert_run(r) \/ mark_run_completed(r) PROVE \A k \in Runs : Moves(status[k], status'[k])
  BY <1>1, <1>3, Transactions DEF Moves
<1>4. ASSUME NEW r \in Runs, RunStep(r) PROVE status' = status \/ upsert_run(r) \/ mark_run_completed(r)
  <2>1. ASSUME Start(r) \/ Connect(r) \/ Send(r) \/ Exit(r) \/ ReadFrame(r) \/ PeerClosed(r) \/ OnDisconnectPlain(r)
        PROVE status' = status
    BY <2>1 DEF Start, Connect, Send, Exit, ReadFrame, PeerClosed, OnDisconnectPlain, tables
  <2>2. ASSUME Reap(r) \/ OnConnect(r) \/ EnsureRunRow(r) \/ StoreEvent(r) \/ OnDisconnectMtls(r)
        PROVE status' = status \/ upsert_run(r) \/ mark_run_completed(r)
    BY <2>2 DEF Reap, OnConnect, EnsureRunRow, StoreEvent, OnDisconnectMtls, DbFails, tables
  <2>3. ASSUME NEW i \in DOMAIN audits[r], AuditStep(r, i)
        PROVE status' = status \/ mark_run_completed(r)
    BY <2>3 DEF AuditStep, MarkByTask, LoadAndSample, Detect, DbFails, tables
  <2> QED BY <1>4, <2>1, <2>2, <2>3 DEF RunStep, HandlerStep
<1>5. ASSUME Crash \/ UNCHANGED vars PROVE status' = status
  BY <1>5 DEF Crash, vars, tables
<1>6. ASSUME Boot PROVE \A r \in Runs : Moves(status[r], status'[r])
  BY <1>1, <1>6 DEF Boot, DbFails, tables, reap_orphaned_runs, Moves, TableTypes, Statuses
<1> QED BY <1>2, <1>3, <1>4, <1>5, <1>6 DEF Next

\* The end of a run is recorded once, for any number of runs, crashes and failing transactions.
THEOREM EndIsRecordedOnce == Spec => StatusIsFinal
<1>1. ASSUME IInv, [Next]_vars
      PROVE  [\A r \in Runs : status[r] \in {"completed", "aborted"} => status'[r] = status[r]]_vars
  BY <1>1, StatusMoves DEF Moves
<1> QED BY <1>1, AlwaysInv, PTL DEF Spec, StatusIsFinal
================================================================================
