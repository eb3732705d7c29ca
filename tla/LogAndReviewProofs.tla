-------------------------- MODULE LogAndReviewProofs --------------------------
(***************************************************************************)
(* Proofs about what is recorded and about the people who decide on it.    *)
(*                                                                         *)
(* AuditLog, for any number of tenants, writers and payloads: type         *)
(* correctness, the chain the verifier walks is intact in every reachable  *)
(* state, rows are only added behind the tenant's other rows, the table    *)
(* implements AppendOnlyLog, and tampering with it is found.               *)
(*                                                                         *)
(* HitlReview, for any flags, runs and number of reviewers deciding at     *)
(* once: flags, processes and the audit log follow the committed decisions;*)
(* a paused run is never forgotten; a critical flag stops its run; and an  *)
(* enforced abort is final.  Decisions are only ever added, so what a      *)
(* request committed is still recorded when it is enforced; a process that *)
(* ended stays ended; every suspend of a process that lives is held by a   *)
(* flag that is still to be decided or enforced; and every exception the   *)
(* code makes (a pause after the decision, a pause, resume or abort        *)
(* without effect) is remembered.                                          *)
(***************************************************************************)
EXTENDS AuditLog, HitlReview, FiniteSetTheorems, SequenceTheorems, TLAPS

Holding == {"read", "insert", "commit"}

\* A writer past the lock statement holds its tenant's lock, so there is one per tenant.
LockInv == \A w \in Writers :
    /\ pc[w] # "idle" => call[w] \in Calls
    /\ pc[w] \in Holding => lock[Tenant(w)] = w

\* A non-empty set of rows of one tenant has a last row.
LastExists(rows) == rows # {} => \E r \in rows : \A q \in rows : q.seq <= r.seq

LastInv == \A t \in Tenants : LastExists(RowsOf(t))

\* What a writer read is still the tenant's last hash when it commits.
FreshInv == \A w \in Writers :
    pc[w] \in {"insert", "commit"} => prevChain[w] = LastChain(RowsOf(Tenant(w)))

\* Sequence values are handed out in order, and a pending row goes behind its tenant's rows.
SeqInv ==
    /\ \A r \in table : r.seq < nextSeq
    /\ \A w \in Writers : pc[w] = "commit" =>
           /\ newSeq[w] \in 1 .. MaxSeq
           /\ newSeq[w] < nextSeq
           /\ \A r \in RowsOf(Tenant(w)) : r.seq < newSeq[w]

ChainInv == \A t \in Tenants : \A r \in RowsOf(t) : Links(RowsOf(t), r)

IInv == TypeOK /\ LockInv /\ LastInv /\ FreshInv /\ SeqInv /\ ChainInv

\* The last hash of a set of rows that has a last row is a list of payloads.
LEMMA LastChainType ==
    ASSUME NEW rows, rows \subseteq Row, LastExists(rows)
    PROVE  LastChain(rows) \in Seq(Payloads)
<1>1. CASE rows = {}
  BY <1>1 DEF LastChain, GENESIS_HASH
<1>2. CASE rows # {}
  <2>1. LastRow(rows) \in rows
    BY <1>2 DEF LastRow, LastExists
  <2>2. QED
    BY <2>1, <1>2 DEF LastChain, Row
<1>3. QED
  BY <1>1, <1>2

\* A row behind all the others is the last one, and leaves the others' predecessors alone.
LEMMA AddLast ==
    ASSUME NEW rows, NEW n, n.seq \in Nat, \A q \in rows : q.seq \in Nat /\ q.seq < n.seq
    PROVE  /\ LastExists(rows \cup {n})
           /\ LastRow(rows \cup {n}) = n
           /\ LastChain(rows \cup {n}) = n.chain_hash
           /\ Before(rows \cup {n}, n) = rows
           /\ \A r \in rows : Before(rows \cup {n}, r) = Before(rows, r)
<1> DEFINE new == rows \cup {n}
<1>1. \A q \in new : q.seq <= n.seq
  OBVIOUS
<1>2. \A r \in new : (\A q \in new : q.seq <= r.seq) => r = n
  <2> SUFFICES ASSUME NEW r \in rows, \A q \in new : q.seq <= r.seq PROVE FALSE
    OBVIOUS
  <2>1. n.seq <= r.seq /\ r.seq < n.seq /\ r.seq \in Nat
    OBVIOUS
  <2>2. QED
    BY <2>1
<1>3. LastRow(new) = n
  BY <1>1, <1>2 DEF LastRow
<1>4. new # {}
  OBVIOUS
<1>5. Before(new, n) = rows
  BY DEF Before
<1>6. \A r \in rows : Before(new, r) = Before(rows, r)
  <2> SUFFICES ASSUME NEW r \in rows PROVE Before(new, r) = Before(rows, r)
    OBVIOUS
  <2>1. ~(n.seq < r.seq)
    OBVIOUS
  <2>2. QED
    BY <2>1 DEF Before
<1>7. QED
  BY <1>1, <1>3, <1>4, <1>5, <1>6 DEF LastExists, LastChain

\* The invariant holds of the empty table.
LEMMA InitIInv == Init => IInv
<1> SUFFICES ASSUME Init PROVE IInv
  OBVIOUS
<1>1. \A t \in Tenants : RowsOf(t) = {}
  BY DEF Init, RowsOf
<1>2. TypeOK
  BY MaxSeqAssumption DEF Init, TypeOK, GENESIS_HASH
<1>3. LockInv /\ FreshInv
  BY DEF Init, LockInv, FreshInv, Holding
<1>4. LastInv /\ ChainInv
  BY <1>1 DEF LastInv, LastExists, ChainInv
<1>5. SeqInv
  BY DEF Init, SeqInv
<1>6. QED
  BY <1>2, <1>3, <1>4, <1>5 DEF IInv

\* Steps that leave the table alone keep what is said of the table alone.
LEMMA SameTable ==
    ASSUME UNCHANGED table
    PROVE  /\ \A t : RowsOf(t)' = RowsOf(t)
           /\ LastInv => LastInv'
           /\ ChainInv => ChainInv'
<1>1. \A t : RowsOf(t)' = RowsOf(t)
  BY DEF RowsOf
<1>2. QED
  BY <1>1 DEF LastInv, ChainInv

\* Hashing the payload and opening the transaction touches no row.
LEMMA BeginStep ==
    ASSUME IInv, NEW w \in Writers, NEW t \in Tenants, NEW p \in Payloads, Begin(w, t, p)
    PROVE  IInv'
<1> USE DEF IInv
<1>1. TypeOK'
  BY DEF Begin, TypeOK, Calls
<1>2. LockInv'
  BY DEF Begin, TypeOK, LockInv, Tenant, Holding, Calls
<1>3. FreshInv'
  BY SameTable DEF Begin, TypeOK, FreshInv, Tenant
<1>4. SeqInv'
  BY SameTable DEF Begin, TypeOK, SeqInv, Tenant
<1>5. LastInv' /\ ChainInv'
  BY SameTable DEF Begin
<1>6. QED
  BY <1>1, <1>2, <1>3, <1>4, <1>5

\* The lock is granted only where nobody holds it.
LEMMA AcquireLockStep ==
    ASSUME IInv, NEW w \in Writers, AcquireLock(w)
    PROVE  IInv'
<1> USE DEF IInv
<1>1. TypeOK'
  BY DEF AcquireLock, TypeOK
<1>2. LockInv'
  BY NoneAssumption DEF AcquireLock, TypeOK, LockInv, Tenant, Holding, Calls
<1>3. FreshInv'
  BY SameTable DEF AcquireLock, TypeOK, FreshInv, Tenant
<1>4. SeqInv'
  BY SameTable DEF AcquireLock, TypeOK, SeqInv, Tenant
<1>5. LastInv' /\ ChainInv'
  BY SameTable DEF AcquireLock
<1>6. QED
  BY <1>1, <1>2, <1>3, <1>4, <1>5

\* What is read is the tenant's last hash, and the lock keeps it so.
LEMMA ReadPrevStep ==
    ASSUME IInv, NEW w \in Writers, ReadPrev(w)
    PROVE  IInv'
<1> USE DEF IInv
<1>0. Tenant(w) \in Tenants
  BY DEF ReadPrev, LockInv, Tenant, Calls
<1>1. LastChain(RowsOf(Tenant(w))) \in Seq(Payloads)
  BY <1>0, LastChainType DEF LastInv, TypeOK, RowsOf
<1>2. TypeOK'
  BY <1>1 DEF ReadPrev, TypeOK
<1>3. LockInv'
  BY DEF ReadPrev, TypeOK, LockInv, Tenant, Holding
<1>4. FreshInv'
  BY SameTable DEF ReadPrev, TypeOK, FreshInv, Tenant
<1>5. SeqInv'
  BY SameTable DEF ReadPrev, TypeOK, SeqInv, Tenant
<1>6. LastInv' /\ ChainInv'
  BY SameTable DEF ReadPrev
<1>7. QED
  BY <1>2, <1>3, <1>4, <1>5, <1>6

\* The seq taken is above all seqs handed out before.
LEMMA InsertStep ==
    ASSUME IInv, NEW w \in Writers, Insert(w)
    PROVE  IInv'
<1> USE DEF IInv
<1>1. TypeOK'
  BY MaxSeqAssumption DEF Insert, TypeOK
<1>2. LockInv'
  BY DEF Insert, TypeOK, LockInv, Tenant, Holding
<1>3. FreshInv'
  BY SameTable DEF Insert, TypeOK, FreshInv, Tenant
<1>4. SeqInv'
  <2>1. \A r \in table : r.seq \in Nat /\ r.seq < nextSeq
    BY DEF TypeOK, SeqInv, Row
  <2>2. nextSeq \in Nat /\ MaxSeq \in Nat /\ nextSeq' = nextSeq + 1 /\ table' = table
    BY MaxSeqAssumption DEF TypeOK, Insert
  <2>3. \A r \in table' : r.seq < nextSeq'
    BY <2>1, <2>2
  <2>4. ASSUME NEW v \in Writers, pc'[v] = "commit"
        PROVE  /\ newSeq'[v] \in 1 .. MaxSeq
               /\ newSeq'[v] < nextSeq'
               /\ \A r \in RowsOf(Tenant(v))' : r.seq < newSeq'[v]
    <3>1. RowsOf(Tenant(v))' = RowsOf(Tenant(v)) /\ RowsOf(Tenant(v)) \subseteq table
      BY <2>2 DEF Insert, RowsOf, Tenant
    <3>2. CASE v = w
      <4>1. newSeq'[v] = nextSeq /\ nextSeq \in 1 .. MaxSeq
        BY <3>2 DEF Insert, TypeOK
      <4>2. QED
        BY <4>1, <3>1, <2>1, <2>2
    <3>3. CASE v # w
      <4>1. newSeq'[v] = newSeq[v] /\ pc[v] = "commit"
        BY <3>3, <2>4 DEF Insert, TypeOK
      <4>2. newSeq[v] \in 1 .. MaxSeq /\ newSeq[v] < nextSeq /\ \A r \in RowsOf(Tenant(v)) : r.seq < newSeq[v]
        BY <4>1 DEF SeqInv
      <4>3. QED
        BY <4>1, <4>2, <3>1, <2>2
    <3>4. QED
      BY <3>2, <3>3
  <2>5. QED
    BY <2>3, <2>4 DEF SeqInv
<1>5. LastInv' /\ ChainInv'
  BY SameTable DEF Insert
<1>6. QED
  BY <1>1, <1>2, <1>3, <1>4, <1>5

\* The end of a transaction keeps the types of what it resets.
LEMMA EndTypes ==
    ASSUME TypeOK, NEW w \in Writers, EndTransaction(w)
    PROVE  /\ lock' \in [Tenants -> Writers \cup {None}]
           /\ pc' \in [Writers -> {"idle", "lock", "read", "insert", "commit"}]
           /\ call' \in [Writers -> Calls \cup {None}]
           /\ prevChain' \in [Writers -> Seq(Payloads)]
           /\ newSeq' \in [Writers -> 0 .. MaxSeq]
<1> USE DEF TypeOK, EndTransaction
<1>1. lock' \in [Tenants -> Writers \cup {None}]
  OBVIOUS
<1>2. pc' \in [Writers -> {"idle", "lock", "read", "insert", "commit"}]
  OBVIOUS
<1>3. call' \in [Writers -> Calls \cup {None}]
  OBVIOUS
<1>4. prevChain' \in [Writers -> Seq(Payloads)]
  <2>1. GENESIS_HASH \in Seq(Payloads)
    BY DEF GENESIS_HASH
  <2>2. QED
    BY <2>1
<1>5. newSeq' \in [Writers -> 0 .. MaxSeq]
  BY MaxSeqAssumption
<1>6. QED
  BY <1>1, <1>2, <1>3, <1>4, <1>5

\* A rollback gives up the lock and leaves no row.
LEMMA RollbackStep ==
    ASSUME IInv, NEW w \in Writers, Rollback(w)
    PROVE  IInv'
<1>1. TypeOK'
  BY EndTypes DEF IInv, Rollback, TypeOK
<1> USE DEF IInv, Rollback, EndTransaction
<1>2. LockInv'
  BY DEF TypeOK, LockInv, Tenant, Holding, Calls
<1>3. FreshInv'
  BY SameTable DEF TypeOK, FreshInv, Tenant
<1>4. SeqInv'
  BY SameTable DEF TypeOK, SeqInv, Tenant
<1>5. LastInv' /\ ChainInv'
  BY SameTable
<1>6. QED
  BY <1>1, <1>2, <1>3, <1>4, <1>5

\* What a commit does to the rows of its tenant, and that it leaves the other tenants' rows alone.
LEMMA CommitRows ==
    ASSUME IInv, NEW w \in Writers, Commit(w)
    PROVE  /\ Tenant(w) \in Tenants
           /\ NewRow(w) \in Row
           /\ RowsOf(Tenant(w))' \in SUBSET Row
           /\ \A r \in RowsOf(Tenant(w)) : r.seq \in Nat /\ r.seq < NewRow(w).seq
           /\ NewRow(w).seq \in Nat
           /\ Links(RowsOf(Tenant(w)) \cup {NewRow(w)}, NewRow(w))
           /\ table' = table \cup {NewRow(w)}
           /\ \A t : t = Tenant(w) => RowsOf(t)' = RowsOf(t) \cup {NewRow(w)}
           /\ \A t : t # Tenant(w) => RowsOf(t)' = RowsOf(t)
<1> USE DEF IInv
<1>1. call[w] \in Calls /\ Tenant(w) \in Tenants /\ call[w].payload \in Payloads
  BY DEF Commit, LockInv, Tenant, Calls
<1>2. prevChain[w] = LastChain(RowsOf(Tenant(w))) /\ prevChain[w] \in Seq(Payloads)
  BY DEF Commit, FreshInv, TypeOK
<1>3. newSeq[w] \in 1 .. MaxSeq /\ \A r \in RowsOf(Tenant(w)) : r.seq < newSeq[w]
  BY DEF Commit, SeqInv
<1>4. NewRow(w) \in Row
  BY <1>1, <1>2, <1>3 DEF NewRow, Row, compute_chain_hash
<1>5. /\ NewRow(w).seq = newSeq[w]
      /\ NewRow(w).tenant_id = Tenant(w)
      /\ NewRow(w).payload_hash = call[w].payload
      /\ NewRow(w).chain_hash = compute_chain_hash(prevChain[w], call[w].payload)
  BY DEF NewRow
<1>6. \A r \in table : r.seq \in Nat
  BY DEF TypeOK, Row
<1>7. \A r \in RowsOf(Tenant(w)) : r.seq \in Nat /\ r.seq < NewRow(w).seq
  BY <1>3, <1>5, <1>6 DEF RowsOf
<1>8. NewRow(w).seq \in Nat
  BY <1>3, <1>5
<1>9. Before(RowsOf(Tenant(w)) \cup {NewRow(w)}, NewRow(w)) = RowsOf(Tenant(w))
  BY <1>7, <1>8, AddLast
<1>10. Links(RowsOf(Tenant(w)) \cup {NewRow(w)}, NewRow(w))
  BY <1>9, <1>5, <1>2 DEF Links
<1>11. table' = table \cup {NewRow(w)}
  BY DEF Commit
<1>12. \A t : t = Tenant(w) => RowsOf(t)' = RowsOf(t) \cup {NewRow(w)}
  BY <1>11, <1>5 DEF RowsOf
<1>13. \A t : t # Tenant(w) => RowsOf(t)' = RowsOf(t)
  BY <1>11, <1>5 DEF RowsOf
<1>14. RowsOf(Tenant(w))' \in SUBSET Row
  BY <1>11, <1>4 DEF RowsOf, TypeOK
<1>15. QED
  BY <1>1, <1>4, <1>7, <1>8, <1>10, <1>11, <1>12, <1>13, <1>14

\* The new row goes behind the tenant's others and links to the last of them.
LEMMA CommitStep ==
    ASSUME IInv, NEW w \in Writers, Commit(w)
    PROVE  IInv'
<1>1. TypeOK'
  <2>1. table' \subseteq Row /\ nextSeq' = nextSeq
    BY CommitRows DEF Commit, IInv, TypeOK
  <2>2. QED
    BY <2>1, EndTypes DEF Commit, IInv, TypeOK
<1>2. LockInv'
  BY DEF Commit, EndTransaction, IInv, TypeOK, LockInv, Tenant, Holding, Calls
\* Another writer past its lock statement works for another tenant.
<1>3. ASSUME NEW v \in Writers, pc'[v] \in Holding
      PROVE  /\ pc[v] = pc'[v] /\ Tenant(v)' = Tenant(v) /\ Tenant(v) # Tenant(w)
             /\ newSeq'[v] = newSeq[v] /\ prevChain'[v] = prevChain[v]
             /\ RowsOf(Tenant(v))' = RowsOf(Tenant(v))
  <2>1. v # w /\ pc[v] = pc'[v] /\ Tenant(v)' = Tenant(v) /\ newSeq'[v] = newSeq[v]
        /\ prevChain'[v] = prevChain[v]
    BY <1>3 DEF Commit, EndTransaction, IInv, TypeOK, Holding, Tenant
  <2>2. lock[Tenant(v)] = v /\ lock[Tenant(w)] = w
    BY <1>3, <2>1 DEF Commit, IInv, LockInv, Holding
  <2>3. RowsOf(Tenant(v))' = RowsOf(Tenant(v))
    <3>1. RowsOf(Tenant(v))' = {r \in table' : r.tenant_id = Tenant(v)}
      BY <2>1 DEF RowsOf
    <3>2. NewRow(w).tenant_id = Tenant(w) /\ Tenant(w) # Tenant(v) /\ table' = table \cup {NewRow(w)}
      BY <2>1, <2>2 DEF NewRow, Commit
    <3>3. QED
      BY <3>1, <3>2 DEF RowsOf
  <2>4. QED
    BY <2>1, <2>2, <2>3
<1>4. FreshInv'
  BY <1>3 DEF FreshInv, IInv, Holding
<1>5. SeqInv'
  <2>1. \A r \in table' : r.seq < nextSeq'
    BY CommitRows DEF Commit, IInv, SeqInv, NewRow
  <2>2. ASSUME NEW v \in Writers, pc'[v] = "commit"
        PROVE  /\ newSeq'[v] \in 1 .. MaxSeq
               /\ newSeq'[v] < nextSeq'
               /\ \A r \in RowsOf(Tenant(v))' : r.seq < newSeq'[v]
    BY <1>3, <2>2 DEF Commit, IInv, SeqInv, Holding
  <2>3. QED
    BY <2>1, <2>2 DEF SeqInv
<1>6. ASSUME NEW t \in Tenants
      PROVE  LastExists(RowsOf(t)') /\ \A r \in RowsOf(t)' : Links(RowsOf(t)', r)
  <2>1. LastExists(RowsOf(t)) /\ \A r \in RowsOf(t) : Links(RowsOf(t), r)
    BY DEF IInv, LastInv, ChainInv
  <2>2. CASE t # Tenant(w)
    BY <2>1, <2>2, CommitRows
  <2>3. CASE t = Tenant(w)
    <3>1. /\ RowsOf(t)' = RowsOf(t) \cup {NewRow(w)}
          /\ Links(RowsOf(t) \cup {NewRow(w)}, NewRow(w))
      BY <2>3, CommitRows
    <3>2. NewRow(w).seq \in Nat /\ \A r \in RowsOf(t) : r.seq \in Nat /\ r.seq < NewRow(w).seq
      BY <2>3, CommitRows
    <3>3. LastExists(RowsOf(t) \cup {NewRow(w)})
      BY <3>2, AddLast
    <3>4. \A r \in RowsOf(t) : Before(RowsOf(t) \cup {NewRow(w)}, r) = Before(RowsOf(t), r)
      BY <3>2, AddLast
    <3>5. \A r \in RowsOf(t) : Links(RowsOf(t) \cup {NewRow(w)}, r)
      BY <2>1, <3>4 DEF Links
    <3>6. QED
      BY <3>1, <3>3, <3>5
  <2>4. QED
    BY <2>2, <2>3
<1>7. LastInv' /\ ChainInv'
  BY <1>6 DEF LastInv, ChainInv, LastExists, Links, LastChain, LastRow, Before
<1>8. QED
  BY <1>1, <1>2, <1>4, <1>5, <1>7 DEF IInv

\* Every step keeps the invariant.
LEMMA NextIInv == IInv /\ [Next]_vars => IInv'
<1> SUFFICES ASSUME IInv, [Next]_vars PROVE IInv'
  OBVIOUS
<1>1. CASE UNCHANGED vars
  <2>1. TypeOK' /\ LockInv'
    BY <1>1 DEF vars, IInv, TypeOK, LockInv, Tenant
  <2>2. FreshInv' /\ SeqInv'
    BY <1>1, SameTable DEF vars, IInv, FreshInv, SeqInv, Tenant
  <2>3. LastInv' /\ ChainInv'
    BY <1>1, SameTable DEF vars, IInv
  <2>4. QED
    BY <2>1, <2>2, <2>3 DEF IInv
<1>2. CASE Next
  <2>1. PICK w \in Writers :
           \/ \E t \in Tenants, p \in Payloads : Begin(w, t, p)
           \/ AcquireLock(w) \/ ReadPrev(w) \/ Insert(w) \/ Commit(w) \/ Rollback(w)
    BY <1>2 DEF Next
  <2>2. QED
    BY <2>1, BeginStep, AcquireLockStep, ReadPrevStep, InsertStep, CommitStep, RollbackStep
<1>3. QED
  BY <1>1, <1>2

\* It holds in every reachable state.
LEMMA SpecIInv == Spec => []IInv
  BY InitIInv, NextIInv, PTL DEF Spec

\* Every variable keeps its type, for any tenants, writers and payloads.
THEOREM TypeCorrect == Spec => []TypeOK
<1>1. IInv => TypeOK
  BY DEF IInv
<1>2. QED
  BY <1>1, SpecIInv, PTL

\* The verifier accepts every tenant's chain in every reachable state of append's transactions,
\* however many writers there are and wherever they fail.
THEOREM ChainAlwaysIntact == Spec => []ChainIntact
<1>1. IInv => ChainIntact
  BY DEF IInv, ChainInv, ChainIntact, verify_chain, Breaks
<1>2. QED
  BY <1>1, SpecIInv, PTL

\* Committed rows stay, and a commit puts its row behind every row of its tenant.
THEOREM RowsOnlyAppended == Spec => AppendOnly
<1>1. ASSUME IInv, Next
      PROVE  /\ table \subseteq table'
             /\ \A r \in table' \ table : \A q \in RowsOf(r.tenant_id) : q.seq < r.seq
  <2>1. PICK w \in Writers : Commit(w) \/ UNCHANGED table
    BY <1>1 DEF Next, Begin, AcquireLock, ReadPrev, Insert, Rollback
  <2>2. CASE Commit(w)
    <3>1. NewRow(w).tenant_id = Tenant(w)
      BY DEF NewRow
    <3>2. QED
      BY <1>1, <2>2, <3>1, CommitRows
  <2>3. QED
    BY <2>1, <2>2
<1>2. QED
  BY <1>1, SpecIInv, PTL DEF Spec, AppendOnly

\* With the last chain hash of each tenant read as its history, the audit_log table implements
\* AppendOnlyLog: a commit appends one entry to one history and no other step changes any.
THEOREM ImplementsAppendOnlyLog == Spec => RefinesAppendOnlyLog
<1>1. Init => History!Init
  BY DEF Init, History!Init, history, RowsOf, LastChain, GENESIS_HASH
<1>2. ASSUME IInv, Next PROVE History!Next \/ history' = history
  <2>1. PICK w \in Writers : Commit(w) \/ UNCHANGED table
    BY <1>2 DEF Next, Begin, AcquireLock, ReadPrev, Insert, Rollback
  <2>2. CASE UNCHANGED table
    BY <2>2 DEF RowsOf, history
  <2>3. CASE Commit(w)
    <3> DEFINE u == Tenant(w)
               p == call[w].payload
    <3>1. u \in Tenants /\ p \in Payloads
      BY <1>2, <2>3 DEF IInv, LockInv, Commit, Tenant, Calls
    <3>2. LastChain(RowsOf(u) \cup {NewRow(w)}) = NewRow(w).chain_hash
      BY <1>2, <2>3, CommitRows, AddLast
    <3>3. NewRow(w).chain_hash = Append(LastChain(RowsOf(u)), p)
      BY <1>2, <2>3 DEF IInv, FreshInv, Commit, NewRow, compute_chain_hash
    <3>4. \A t \in Tenants : LastChain(RowsOf(t)') =
             IF t = u THEN Append(LastChain(RowsOf(u)), p) ELSE LastChain(RowsOf(t))
      BY <1>2, <2>3, <3>2, <3>3, CommitRows
    <3>5. history' = [t \in Tenants |-> LastChain(RowsOf(t)')]
      BY DEF history, LastChain, LastRow
    <3>6. history' = [history EXCEPT ![u] = Append(@, p)]
      BY <3>1, <3>4, <3>5 DEF history
    <3>7. QED
      BY <3>1, <3>6 DEF History!Next, History!AppendEntry
  <2>4. QED
    BY <2>1, <2>2, <2>3
<1>3. UNCHANGED vars => history' = history
  BY DEF vars, history, RowsOf
<1>4. IInv /\ [Next]_vars => [History!Next]_history
  BY <1>2, <1>3
<1>5. QED
  BY <1>1, <1>4, SpecIInv, PTL DEF Spec, RefinesAppendOnlyLog, History!Spec

------------------------------------------------------------------------------
\* Tampering.

\* A non-empty set of numbers has a least one: < is well founded.
NatOrder == {p \in Nat \X Nat : p[1] < p[2]}
LEMMA LeastNumber ==
    ASSUME NEW T, T \subseteq Nat, T # {}
    PROVE  \E x \in T : \A y \in T : x <= y
<1>1. IsWellFoundedOn(NatOrder, Nat)
  <2>1. IsWellFoundedOn(OpToRel(<, Nat), Nat)
    BY NatLessThanWellFounded
  <2>2. OpToRel(<, Nat) = NatOrder
    BY DEF OpToRel, NatOrder
  <2> QED BY <2>1, <2>2
<1>2. PICK x \in T : \A y \in T : ~(<<y, x>> \in NatOrder)
  BY <1>1, WFMin
<1>3. ASSUME NEW y \in T PROVE x <= y
  <2>1. x \in Nat /\ y \in Nat /\ <<y, x>> \in Nat \X Nat /\ <<y, x>>[1] = y /\ <<y, x>>[2] = x
    OBVIOUS
  <2> QED BY <1>2, <2>1 DEF NatOrder
<1> QED BY <1>3

\* So a non-empty set of rows has a first and a last one.
LEMMA FirstRow ==
    ASSUME NEW S, S \subseteq Row, S # {}
    PROVE  \E r \in S : \A q \in S : r.seq <= q.seq
<1>1. \A r \in S : r.seq \in Nat
  BY DEF Row
<1>2. PICK T : T = {r.seq : r \in S}
  OBVIOUS
<1>3. T \subseteq Nat /\ T # {}
  BY <1>1, <1>2
<1>4. PICK x \in T : \A y \in T : x <= y
  BY <1>3, LeastNumber
<1> QED BY <1>2, <1>4

LEMMA FinalRow ==
    ASSUME NEW S, S \subseteq Row, S # {}
    PROVE  \E r \in S : \A q \in S : q.seq <= r.seq
<1>1. \A r \in S : r.seq \in 1 .. MaxSeq /\ MaxSeq - r.seq \in Nat
  BY MaxSeqAssumption DEF Row
<1>2. PICK T : T = {MaxSeq - r.seq : r \in S}
  OBVIOUS
<1>3. T \subseteq Nat /\ T # {}
  BY <1>1, <1>2
<1>4. PICK x \in T : \A y \in T : x <= y
  BY <1>3, LeastNumber
<1>5. PICK r \in S : x = MaxSeq - r.seq
  BY <1>2
<1>6. ASSUME NEW q \in S PROVE q.seq <= r.seq
  <2>1. x <= MaxSeq - q.seq
    BY <1>2, <1>4
  <2> QED BY <1>1, <1>5, <2>1, MaxSeqAssumption
<1> QED BY <1>6

\* Where a set of rows ends with a row of its own, that is the one the SELECT returns.
LEMMA EndsWith ==
    ASSUME NEW S, S \subseteq Row, NEW n \in S, \A q \in S : q # n => q.seq < n.seq
    PROVE  LastChain(S) = n.chain_hash
<1>1. \A q \in S : q.seq \in Nat
  BY DEF Row
<1>2. \A q \in S : q.seq <= n.seq
  BY <1>1
<1>3. \A r \in S : (\A q \in S : q.seq <= r.seq) => r = n
  BY <1>1
<1>4. LastRow(S) = n
  BY <1>2, <1>3 DEF LastRow
<1> QED BY <1>4 DEF LastChain

\* A chain the verifier accepts, one row per place.
Sound(S) ==
    /\ S \subseteq Row
    /\ \A r, q \in S : r.seq = q.seq => r = q
    /\ \A r \in S : Links(S, r)

\* What a row of such a chain is computed from.
LEMMA RowIs ==
    ASSUME NEW S, Sound(S), NEW r \in S
    PROVE  /\ LastChain(Before(S, r)) \in Seq(Payloads)
           /\ r.chain_hash = Append(LastChain(Before(S, r)), r.payload_hash)
           /\ r.chain_hash \in Seq(Payloads) /\ r.payload_hash \in Payloads /\ r.seq \in 1 .. MaxSeq /\ r.seq \in Nat
<1>1. Before(S, r) \subseteq Row
  BY DEF Before, Sound
<1>2. LastExists(Before(S, r))
  BY <1>1, FinalRow DEF LastExists
<1>3. LastChain(Before(S, r)) \in Seq(Payloads)
  BY <1>1, <1>2, LastChainType
<1>4. r \in Row /\ Links(S, r)
  BY DEF Sound
<1> QED BY <1>3, <1>4, MaxSeqAssumption DEF Row, Links, compute_chain_hash

\* The row before a row that is not the first.
LEMMA RowAfter ==
    ASSUME NEW S, Sound(S), NEW p \in S, NEW r \in S, p.seq < r.seq, \A q \in S : q.seq < r.seq => q.seq <= p.seq
    PROVE  LastChain(Before(S, r)) = p.chain_hash
<1>1. p \in Before(S, r) /\ Before(S, r) \subseteq Row
  BY DEF Before, Sound
<1>2. ASSUME NEW q \in Before(S, r), q # p PROVE q.seq < p.seq
  <2>1. q \in S /\ q.seq <= p.seq
    BY DEF Before
  <2>2. q.seq # p.seq
    BY <1>2, <2>1 DEF Sound
  <2>3. q.seq \in Nat /\ p.seq \in Nat
    BY <2>1, RowIs
  <2> QED BY <2>1, <2>2, <2>3
<1> QED BY <1>1, <1>2, EndsWith

\* The hashes grow along the chain: the least row that breaks this would not.
LEMMA Grows ==
    ASSUME NEW S, Sound(S), NEW r \in S, NEW q \in S, r.seq < q.seq
    PROVE  Len(r.chain_hash) < Len(q.chain_hash)
<1> DEFINE Bad(x) == \E y \in S : y.seq < x.seq /\ ~(Len(y.chain_hash) < Len(x.chain_hash))
<1> SUFFICES ASSUME Bad(q) PROVE FALSE
  BY RowIs
<1>1. PICK T : T = {x \in S : Bad(x)}
  OBVIOUS
<1>2. T \subseteq Row /\ T # {}
  BY <1>1 DEF Sound
<1>3. PICK x \in T : \A z \in T : x.seq <= z.seq
  BY <1>2, FirstRow
<1>4. PICK y \in S : y.seq < x.seq /\ ~(Len(y.chain_hash) < Len(x.chain_hash))
  BY <1>1, <1>3
<1>5. x \in S /\ Before(S, x) \subseteq Row /\ y \in Before(S, x)
  BY <1>1, <1>4 DEF Before, Sound
<1>6. PICK p \in Before(S, x) : \A z \in Before(S, x) : z.seq <= p.seq
  BY <1>5, FinalRow
<1>7. p \in S /\ p.seq < x.seq /\ \A z \in S : z.seq < x.seq => z.seq <= p.seq
  BY <1>6 DEF Before
<1>8. x.chain_hash = Append(p.chain_hash, x.payload_hash)
  <2>1. LastChain(Before(S, x)) = p.chain_hash
    BY <1>5, <1>7, RowAfter
  <2>2. x.chain_hash = Append(LastChain(Before(S, x)), x.payload_hash)
    BY <1>5, RowIs
  <2> QED BY <2>1, <2>2
<1>9. p.chain_hash \in Seq(Payloads) /\ y.chain_hash \in Seq(Payloads) /\ {x.seq, y.seq, p.seq} \subseteq Nat
  BY <1>5, <1>7, RowIs
<1>10. Len(x.chain_hash) = Len(p.chain_hash) + 1 /\ Len(p.chain_hash) \in Nat /\ Len(y.chain_hash) \in Nat
  BY <1>8, <1>9
<1>11. ~Bad(p)
  <2>1. p \in T => x.seq <= p.seq
    BY <1>3
  <2>2. p \notin T
    BY <1>7, <1>9, <2>1
  <2> QED BY <1>1, <1>7, <2>2
<1>12. y.seq <= p.seq
  BY <1>4, <1>7
<1>13. CASE y.seq = p.seq
  <2>1. y = p
    BY <1>7, <1>13 DEF Sound
  <2> QED BY <1>4, <1>10, <2>1
<1>14. CASE y.seq < p.seq
  <2>1. Len(y.chain_hash) < Len(p.chain_hash)
    BY <1>11, <1>14
  <2> QED BY <1>4, <1>10, <2>1
<1> QED BY <1>9, <1>12, <1>13, <1>14

\* What is caught, and where.
Caught(S, seq) == ~verify_chain(S).ok /\ verify_chain(S).first_break_seq <= seq

LEMMA CaughtAt ==
    ASSUME NEW S, S \subseteq Row, NEW b \in S, ~Links(S, b), NEW seq \in Nat, b.seq <= seq
    PROVE  Caught(S, seq)
<1>1. PICK B : B = Breaks(S)
  OBVIOUS
<1>2. B \subseteq Row /\ b \in B
  BY <1>1 DEF Breaks
<1>3. PICK f : f = CHOOSE r \in B : \A q \in B : r.seq <= q.seq
  OBVIOUS
<1>4. f \in B /\ f.seq <= b.seq
  <2>1. \E r \in B : \A q \in B : r.seq <= q.seq
    BY <1>2, FirstRow
  <2> QED BY <1>2, <1>3, <2>1
<1>5. f.seq \in Nat /\ b.seq \in Nat
  BY <1>2, <1>4 DEF Row
<1>6. verify_chain(S).ok = FALSE /\ verify_chain(S).first_break_seq = f.seq
  BY <1>1, <1>2, <1>3 DEF verify_chain
<1> QED BY <1>4, <1>5, <1>6 DEF Caught

\* The row after r.
Follows(S, r, n) == n \in S /\ r.seq < n.seq /\ \A q \in S : r.seq < q.seq => n.seq <= q.seq

LEMMA FollowerIs ==
    ASSUME NEW S, Sound(S), NEW r \in S, NEW n, Follows(S, r, n)
    PROVE  /\ n.chain_hash = Append(r.chain_hash, n.payload_hash)
           /\ \A q \in S : q.seq < n.seq => q.seq <= r.seq
<1>1. n \in S /\ r.seq < n.seq
  BY DEF Follows
<1>2. ASSUME NEW q \in S, q.seq < n.seq PROVE q.seq <= r.seq
  <2>1. q.seq \in Nat /\ n.seq \in Nat /\ r.seq \in Nat
    BY <1>1, RowIs
  <2>2. r.seq < q.seq => n.seq <= q.seq
    BY DEF Follows
  <2> QED BY <1>2, <2>1, <2>2
<1>3. LastChain(Before(S, n)) = r.chain_hash
  BY <1>1, <1>2, RowAfter
<1>4. n.chain_hash = Append(LastChain(Before(S, n)), n.payload_hash)
  BY <1>1, RowIs
<1> QED BY <1>2, <1>3, <1>4

LEMMA FollowerExists ==
    ASSUME NEW S, Sound(S), NEW r \in S, Interior(S, r)
    PROVE  Follows(S, r, CHOOSE q \in S : q.seq > r.seq /\ \A s \in S : s.seq > r.seq => q.seq <= s.seq)
<1>1. PICK A : A = {q \in S : q.seq > r.seq}
  OBVIOUS
<1>2. A \subseteq Row /\ A # {}
  BY <1>1 DEF Interior, Sound
<1>3. PICK n \in A : \A q \in A : n.seq <= q.seq
  BY <1>2, FirstRow
<1>4. n \in S /\ n.seq > r.seq /\ \A s \in S : s.seq > r.seq => n.seq <= s.seq
  BY <1>1, <1>3
<1>5. PICK m : m = CHOOSE q \in S : q.seq > r.seq /\ \A s \in S : s.seq > r.seq => q.seq <= s.seq
  OBVIOUS
<1>6. m \in S /\ m.seq > r.seq /\ \A s \in S : s.seq > r.seq => m.seq <= s.seq
  BY <1>4, <1>5
<1>7. \A s \in S : s.seq \in Nat
  BY RowIs
<1>8. Follows(S, r, m)
  BY <1>6, <1>7 DEF Follows
<1> QED BY <1>5, <1>8

\* A deleted row: the next one was computed from a longer hash.
LEMMA DeletedCaught ==
    ASSUME NEW S, Sound(S), NEW r \in S, NEW n, Follows(S, r, n)
    PROVE  Caught(S \ {r}, n.seq)
<1>1. n \in S /\ r.seq < n.seq /\ r.seq \in Nat /\ n.seq \in Nat
  BY RowIs DEF Follows
<1>2. PICK D : D = S \ {r}
  OBVIOUS
<1>3. D \subseteq Row /\ n \in D
  BY <1>1, <1>2 DEF Sound
<1>4. Before(D, n) = Before(S, r)
  <2>1. ASSUME NEW q \in S PROVE q \in Before(D, n) <=> q \in Before(S, r)
    <3>1. q.seq \in Nat /\ (q.seq < n.seq => q.seq <= r.seq) /\ (q.seq = r.seq => q = r)
      BY RowIs, FollowerIs DEF Sound
    <3> QED BY <1>1, <1>2, <3>1 DEF Before
  <2> QED BY <1>2, <2>1 DEF Before
<1>5. PICK c : c = LastChain(Before(S, r))
  OBVIOUS
<1>6. c \in Seq(Payloads) /\ r.chain_hash = Append(c, r.payload_hash) /\ {r.payload_hash, n.payload_hash} \subseteq Payloads
  BY <1>1, <1>5, RowIs
<1>7. n.chain_hash = Append(Append(c, r.payload_hash), n.payload_hash)
  BY <1>6, FollowerIs
<1>8. n.chain_hash # Append(c, n.payload_hash)
  <2>1. Len(n.chain_hash) = Len(c) + 2 /\ Len(Append(c, n.payload_hash)) = Len(c) + 1 /\ Len(c) \in Nat
    BY <1>6, <1>7
  <2> QED BY <2>1
<1>9. ~Links(D, n)
  BY <1>4, <1>5, <1>8 DEF Links, compute_chain_hash
<1> QED BY <1>1, <1>2, <1>3, <1>9, CaughtAt

\* A row put in the place of r, in front of which nothing was touched, must be computed as r was.
LEMMA ReplacedCaught ==
    ASSUME NEW S, Sound(S), NEW r \in S, NEW D, D \subseteq Row, NEW x \in D, x.seq = r.seq,
           \A q \in Row : q.seq < r.seq => (q \in D <=> q \in S),
           x.chain_hash # Append(LastChain(Before(S, r)), x.payload_hash)
    PROVE  Caught(D, r.seq)
<1>1. Before(D, x) = Before(S, r)
  BY DEF Before, Sound
<1>2. ~Links(D, x)
  BY <1>1 DEF Links, compute_chain_hash
<1>3. r.seq \in Nat /\ x.seq <= r.seq
  BY RowIs
<1> QED BY <1>2, <1>3, CaughtAt

\* Two rows exchanged: the later one, now at the earlier place, has too long a hash.
LEMMA SwappedCaught ==
    ASSUME NEW S, Sound(S), NEW r \in S, NEW q \in S, r.seq < q.seq
    PROVE  Caught((S \ {r, q}) \cup {[r EXCEPT !.seq = q.seq], [q EXCEPT !.seq = r.seq]}, r.seq)
<1>1. r \in Row /\ q \in Row /\ r.seq \in Nat /\ q.seq \in Nat
  BY RowIs DEF Sound
<1>2. PICK x : x = [q EXCEPT !.seq = r.seq]
  OBVIOUS
<1>3. x \in Row /\ x.seq = r.seq /\ x.chain_hash = q.chain_hash /\ x.payload_hash = q.payload_hash
  BY <1>1, <1>2 DEF Row
<1>4. PICK y : y = [r EXCEPT !.seq = q.seq]
  OBVIOUS
<1>5. y \in Row /\ y.seq = q.seq
  BY <1>1, <1>4 DEF Row
<1>6. PICK D : D = (S \ {r, q}) \cup {y, x}
  OBVIOUS
<1>7. D \subseteq Row /\ x \in D
  BY <1>3, <1>5, <1>6 DEF Sound
<1>8. \A z \in Row : z.seq < r.seq => (z \in D <=> z \in S)
  <2> SUFFICES ASSUME NEW z \in Row, z.seq < r.seq PROVE z \in D <=> z \in S
    OBVIOUS
  <2>1. z.seq \in Nat
    BY DEF Row, Sound
  <2>2. z # r /\ z # q /\ z # x /\ z # y
    BY <1>1, <1>3, <1>5, <2>1
  <2> QED BY <1>6, <2>2
<1>9. PICK c : c = LastChain(Before(S, r))
  OBVIOUS
<1>10. c \in Seq(Payloads) /\ r.chain_hash = Append(c, r.payload_hash) /\ q.payload_hash \in Payloads /\ r.payload_hash \in Payloads
  BY <1>9, RowIs
<1>11. q.chain_hash # Append(c, q.payload_hash)
  <2>1. Len(r.chain_hash) < Len(q.chain_hash)
    BY Grows
  <2>2. Len(r.chain_hash) = Len(c) + 1 /\ Len(Append(c, q.payload_hash)) = Len(c) + 1 /\ Len(c) \in Nat
    BY <1>10
  <2> QED BY <2>1, <2>2
<1>12. Caught(D, r.seq)
  BY <1>3, <1>7, <1>8, <1>9, <1>11, ReplacedCaught
<1> QED BY <1>2, <1>4, <1>6, <1>12

\* A rewritten payload or chain hash no longer fits the row before.
LEMMA RewrittenCaught ==
    ASSUME NEW S, Sound(S), NEW r \in S, NEW x \in Row, x.seq = r.seq,
           \/ x.chain_hash = r.chain_hash /\ x.payload_hash # r.payload_hash
           \/ x.chain_hash # r.chain_hash /\ x.payload_hash = r.payload_hash
    PROVE  Caught((S \ {r}) \cup {x}, r.seq)
<1>1. PICK D : D = (S \ {r}) \cup {x}
  OBVIOUS
<1>2. D \subseteq Row /\ x \in D
  BY <1>1 DEF Sound
<1>3. \A z \in Row : z.seq < r.seq => (z \in D <=> z \in S)
  <2> SUFFICES ASSUME NEW z \in Row, z.seq < r.seq PROVE z \in D <=> z \in S
    OBVIOUS
  <2>1. z.seq \in Nat /\ r.seq \in Nat
    BY RowIs DEF Row
  <2>2. z # r /\ z # x
    BY <2>1
  <2> QED BY <1>1, <2>2
<1>4. PICK c : c = LastChain(Before(S, r))
  OBVIOUS
<1>5. c \in Seq(Payloads) /\ r.chain_hash = Append(c, r.payload_hash) /\ r.payload_hash \in Payloads /\ x.payload_hash \in Payloads
  BY <1>4, RowIs DEF Row
<1>6. x.chain_hash # Append(c, x.payload_hash)
  <2>1. Append(c, r.payload_hash)[Len(c) + 1] = r.payload_hash /\ Append(c, x.payload_hash)[Len(c) + 1] = x.payload_hash
    BY <1>5
  <2>2. PICK old, new : old = Append(c, r.payload_hash) /\ new = Append(c, x.payload_hash)
    OBVIOUS
  <2>3. old[Len(c) + 1] = r.payload_hash /\ new[Len(c) + 1] = x.payload_hash /\ r.chain_hash = old
    BY <1>5, <2>1, <2>2
  <2>4. r.payload_hash = x.payload_hash => old = new
    BY <2>2
  <2>5. x.chain_hash # new
    BY <2>3, <2>4
  <2> QED BY <2>2, <2>5
<1>7. x.chain_hash # Append(LastChain(Before(S, r)), x.payload_hash)
  BY <1>4, <1>6
<1>8. Caught(D, r.seq)
  BY <1>2, <1>3, <1>7, ReplacedCaught
<1> QED BY <1>1, <1>8

\* A row put between r and the next one: the next one was computed from r.
LEMMA InsertedCaught ==
    ASSUME NEW S, Sound(S), NEW r \in S, NEW n, Follows(S, r, n), NEW x \in Row, r.seq < x.seq, x.seq < n.seq,
           x.chain_hash = Append(r.chain_hash, x.payload_hash)
    PROVE  Caught(S \cup {x}, n.seq)
<1>1. n \in S /\ r.seq < n.seq /\ r.seq \in Nat /\ n.seq \in Nat /\ x.seq \in Nat
  BY RowIs DEF Follows, Row
<1>2. PICK D : D = S \cup {x}
  OBVIOUS
<1>3. D \subseteq Row /\ n \in D
  BY <1>1, <1>2 DEF Sound
<1>4. Before(D, n) \subseteq Row /\ x \in Before(D, n)
  BY <1>2, <1>3 DEF Before
<1>5. ASSUME NEW q \in Before(D, n), q # x PROVE q.seq < x.seq
  <2>1. q \in S /\ q.seq < n.seq
    BY <1>2, <1>5 DEF Before
  <2>2. q.seq <= r.seq /\ q.seq \in Nat
    BY <2>1, FollowerIs, RowIs
  <2> QED BY <1>1, <2>2
<1>6. LastChain(Before(D, n)) = x.chain_hash
  BY <1>4, <1>5, EndsWith
<1>7. n.chain_hash = Append(r.chain_hash, n.payload_hash) /\ r.chain_hash \in Seq(Payloads) /\ n.payload_hash \in Payloads
  BY <1>1, FollowerIs, RowIs
<1>8. x.payload_hash \in Payloads
  BY DEF Row
<1>9. n.chain_hash # Append(x.chain_hash, n.payload_hash)
  <2>1. Len(n.chain_hash) = Len(r.chain_hash) + 1 /\ Len(r.chain_hash) \in Nat
    BY <1>7
  <2>2. Len(Append(x.chain_hash, n.payload_hash)) = Len(r.chain_hash) + 2
    BY <1>7, <1>8
  <2> QED BY <2>1, <2>2
<1>10. ~Links(D, n)
  BY <1>6, <1>9 DEF Links, compute_chain_hash
<1> QED BY <1>1, <1>2, <1>3, <1>10, CaughtAt

\* Two rows of a tenant have different places.
DistinctInv == \A t \in Tenants : \A r, q \in RowsOf(t) : r.seq = q.seq => r = q

LEMMA SpecDistinct == Spec => []DistinctInv
<1>1. Init => DistinctInv
  BY DEF Init, DistinctInv, RowsOf
<1>2. ASSUME IInv, DistinctInv, [Next]_vars PROVE DistinctInv'
  <2>1. CASE UNCHANGED table
    BY <1>2, <2>1 DEF DistinctInv, RowsOf
  <2>2. ASSUME NEW w \in Writers, Commit(w) PROVE DistinctInv'
    <3>1. PICK n : n = NewRow(w)
      OBVIOUS
    <3>2. /\ \A r \in RowsOf(Tenant(w)) : r.seq \in Nat /\ r.seq < n.seq
          /\ n.seq \in Nat
          /\ \A t : t = Tenant(w) => RowsOf(t)' = RowsOf(t) \cup {n}
          /\ \A t : t # Tenant(w) => RowsOf(t)' = RowsOf(t)
      BY <1>2, <2>2, <3>1, CommitRows
    <3> SUFFICES ASSUME NEW t \in Tenants, NEW r \in RowsOf(t)', NEW q \in RowsOf(t)', r.seq = q.seq PROVE r = q
      BY DEF DistinctInv
    <3>3. CASE t = Tenant(w)
      BY <1>2, <3>2, <3>3 DEF DistinctInv
    <3>4. CASE t # Tenant(w)
      BY <1>2, <3>2, <3>4 DEF DistinctInv
    <3> QED BY <3>3, <3>4
  <2> QED BY <1>2, <2>1, <2>2 DEF Next, Begin, AcquireLock, ReadPrev, Insert, Rollback, vars
<1> QED BY <1>1, <1>2, SpecIInv, PTL DEF Spec

\* Deleting a row that is not the last, exchanging two, rewriting one or putting one in between is found
\* by verify_chain, no later than at the place touched, for chains of any length.
THEOREM TamperingIsCaught == Spec => []TamperDetected
<1>1. ASSUME IInv, DistinctInv PROVE TamperDetected
  <2> SUFFICES ASSUME NEW t \in Tenants
      PROVE LET rows == RowsOf(t)
                Found(changed, seq) == LET v == verify_chain(changed)
                                        IN  ~v.ok /\ v.first_break_seq <= seq
                Swap(r, q) == (rows \ {r, q}) \cup {[r EXCEPT !.seq = q.seq], [q EXCEPT !.seq = r.seq]}
                Next1(r) == CHOOSE q \in rows : q.seq > r.seq /\ \A s \in rows : s.seq > r.seq => q.seq <= s.seq
            IN  /\ \A r \in rows : Interior(rows, r) => Found(rows \ {r}, Next1(r).seq)
                /\ \A r, q \in rows : r.seq < q.seq => Found(Swap(r, q), r.seq)
                /\ \A r \in rows : \A p \in Payloads \ {r.payload_hash} :
                       Found((rows \ {r}) \cup {[r EXCEPT !.payload_hash = p]}, r.seq)
                /\ \A r \in rows : \A q \in table \ {r} : q.chain_hash # r.chain_hash =>
                       Found((rows \ {r}) \cup {[r EXCEPT !.chain_hash = q.chain_hash]}, r.seq)
                /\ \A r \in rows, p \in Payloads, s \in 1 .. MaxSeq :
                       (Interior(rows, r) /\ r.seq < s /\ s < Next1(r).seq) =>
                       Found(rows \cup {[seq |-> s, tenant_id |-> t, payload_hash |-> p,
                                          chain_hash |-> compute_chain_hash(r.chain_hash, p)]}, Next1(r).seq)
    BY DEF TamperDetected
  <2> DEFINE rows == RowsOf(t)
             Next1(r) == CHOOSE q \in rows : q.seq > r.seq /\ \A s \in rows : s.seq > r.seq => q.seq <= s.seq
  <2>1. Sound(rows) /\ \A r \in rows : r \in Row
    BY <1>1 DEF IInv, TypeOK, ChainInv, DistinctInv, Sound, RowsOf
  <2>2. \A r \in rows : Interior(rows, r) => Follows(rows, r, Next1(r))
    BY <2>1, FollowerExists
  <2> HIDE DEF rows, Next1
  <2>3. \A r \in rows : Interior(rows, r) => Caught(rows \ {r}, Next1(r).seq)
    BY <2>1, <2>2, DeletedCaught
  <2>4. \A r, q \in rows : r.seq < q.seq =>
          Caught((rows \ {r, q}) \cup {[r EXCEPT !.seq = q.seq], [q EXCEPT !.seq = r.seq]}, r.seq)
    BY <2>1, SwappedCaught
  <2>5. ASSUME NEW r \in rows, NEW p \in Payloads \ {r.payload_hash}
        PROVE  Caught((rows \ {r}) \cup {[r EXCEPT !.payload_hash = p]}, r.seq)
    <3>1. PICK x : x = [r EXCEPT !.payload_hash = p]
      OBVIOUS
    <3>2. x \in Row /\ x.seq = r.seq /\ x.chain_hash = r.chain_hash /\ x.payload_hash # r.payload_hash
      BY <2>1, <3>1 DEF Row
    <3>3. Caught((rows \ {r}) \cup {x}, r.seq)
      BY <2>1, <3>2, RewrittenCaught
    <3> QED BY <3>1, <3>3
  <2>6. ASSUME NEW r \in rows, NEW q \in table \ {r}, q.chain_hash # r.chain_hash
        PROVE  Caught((rows \ {r}) \cup {[r EXCEPT !.chain_hash = q.chain_hash]}, r.seq)
    <3>1. PICK x : x = [r EXCEPT !.chain_hash = q.chain_hash]
      OBVIOUS
    <3>2. x \in Row /\ x.seq = r.seq /\ x.chain_hash # r.chain_hash /\ x.payload_hash = r.payload_hash
      BY <1>1, <2>1, <2>6, <3>1 DEF Row, IInv, TypeOK
    <3>3. Caught((rows \ {r}) \cup {x}, r.seq)
      BY <2>1, <3>2, RewrittenCaught
    <3> QED BY <3>1, <3>3
  <2>7. ASSUME NEW r \in rows, NEW p \in Payloads, NEW s \in 1 .. MaxSeq, Interior(rows, r), r.seq < s, s < Next1(r).seq
        PROVE  Caught(rows \cup {[seq |-> s, tenant_id |-> t, payload_hash |-> p,
                                  chain_hash |-> compute_chain_hash(r.chain_hash, p)]}, Next1(r).seq)
    <3>1. PICK x : x = [seq |-> s, tenant_id |-> t, payload_hash |-> p, chain_hash |-> compute_chain_hash(r.chain_hash, p)]
      OBVIOUS
    <3>2. PICK c : c = compute_chain_hash(r.chain_hash, p)
      OBVIOUS
    <3>3. c \in Seq(Payloads) /\ c = Append(r.chain_hash, p)
      BY <2>1, <3>2, RowIs DEF compute_chain_hash
    <3>4. x \in Row /\ x.seq = s /\ x.payload_hash = p /\ x.chain_hash = Append(r.chain_hash, p)
      BY <3>1, <3>2, <3>3 DEF Row
    <3>5. Caught(rows \cup {x}, Next1(r).seq)
      BY <2>1, <2>2, <2>7, <3>4, InsertedCaught
    <3> QED BY <3>1, <3>5
  <2> QED BY <2>3, <2>4, <2>5, <2>6, <2>7 DEF Caught, rows, Next1
<1> QED BY <1>1, SpecIInv, SpecDistinct, PTL
-----------------------------------------------------------------------------
(* Human review. *)

Active(q) == request[q].stage \in {"read", "log", "enforce"}

\* Requests are about flags that exist, and go on only with a decision that is committed.
RequestsRight ==
    \A q \in Requests :
        /\ Active(q) => flag[request[q].flag] # NoFlag
        /\ request[q].stage \in {"log", "enforce"} => request[q].decision \in decisions[request[q].flag]
        /\ request[q].stage = "read" /\ request[q].seen # "none" => decisions[request[q].flag] # {}

\* An open flag has no resolution, and one that was not raised has neither decision nor routing.
FlagsRight ==
    \A f \in Flags :
        /\ flag[f] = NoFlag => decisions[f] = {} /\ router[f] = "none"
        /\ flag[f] # NoFlag /\ flag[f].status = "open" => flag[f].resolution = "none"
        /\ router[f] = "digest" => flag[f].severity = "medium"

\* The flags that will take back a suspend of r: routed past the pause, and open or being enforced.
Holders(r) ==
    {f \in Raised : /\ flag[f].run = r
                    /\ router[f] \in {"enqueue", "done"}
                    /\ flag[f].status = "open" \/ Enforcing(f) # {}}

\* A living process is suspended at most as often as there are flags to take it back.
SuspendsCounted ==
    \A r \in FlaggedRuns : (process[r].state = "alive" /\ r \notin late \cup notReleased)
        => process[r].suspends <= Cardinality(Holders(r))

HitlInv == /\ HitlTypeOK /\ RequestsRight /\ FlagsRight /\ ResolutionDecided /\ KilledByDecision
        /\ SuspendsCounted /\ CriticalStops /\ AbortEnds

Pending == [stage : {"read"}, flag : Flags, decision : HitlDecisions, seen : {"none", "allowed", "aborted", "quarantined"}]
Committed == [stage : {"log", "enforce"}, flag : Flags, decision : HitlDecisions]

\* What the type invariant says of a request and of a raised flag.
LEMMA TypeFacts ==
    ASSUME HitlTypeOK
    PROVE  /\ \A q \in Requests : \/ request[q] = NoRequest
                                  \/ request[q] \in Pending /\ request[q].stage = "read"
                                  \/ request[q] \in Committed /\ request[q].stage \in {"log", "enforce"}
           /\ \A q \in Requests : Active(q) => request[q].flag \in Flags /\ request[q].decision \in HitlDecisions
           /\ \A f \in Flags : flag[f] # NoFlag => flag[f] \in FlagRow /\ flag[f].run \in FlaggedRuns
<1>1. \A q \in Requests : request[q] \in {NoRequest} \cup Pending \cup Committed
  BY DEF HitlTypeOK, Pending, Committed
<1>2. \A q \in Requests : \/ request[q] = NoRequest
                          \/ request[q] \in Pending /\ request[q].stage = "read"
                          \/ request[q] \in Committed /\ request[q].stage \in {"log", "enforce"}
  BY <1>1 DEF Pending, Committed
<1>3. \A q \in Requests : Active(q) => request[q].flag \in Flags /\ request[q].decision \in HitlDecisions
  BY <1>2 DEF Pending, Committed, Active, NoRequest
<1>4. \A f \in Flags : flag[f] # NoFlag => flag[f] \in FlagRow /\ flag[f].run \in FlaggedRuns
  BY DEF HitlTypeOK, FlagRow
<1> QED BY <1>2, <1>3, <1>4

\* The flags are finitely many, and so are the holders of a run, in this state and in the next.
LEMMA HoldersFinite ==
    /\ \A r : IsFiniteSet(Holders(r)) /\ Cardinality(Holders(r)) \in Nat
    /\ \A r : IsFiniteSet(Holders(r)') /\ Cardinality(Holders(r)') \in Nat
<1>1. \A S : S \subseteq Flags => IsFiniteSet(S) /\ Cardinality(S) \in Nat
  BY FS_Subset, FS_CardinalityType, HitlAssumption
<1>2. \A r : Holders(r) \subseteq Flags /\ Holders(r)' \subseteq Flags
  BY DEF Holders, Raised
<1> QED BY <1>1, <1>2

\* A step that leaves the process of r alone and lets no holder go keeps the count of r.
LEMMA MoreHoldersAt ==
    ASSUME HitlInv, late \subseteq late', notReleased \subseteq notReleased'
    PROVE  \A r \in FlaggedRuns :
               (/\ process'[r] = process[r] /\ Holders(r) \subseteq Holders(r)'
                /\ process'[r].state = "alive" /\ r \notin late' \cup notReleased')
                   => process'[r].suspends <= Cardinality(Holders(r)')
<1> SUFFICES ASSUME NEW r \in FlaggedRuns, process[r].state = "alive", r \notin late \cup notReleased,
                    Holders(r) \subseteq Holders(r)'
             PROVE  process[r].suspends <= Cardinality(Holders(r)')
  OBVIOUS
<1>1. process[r].suspends <= Cardinality(Holders(r)) /\ process[r].suspends \in Nat
  BY DEF HitlInv, SuspendsCounted, HitlTypeOK
<1>2. Cardinality(Holders(r)) <= Cardinality(Holders(r)')
  BY FS_Subset, HoldersFinite
<1> QED BY <1>1, <1>2, HoldersFinite

\* A step that leaves the processes alone and lets no holder go keeps the count.
LEMMA MoreHolders ==
    ASSUME HitlInv, process' = process, late' = late, notReleased' = notReleased,
           \A r \in FlaggedRuns : Holders(r) \subseteq Holders(r)'
    PROVE  SuspendsCounted'
<1> QED BY MoreHoldersAt DEF SuspendsCounted

\* The count says that a paused run is under review.
LEMMA CountRemembers == HitlInv => NoForgottenPause
<1> SUFFICES ASSUME HitlInv, NEW r \in FlaggedRuns, Paused(process[r]), r \notin late \cup notReleased
             PROVE  UnderReview(r)
  BY DEF NoForgottenPause
<1>1. process[r].suspends <= Cardinality(Holders(r)) /\ process[r].suspends \in Nat /\ process[r].suspends > 0
  BY DEF HitlInv, SuspendsCounted, HitlTypeOK, Paused
<1>2. IsFiniteSet(Holders(r)) /\ Cardinality(Holders(r)) \in Nat
  BY HoldersFinite
<1>3. Cardinality(Holders(r)) # 0
  BY <1>1, <1>2
<1>4. Holders(r) # {}
  BY <1>3, FS_EmptySet
<1> QED BY <1>4 DEF Holders, UnderReview

\* The initial state satisfies the inductive invariant.
LEMMA InitInv == HitlInit => HitlInv
<1> SUFFICES ASSUME HitlInit PROVE HitlInv
  OBVIOUS
<1> USE DEF HitlInit
<1>1. HitlTypeOK
  BY HitlAssumption DEF HitlTypeOK, Alive
<1>2. RequestsRight /\ FlagsRight
  BY DEF RequestsRight, FlagsRight, Active, NoRequest
<1>3. Raised = {}
  BY DEF Raised
<1>4. ResolutionDecided /\ KilledByDecision /\ CriticalStops /\ AbortEnds
  BY <1>3 DEF ResolutionDecided, KilledByDecision, CriticalStops, AbortEnds, Alive
<1>5. SuspendsCounted
  BY HoldersFinite DEF SuspendsCounted, Alive
<1> QED BY <1>1, <1>2, <1>4, <1>5 DEF HitlInv

LEMMA RaiseFlagInv ==
    ASSUME HitlInv, NEW f \in Flags, NEW r \in FlaggedRuns, NEW severity \in Severities, RaiseFlag(f, r, severity)
    PROVE  HitlInv'
<1>1. PICK row : row = [status |-> "open", run |-> r, severity |-> severity, resolution |-> "none"]
  OBVIOUS
<1>2. row \in FlagRow /\ row # NoFlag /\ row.status = "open" /\ row.resolution = "none" /\ row.severity = severity
  BY <1>1 DEF FlagRow, NoFlag
<1>3. /\ flag[f] = NoFlag /\ flag' = [flag EXCEPT ![f] = row] /\ router' = [router EXCEPT ![f] = FirstStep(severity)]
      /\ request' = request /\ started' = started /\ decisions' = decisions /\ trail' = trail /\ process' = process
      /\ enforcer' = enforcer
      /\ late' = late /\ notPaused' = notPaused /\ notReleased' = notReleased
  BY <1>1 DEF RaiseFlag, reviewVars
<1>4. FirstStep(severity) \in {"checkpoint", "enqueue", "digest", "done"}
      /\ (severity = "critical" => FirstStep(severity) = "checkpoint")
      /\ (FirstStep(severity) = "digest" => severity = "medium")
  BY DEF FirstStep, Severities
<1>5. HitlTypeOK'
  BY <1>2, <1>3, <1>4 DEF HitlInv, HitlTypeOK
<1>6. /\ flag'[f] = row /\ router'[f] = FirstStep(severity)
      /\ \A g \in Flags : g # f => flag'[g] = flag[g] /\ router'[g] = router[g]
  BY <1>3 DEF HitlInv, HitlTypeOK
<1>7. Raised' = Raised \cup {f} /\ f \notin Raised
  BY <1>2, <1>3, <1>6 DEF Raised
<1>8. decisions[f] = {}
  BY <1>3 DEF HitlInv, FlagsRight
<1>9. RequestsRight'
  <2>1. \A q \in Requests : Active(q) => request[q].flag \in Flags
    BY TypeFacts DEF HitlInv
  <2> QED BY <1>3, <1>6, <2>1 DEF HitlInv, RequestsRight, Active
<1>10. FlagsRight'
  BY <1>2, <1>3, <1>4, <1>6 DEF HitlInv, FlagsRight
<1>11. ResolutionDecided' /\ KilledByDecision'
  <2>1. Raised \subseteq Flags
    BY DEF Raised
  <2>2. ResolutionDecided'
    BY <1>2, <1>3, <1>6, <1>7, <1>8, <2>1 DEF HitlInv, ResolutionDecided
  <2>3. KilledByDecision'
    BY <1>3, <1>6, <1>7, <2>1 DEF HitlInv, KilledByDecision
  <2> QED BY <2>2, <2>3
<1>12. \A g \in Flags : Enforcing(g)' = Enforcing(g)
  BY <1>3 DEF Enforcing
<1>13. SuspendsCounted' /\ CriticalStops' /\ AbortEnds'
  <2>1. Raised \subseteq Flags /\ \A g \in Raised : flag'[g] = flag[g] /\ router'[g] = router[g]
    BY <1>6, <1>7 DEF Raised
  <2>2. SuspendsCounted'
    <3>1. \A p \in FlaggedRuns : Holders(p) \subseteq Holders(p)'
      BY <1>7, <1>12, <2>1 DEF Holders
    <3> QED BY <1>3, <3>1, MoreHolders
  <2>3. CriticalStops'
    BY <1>2, <1>3, <1>4, <1>6, <1>7, <2>1 DEF HitlInv, CriticalStops
  <2>4. AbortEnds'
    BY <1>3, <1>7, <1>8, <1>12, <2>1 DEF HitlInv, AbortEnds
  <2> QED BY <2>2, <2>3, <2>4
<1> QED BY <1>5, <1>9, <1>10, <1>11, <1>13 DEF HitlInv

\* The routing steps that do not touch the process.
LEMMA RouteInv ==
    ASSUME HitlInv, NEW f \in Flags, CaptureCheckpoint(f) \/ Enqueue(f) \/ AppendDigest(f)
    PROVE  HitlInv'
<1>1. /\ flag' = flag /\ request' = request /\ started' = started /\ decisions' = decisions /\ trail' = trail
      /\ process' = process /\ late' = late /\ notPaused' = notPaused /\ notReleased' = notReleased
  BY DEF CaptureCheckpoint, Enqueue, AppendDigest, reviewVars
<1>2. enforcer' = enforcer
  BY DEF CaptureCheckpoint, Enqueue, AppendDigest
<1>3. \/ router[f] = "checkpoint" /\ router' = [router EXCEPT ![f] = "pause"]
      \/ router[f] \in {"enqueue", "digest"} /\ router' = [router EXCEPT ![f] = "done"]
  BY DEF CaptureCheckpoint, Enqueue, AppendDigest
<1>4. HitlTypeOK'
  BY <1>1, <1>2, <1>3 DEF HitlInv, HitlTypeOK
<1>5. /\ router'[f] \in {"pause", "done"} /\ router[f] # "none"
      /\ router'[f] = "done" => router[f] \in {"enqueue", "digest"}
      /\ \A g \in Flags : g # f => router'[g] = router[g]
  BY <1>3 DEF HitlInv, HitlTypeOK
<1>6. RequestsRight' /\ FlagsRight' /\ ResolutionDecided' /\ KilledByDecision'
  BY <1>1, <1>5 DEF HitlInv, RequestsRight, FlagsRight, ResolutionDecided, KilledByDecision, Active, Raised
<1>7. SuspendsCounted' /\ AbortEnds'
  <2>1. Raised' = Raised /\ Raised \subseteq Flags /\ \A g \in Flags : Enforcing(g)' = Enforcing(g)
    BY <1>1 DEF Raised, Enforcing
  <2>2. \A g \in Flags : router[g] \in {"enqueue", "done"} => router'[g] \in {"enqueue", "done"}
    BY <1>3, <1>5 DEF HitlInv, HitlTypeOK
  <2>3. \A p \in FlaggedRuns : Holders(p) \subseteq Holders(p)'
    BY <1>1, <2>1, <2>2 DEF Holders
  <2>4. SuspendsCounted'
    BY <1>1, <2>3, MoreHolders
  <2>5. AbortEnds'
    BY <1>1, <2>1 DEF HitlInv, AbortEnds
  <2> QED BY <2>4, <2>5
<1>8. CriticalStops'
  <2>1. router[f] = "digest" => flag[f].severity # "critical"
    BY DEF HitlInv, FlagsRight
  <2>2. \A g \in Flags : /\ flag[g].severity = "critical" /\ router'[g] \in {"enqueue", "done"}
                         => router[g] \in {"enqueue", "done"}
    BY <1>5, <2>1
  <2> QED BY <1>1, <2>2 DEF HitlInv, CriticalStops, Raised
<1> QED BY <1>4, <1>6, <1>7, <1>8 DEF HitlInv

\* The pause: the run is under review, or its decision has been enforced and it is remembered as late.
LEMMA PauseInv == ASSUME HitlInv, NEW f \in Flags, Pause(f) PROVE HitlInv'
<1>1. PICK r : r = flag[f].run
  OBVIOUS
<1>2. /\ router[f] = "pause" /\ router' = [router EXCEPT ![f] = "enqueue"]
      /\ flag' = flag /\ request' = request /\ started' = started /\ decisions' = decisions /\ trail' = trail
      /\ enforcer' = enforcer /\ notReleased' = notReleased
  BY DEF Pause, reviewVars
<1>3. \/ /\ process' = [process EXCEPT ![r] = Suspended(process[r])]
         /\ late' = IF process'[r] # process[r] /\ flag[f].status = "resolved" /\ Enforcing(f) = {}
                    THEN late \cup {r} ELSE late
         /\ notPaused' = notPaused
      \/ notPaused' = notPaused \cup {r} /\ process' = process /\ late' = late
  BY <1>1 DEF Pause
<1>4. flag[f] # NoFlag /\ f \in Raised /\ flag[f] \in FlagRow /\ r \in FlaggedRuns /\ flag[f].status \in {"open", "resolved"}
  BY <1>1, <1>2, TypeFacts DEF HitlInv, FlagsRight, Raised, FlagRow
<1>5. /\ Suspended(process[r]) \in [state : {"alive", "killed", "exited"}, suspends : Nat]
      /\ Suspended(process[r]).state = process[r].state
      /\ process[r].state # "alive" => Suspended(process[r]) = process[r]
      /\ Suspended(process[r]).suspends <= process[r].suspends + 1
      /\ ~Running(Suspended(process[r])) /\ process[r].suspends \in Nat
      /\ Suspended(process[r]) # process[r] \/ Suspended(process[r]).suspends = process[r].suspends
  BY <1>4 DEF HitlInv, HitlTypeOK, Suspended, Running
<1>6. /\ router'[f] = "enqueue" /\ (\A g \in Flags : g # f => router'[g] = router[g])
      /\ (\A p \in FlaggedRuns : p # r => process'[p] = process[p])
      /\ process'[r] \in {process[r], Suspended(process[r])}
      /\ (Running(process'[r]) => r \in notPaused')
      /\ late \subseteq late' /\ notPaused \subseteq notPaused'
  BY <1>2, <1>3, <1>4, <1>5 DEF HitlInv, HitlTypeOK
<1>13. HitlTypeOK'
  BY <1>2, <1>3, <1>4, <1>5 DEF HitlInv, HitlTypeOK
<1>7. Raised' = Raised /\ \A g \in Flags : Enforcing(g)' = Enforcing(g)
  BY <1>2 DEF Raised, Enforcing
<1>8. RequestsRight' /\ FlagsRight' /\ ResolutionDecided'
  BY <1>2, <1>6, <1>7 DEF HitlInv, RequestsRight, FlagsRight, ResolutionDecided, Active
<1>9. KilledByDecision'
  BY <1>2, <1>4, <1>5, <1>6, <1>7 DEF HitlInv, KilledByDecision
<1>10. SuspendsCounted'
  <2>1. \A p \in FlaggedRuns : Holders(p) \subseteq Holders(p)'
    BY <1>2, <1>6, <1>7 DEF Holders, Raised
  <2>2. CASE process'[r] = process[r]
    <3>1. \A p \in FlaggedRuns : process'[p] = process[p] /\ late \subseteq late'
      BY <1>6, <2>2
    <3> QED BY <1>2, <2>1, <3>1, MoreHoldersAt DEF SuspendsCounted
  <2>3. CASE process'[r] # process[r]
    <3> SUFFICES ASSUME r \notin late' \cup notReleased', process'[r].state = "alive"
                 PROVE  process'[r].suspends <= Cardinality(Holders(r)')
      BY <1>2, <1>6, <2>1, MoreHoldersAt DEF SuspendsCounted
    <3>1. f \notin Holders(r) /\ Holders(r) \cup {f} \subseteq Holders(r)'
      <4>1. flag[f].status = "open" \/ Enforcing(f) # {}
        BY <1>3, <1>4, <2>3
      <4>2. f \in Holders(r)'
        BY <1>1, <1>2, <1>4, <1>6, <1>7, <4>1 DEF Holders
      <4> QED BY <1>2, <1>4, <2>1, <4>2 DEF Holders
    <3>2. process'[r].suspends <= process[r].suspends + 1 /\ process[r].state = "alive"
      BY <1>5, <1>6, <2>3
    <3>3. process[r].suspends <= Cardinality(Holders(r))
      BY <1>2, <1>4, <1>6, <3>2 DEF HitlInv, SuspendsCounted
    <3>4. Cardinality(Holders(r) \cup {f}) = Cardinality(Holders(r)) + 1
      BY <3>1, HoldersFinite, FS_AddElement
    <3>5. Cardinality(Holders(r) \cup {f}) <= Cardinality(Holders(r)')
      BY <3>1, HoldersFinite, FS_Subset
    <3>6. process'[r].suspends \in Nat
      BY <1>4, <1>13 DEF HitlTypeOK
    <3> QED BY <1>5, <3>2, <3>3, <3>4, <3>5, <3>6, HoldersFinite
  <2> QED BY <2>2, <2>3
<1>11. CriticalStops'
  <2>1. ASSUME NEW g \in Raised, flag[g].severity = "critical", router'[g] \in {"enqueue", "done"}
        PROVE  \/ ~Running(process'[flag[g].run])
               \/ flag[g].run \in notPaused'
               \/ \E h \in Raised : flag[h].run = flag[g].run /\ "continue" \in decisions[h]
    <3>1. g \in Flags /\ flag[g].run \in FlaggedRuns
      BY TypeFacts DEF HitlInv, Raised
    <3>2. CASE flag[g].run = r
      BY <1>6, <3>2
    <3>3. CASE flag[g].run # r
      BY <1>1, <1>6, <2>1, <3>1, <3>3 DEF HitlInv, CriticalStops
    <3> QED BY <3>2, <3>3
  <2> QED BY <1>2, <1>7, <2>1 DEF CriticalStops
<1>12. AbortEnds'
  <2>1. \A g \in Raised : flag[g].run \in FlaggedRuns /\ g \in Flags
    BY TypeFacts DEF HitlInv, Raised
  <2>2. \A p \in FlaggedRuns : process[p].state # "alive" => process'[p].state # "alive"
    BY <1>5, <1>6
  <2> QED BY <1>2, <1>7, <2>1, <2>2 DEF HitlInv, AbortEnds
<1> QED BY <1>8, <1>9, <1>10, <1>11, <1>12, <1>13 DEF HitlInv

LEMMA ReadFlagInv ==
    ASSUME HitlInv, NEW q \in Requests, NEW f \in Flags, NEW d \in HitlDecisions, ReadFlag(q, f, d)
    PROVE  HitlInv'
<1>1. PICK r : r = [stage |-> "read", flag |-> f, decision |-> d, seen |-> flag[f].resolution]
  OBVIOUS
<1>2. /\ request[q] = NoRequest /\ f \in Raised /\ started < MaxDecisions /\ started' = started + 1
      /\ request' = [request EXCEPT ![q] = r]
      /\ flag' = flag /\ decisions' = decisions /\ trail' = trail /\ router' = router /\ process' = process
      /\ enforcer' = enforcer
      /\ late' = late /\ notPaused' = notPaused /\ notReleased' = notReleased
  BY <1>1 DEF ReadFlag
<1>3. flag[f] \in FlagRow /\ flag[f] # NoFlag /\ flag[f].status \in {"open", "resolved"}
  BY <1>2, TypeFacts DEF HitlInv, Raised, FlagRow
<1>4. r \in Pending /\ r.stage = "read" /\ r.flag = f /\ r.seen = flag[f].resolution
  BY <1>1, <1>3 DEF Pending, FlagRow
<1>5. HitlTypeOK'
  <2>1. request' \in [Requests -> {NoRequest} \cup Pending \cup Committed]
    BY <1>2, <1>4 DEF HitlInv, HitlTypeOK, Pending, Committed
  <2>2. started' \in 0 .. MaxDecisions
    BY <1>2, HitlAssumption DEF HitlInv, HitlTypeOK
  <2> QED BY <1>2, <2>1, <2>2 DEF HitlInv, HitlTypeOK, Pending, Committed
<1>6. request'[q] = r /\ \A p \in Requests : p # q => request'[p] = request[p]
  BY <1>2 DEF HitlInv, HitlTypeOK
<1>7. r.seen # "none" => decisions[f] # {}
  BY <1>2, <1>3, <1>4 DEF HitlInv, FlagsRight, ResolutionDecided
<1>8. RequestsRight'
  BY <1>2, <1>3, <1>4, <1>6, <1>7 DEF HitlInv, RequestsRight, Active
<1>9. Raised' = Raised /\ \A g \in Flags : Enforcing(g)' = Enforcing(g)
  BY <1>2, <1>4, <1>6 DEF Raised, Enforcing, NoRequest
<1>10. FlagsRight' /\ ResolutionDecided' /\ KilledByDecision'
  BY <1>2, <1>9 DEF HitlInv, FlagsRight, ResolutionDecided, KilledByDecision
<1>11. SuspendsCounted' /\ CriticalStops'
  <2>1. \A p \in FlaggedRuns : Holders(p) \subseteq Holders(p)'
    BY <1>2, <1>9 DEF Holders, Raised
  <2>2. SuspendsCounted'
    BY <1>2, <2>1, MoreHolders
  <2> QED BY <1>2, <1>9, <2>2 DEF HitlInv, CriticalStops, Raised
<1>12. AbortEnds'
  <2>1. \A g \in Flags : \A p \in Enforcing(g) : request'[p] = request[p]
    BY <1>2, <1>6 DEF Enforcing, NoRequest
  <2> QED BY <1>2, <1>9, <2>1 DEF HitlInv, AbortEnds, Raised
<1> QED BY <1>5, <1>8, <1>10, <1>11, <1>12 DEF HitlInv

\* The commit: the flag is closed with the decision, or with the resolution another one had given it.
LEMMA CommitDecisionInv == ASSUME HitlInv, NEW q \in Requests, CommitDecision(q) PROVE HitlInv'
<1>1. PICK r, f, d : r = request[q] /\ f = r.flag /\ d = r.decision
  OBVIOUS
<1>2. /\ r.stage = "read" /\ r \in Pending /\ f \in Flags /\ d \in HitlDecisions /\ Active(q)
      /\ flag[f] \in FlagRow /\ flag[f] # NoFlag /\ f \in Raised
  <2>1. r.stage = "read" /\ Active(q)
    BY <1>1 DEF CommitDecision, Active
  <2>2. r \in Pending /\ f \in Flags /\ d \in HitlDecisions
    BY <1>1, <2>1, TypeFacts DEF HitlInv, Committed, NoRequest
  <2> QED BY <1>1, <2>1, <2>2, TypeFacts DEF HitlInv, RequestsRight, Raised
<1>3. PICK row : row = [status |-> "resolved", run |-> flag[f].run, severity |-> flag[f].severity,
                        resolution |-> IF RESOLUTION_FOR[d] = r.seen THEN flag[f].resolution ELSE RESOLUTION_FOR[d]]
  OBVIOUS
<1>4. PICK r2 : r2 = [stage |-> "log", flag |-> f, decision |-> d]
  OBVIOUS
<1>5. /\ decisions' = [decisions EXCEPT ![f] = decisions[f] \cup {d}] /\ request' = [request EXCEPT ![q] = r2]
      /\ started' = started /\ trail' = trail /\ router' = router /\ process' = process
      /\ enforcer' = enforcer
      /\ late' = late /\ notPaused' = notPaused /\ notReleased' = notReleased
  BY <1>1, <1>4 DEF CommitDecision
<1>6. flag' = [flag EXCEPT ![f] = row]
  <2>1. flag' = [flag EXCEPT ![f].status = "resolved",
                             ![f].resolution = IF RESOLUTION_FOR[d] = r.seen THEN @ ELSE RESOLUTION_FOR[d]]
    BY <1>1 DEF CommitDecision
  <2>2. flag \in [Flags -> FlagRow \cup {NoFlag}]
    BY DEF HitlInv, HitlTypeOK
  <2>3. \A g \in Flags : g # f => flag'[g] = flag[g]
    BY <1>2, <2>1, <2>2
  <2>4. flag'[f] = [[flag[f] EXCEPT !.status = "resolved"] EXCEPT
                        !.resolution = IF RESOLUTION_FOR[d] = r.seen THEN flag[f].resolution ELSE RESOLUTION_FOR[d]]
    BY <1>2, <2>1, <2>2 DEF FlagRow
  <2>5. flag'[f] = row
    BY <1>2, <1>3, <2>4 DEF FlagRow
  <2>6. DOMAIN flag' = Flags /\ flag' = [g \in Flags |-> flag'[g]]
    BY <2>1, <2>2
  <2> QED BY <1>2, <2>2, <2>3, <2>5, <2>6
<1>7. RESOLUTION_FOR[d] \in {"allowed", "aborted", "quarantined"}
  BY <1>2 DEF RESOLUTION_FOR, HitlDecisions
<1>8. /\ row \in FlagRow /\ row # NoFlag /\ row.status = "resolved" /\ row.run = flag[f].run
      /\ row.severity = flag[f].severity
      /\ row.resolution = IF RESOLUTION_FOR[d] = r.seen THEN flag[f].resolution ELSE RESOLUTION_FOR[d]
  BY <1>2, <1>3, <1>7 DEF FlagRow, NoFlag
<1>9. r2 \in Committed /\ r2.stage = "log" /\ r2.flag = f /\ r2.decision = d
  BY <1>2, <1>4 DEF Committed
<1>10. /\ request'[q] = r2 /\ (\A p \in Requests : p # q => request'[p] = request[p])
       /\ flag'[f] = row /\ (\A g \in Flags : g # f => flag'[g] = flag[g])
       /\ decisions'[f] = decisions[f] \cup {d} /\ (\A g \in Flags : g # f => decisions'[g] = decisions[g])
  BY <1>2, <1>5, <1>6 DEF HitlInv, HitlTypeOK
<1>11. HitlTypeOK'
  <2>1. request' \in [Requests -> {NoRequest} \cup Pending \cup Committed]
    BY <1>5, <1>9 DEF HitlInv, HitlTypeOK, Pending, Committed
  <2>2. flag' \in [Flags -> FlagRow \cup {NoFlag}] /\ decisions' \in [Flags -> SUBSET HitlDecisions]
    BY <1>2, <1>5, <1>6, <1>8 DEF HitlInv, HitlTypeOK
  <2> QED BY <1>5, <2>1, <2>2 DEF HitlInv, HitlTypeOK, Pending, Committed
<1>12. Raised' = Raised /\ Raised \subseteq Flags /\ \A g \in Raised : flag'[g].run = flag[g].run /\ flag'[g].severity = flag[g].severity
  BY <1>2, <1>8, <1>10 DEF Raised
<1>13. RequestsRight'
  <2>1. ASSUME NEW p \in Requests, p # q
        PROVE  /\ Active(p) => flag'[request[p].flag] # NoFlag
               /\ request[p].stage \in {"log", "enforce"} => request[p].decision \in decisions'[request[p].flag]
               /\ request[p].stage = "read" /\ request[p].seen # "none" => decisions'[request[p].flag] # {}
    <3>1. Active(p) => request[p].flag \in Flags
      BY TypeFacts DEF HitlInv
    <3> QED BY <1>8, <1>10, <3>1 DEF HitlInv, RequestsRight, Active
  <2> QED BY <1>8, <1>9, <1>10, <2>1 DEF RequestsRight, Active
<1>14. FlagsRight'
  BY <1>2, <1>5, <1>8, <1>10 DEF HitlInv, FlagsRight
<1>15. ResolutionDecided'
  <2>1. row.resolution \in {RESOLUTION_FOR[e] : e \in decisions'[f]}
    <3>1. CASE RESOLUTION_FOR[d] = r.seen
      <4>1. decisions[f] # {}
        BY <1>1, <1>2, <1>7, <3>1 DEF HitlInv, RequestsRight
      <4>2. flag[f].resolution \in {RESOLUTION_FOR[e] : e \in decisions[f]}
        BY <1>2, <4>1 DEF HitlInv, ResolutionDecided
      <4> QED BY <1>8, <1>10, <3>1, <4>2
    <3>2. CASE RESOLUTION_FOR[d] # r.seen
      BY <1>8, <1>10, <3>2
    <3> QED BY <3>1, <3>2
  <2> QED BY <1>8, <1>10, <1>12, <2>1 DEF HitlInv, ResolutionDecided
<1>16. \A g \in Flags : decisions[g] \subseteq decisions'[g]
  BY <1>10
<1>17. KilledByDecision'
  <2>1. \A e \in trail : e[1] \in Flags
    BY DEF HitlInv, HitlTypeOK
  <2>2. \A e \in trail' : e[2] \in decisions'[e[1]]
    BY <1>5, <1>16, <2>1 DEF HitlInv, KilledByDecision
  <2>3. ASSUME NEW p \in FlaggedRuns, process'[p].state = "killed"
        PROVE  \E g \in Raised' : flag'[g].run = p /\ decisions'[g] \cap {"abort", "quarantine"} # {}
    <3>1. PICK g \in Raised : flag[g].run = p /\ decisions[g] \cap {"abort", "quarantine"} # {}
      BY <1>5, <2>3 DEF HitlInv, KilledByDecision
    <3>2. decisions'[g] \cap {"abort", "quarantine"} # {}
      BY <1>12, <1>16, <3>1
    <3> QED BY <1>12, <3>1, <3>2
  <2> QED BY <2>2, <2>3 DEF KilledByDecision
<1>18. \A g \in Flags : Enforcing(g)' = IF g = f THEN Enforcing(g) \cup {q} ELSE Enforcing(g)
  BY <1>1, <1>2, <1>9, <1>10 DEF Enforcing
<1>19. SuspendsCounted'
  <2>1. \A g \in Raised : (flag[g].status = "open" \/ Enforcing(g) # {})
                        => (flag'[g].status = "open" \/ Enforcing(g)' # {})
    BY <1>10, <1>12, <1>18
  <2>2. \A p \in FlaggedRuns : Holders(p) \subseteq Holders(p)'
    BY <1>5, <1>12, <2>1 DEF Holders
  <2> QED BY <1>5, <2>2, MoreHolders
<1>20. CriticalStops'
  <2>1. ASSUME NEW g \in Raised, flag'[g].severity = "critical", router[g] \in {"enqueue", "done"}
        PROVE  \/ ~Running(process[flag'[g].run]) \/ flag'[g].run \in notPaused
               \/ \E h \in Raised : flag'[h].run = flag'[g].run /\ "continue" \in decisions'[h]
    BY <1>12, <1>16, <2>1 DEF HitlInv, CriticalStops
  <2> QED BY <1>5, <1>12, <2>1 DEF CriticalStops
<1>21. AbortEnds'
  <2>1. ASSUME NEW g \in Raised, decisions'[g] \cap {"abort", "quarantine"} # {},
               \A p \in Enforcing(g)' : request'[p].decision = "continue"
        PROVE  process[flag[g].run].state # "alive" \/ flag[g].run \in notReleased
    <3>1. decisions[g] \cap {"abort", "quarantine"} # {}
      <4>1. CASE g = f
        BY <1>2, <1>9, <1>10, <1>18, <2>1, <4>1
      <4>2. CASE g # f
        BY <1>10, <1>12, <2>1, <4>2
      <4> QED BY <4>1, <4>2
    <3>2. \A p \in Enforcing(g) : p # q /\ p \in Requests
      BY <1>1, <1>2 DEF Enforcing
    <3>3. \A p \in Enforcing(g) : request[p].decision = "continue"
      BY <1>10, <1>12, <1>18, <2>1, <3>2
    <3> QED BY <3>1, <3>3 DEF HitlInv, AbortEnds
  <2> QED BY <1>5, <1>12, <2>1 DEF AbortEnds
<1> QED BY <1>11, <1>13, <1>14, <1>15, <1>17, <1>19, <1>20, <1>21 DEF HitlInv

\* A commit that fails is forgotten, and was not being enforced.
LEMMA FailCommitInv == ASSUME HitlInv, NEW q \in Requests, FailCommit(q) PROVE HitlInv'
<1>1. /\ request[q].stage = "read" /\ request' = [request EXCEPT ![q] = NoRequest]
      /\ flag' = flag /\ decisions' = decisions /\ trail' = trail /\ started' = started /\ router' = router
      /\ process' = process /\ enforcer' = enforcer
      /\ late' = late /\ notPaused' = notPaused /\ notReleased' = notReleased
  BY DEF FailCommit
<1>2. HitlTypeOK'
  BY <1>1 DEF HitlInv, HitlTypeOK
<1>3. request'[q] = NoRequest /\ \A p \in Requests : p # q => request'[p] = request[p]
  BY <1>1 DEF HitlInv, HitlTypeOK
<1>4. Raised' = Raised /\ \A g \in Flags : Enforcing(g)' = Enforcing(g)
  BY <1>1, <1>3 DEF Raised, Enforcing, NoRequest
<1>5. RequestsRight' /\ FlagsRight' /\ ResolutionDecided' /\ KilledByDecision'
  BY <1>1, <1>3, <1>4 DEF HitlInv, RequestsRight, FlagsRight, ResolutionDecided, KilledByDecision, Active, NoRequest
<1>6. SuspendsCounted' /\ CriticalStops'
  <2>1. \A p \in FlaggedRuns : Holders(p) \subseteq Holders(p)'
    BY <1>1, <1>4 DEF Holders, Raised
  <2>2. SuspendsCounted'
    BY <1>1, <2>1, MoreHolders
  <2> QED BY <1>1, <1>4, <2>2 DEF HitlInv, CriticalStops, Raised
<1>7. AbortEnds'
  <2>1. \A g \in Flags : \A p \in Enforcing(g) : request'[p] = request[p]
    BY <1>1, <1>3 DEF Enforcing
  <2> QED BY <1>1, <1>4, <2>1 DEF HitlInv, AbortEnds, Raised
<1> QED BY <1>2, <1>5, <1>6, <1>7 DEF HitlInv

LEMMA AppendTrailInv == ASSUME HitlInv, NEW q \in Requests, AppendTrail(q) PROVE HitlInv'
<1>1. PICK r : r = request[q]
  OBVIOUS
<1>2. r.stage = "log" /\ r \in Committed /\ Active(q) /\ r.decision \in decisions[r.flag]
  <2>1. r.stage = "log" /\ Active(q)
    BY <1>1 DEF AppendTrail, Active
  <2> QED BY <1>1, <2>1, TypeFacts DEF HitlInv, RequestsRight, NoRequest
<1>3. PICK r2 : r2 = [r EXCEPT !.stage = "enforce"]
  OBVIOUS
<1>4. r2 \in Committed /\ r2.stage = "enforce" /\ r2.flag = r.flag /\ r2.decision = r.decision
  BY <1>2, <1>3 DEF Committed
<1>5. /\ request' = [request EXCEPT ![q] = r2] /\ trail' \subseteq trail \cup {<<r.flag, r.decision>>}
      /\ flag' = flag /\ decisions' = decisions /\ started' = started /\ router' = router
      /\ process' = process /\ enforcer' = enforcer
      /\ late' = late /\ notPaused' = notPaused /\ notReleased' = notReleased
  BY <1>1, <1>3 DEF AppendTrail
<1>6. request'[q] = r2 /\ \A p \in Requests : p # q => request'[p] = request[p]
  BY <1>5 DEF HitlInv, HitlTypeOK
<1>7. HitlTypeOK'
  <2>1. request' \in [Requests -> {NoRequest} \cup Pending \cup Committed]
    BY <1>4, <1>5 DEF HitlInv, HitlTypeOK, Pending, Committed
  <2>2. trail' \subseteq Flags \X HitlDecisions
    BY <1>2, <1>5 DEF HitlInv, HitlTypeOK, Committed
  <2> QED BY <1>5, <2>1, <2>2 DEF HitlInv, HitlTypeOK, Pending, Committed
<1>8. Raised' = Raised /\ \A g \in Flags : Enforcing(g)' = Enforcing(g)
  BY <1>1, <1>2, <1>4, <1>5, <1>6 DEF Raised, Enforcing
<1>9. \A p \in Requests : /\ request'[p].decision = request[p].decision /\ request'[p].flag = request[p].flag
                          /\ request'[p].stage = "read" => request'[p] = request[p]
                          /\ Active(p)' => Active(p)
                          /\ request'[p].stage \in {"log", "enforce"} => request[p].stage \in {"log", "enforce"}
  BY <1>1, <1>2, <1>4, <1>6 DEF Active
<1>10. RequestsRight' /\ FlagsRight' /\ ResolutionDecided'
  BY <1>5, <1>8, <1>9 DEF HitlInv, RequestsRight, FlagsRight, ResolutionDecided
<1>11. KilledByDecision'
  BY <1>2, <1>5, <1>8 DEF HitlInv, KilledByDecision
<1>12. SuspendsCounted' /\ CriticalStops'
  <2>1. \A p \in FlaggedRuns : Holders(p) \subseteq Holders(p)'
    BY <1>5, <1>8 DEF Holders, Raised
  <2>2. SuspendsCounted'
    BY <1>5, <2>1, MoreHolders
  <2> QED BY <1>5, <1>8, <2>2 DEF HitlInv, CriticalStops, Raised
<1>13. AbortEnds'
  <2>1. \A g \in Flags : Enforcing(g) \subseteq Requests
    BY DEF Enforcing
  <2> QED BY <1>5, <1>8, <1>9, <2>1 DEF HitlInv, AbortEnds, Raised
<1> QED BY <1>7, <1>10, <1>11, <1>12, <1>13 DEF HitlInv

\* The enforcement: of a committed decision, on the run of its flag.
LEMMA EnforceInv == ASSUME HitlInv, NEW q \in Requests, Enforce(q) PROVE HitlInv'
<1>1. PICK r, f, d, run : r = request[q] /\ f = r.flag /\ d = r.decision /\ run = flag[f].run
  OBVIOUS
<1>2. /\ r.stage = "enforce" /\ f \in Flags /\ d \in HitlDecisions /\ d \in decisions[f]
      /\ f \in Raised /\ run \in FlaggedRuns
  <2>1. r.stage = "enforce" /\ Active(q)
    BY <1>1 DEF Enforce, Active
  <2>2. f \in Flags /\ d \in HitlDecisions /\ flag[f] # NoFlag
    BY <1>1, <2>1, TypeFacts DEF HitlInv, RequestsRight
  <2> QED BY <1>1, <2>1, <2>2, TypeFacts DEF HitlInv, RequestsRight, Raised
<1>3. /\ request' = [request EXCEPT ![q] = NoRequest]
      /\ \/ process' = [process EXCEPT ![run] = Enforced(process[run], d)] /\ notReleased' = notReleased
         \/ notReleased' = notReleased \cup {run} /\ process' = process
      /\ flag' = flag /\ decisions' = decisions /\ trail' = trail /\ started' = started /\ router' = router
      /\ enforcer' = enforcer /\ late' = late /\ notPaused' = notPaused
  BY <1>1 DEF Enforce
<1>4. /\ process[run] \in [state : {"alive", "killed", "exited"}, suspends : Nat]
      /\ Enforced(process[run], d) \in [state : {"alive", "killed", "exited"}, suspends : Nat]
      /\ process[run].state # "alive" => Enforced(process[run], d) = process[run]
      /\ d # "continue" => Enforced(process[run], d).state # "alive"
      /\ Enforced(process[run], d).state = "killed" => process[run].state = "killed" \/ d # "continue"
      /\ \/ Enforced(process[run], d).suspends = 0
         \/ Enforced(process[run], d).suspends <= process[run].suspends - 1
         \/ Enforced(process[run], d).state # "alive"
  BY <1>2 DEF HitlInv, HitlTypeOK, Enforced, Resumed
<1>5. /\ request'[q] = NoRequest /\ (\A p \in Requests : p # q => request'[p] = request[p])
      /\ (\A p \in FlaggedRuns : p # run => process'[p] = process[p]) /\ notReleased \subseteq notReleased'
      /\ \/ process'[run] = Enforced(process[run], d)
         \/ process'[run] = process[run] /\ run \in notReleased'
  BY <1>2, <1>3 DEF HitlInv, HitlTypeOK
<1>6. HitlTypeOK'
  BY <1>2, <1>3, <1>4 DEF HitlInv, HitlTypeOK
<1>7. Raised' = Raised /\ \A g \in Flags : /\ Enforcing(g)' = Enforcing(g) \ {q}
                                           /\ g # f => Enforcing(g)' = Enforcing(g)
  <2>1. request'[q].stage = "idle"
    BY <1>5 DEF NoRequest
  <2>2. Raised' = Raised
    BY <1>3 DEF Raised
  <2>3. ASSUME NEW g \in Flags PROVE Enforcing(g)' = Enforcing(g) \ {q}
    BY <1>5, <2>1 DEF Enforcing
  <2>4. ASSUME NEW g \in Flags, g # f PROVE q \notin Enforcing(g)
    BY <1>1, <2>4 DEF Enforcing
  <2> QED BY <2>2, <2>3, <2>4
<1>8. RequestsRight' /\ FlagsRight' /\ ResolutionDecided'
  BY <1>3, <1>5, <1>7 DEF HitlInv, RequestsRight, FlagsRight, ResolutionDecided, Active, NoRequest
<1>9. \A p \in FlaggedRuns : process[p].state # "alive" => process'[p] = process[p]
  BY <1>4, <1>5
<1>10. KilledByDecision'
  <2>1. process'[run].state = "killed" => process[run].state = "killed" \/ d \in {"abort", "quarantine"}
    BY <1>2, <1>4, <1>5 DEF HitlDecisions
  <2>2. d \in {"abort", "quarantine"} => decisions[f] \cap {"abort", "quarantine"} # {}
    BY <1>2
  <2>3. ASSUME NEW p \in FlaggedRuns, process'[p].state = "killed"
        PROVE  \E g \in Raised : flag[g].run = p /\ decisions[g] \cap {"abort", "quarantine"} # {}
    <3>1. CASE process[p].state = "killed"
      BY <3>1 DEF HitlInv, KilledByDecision
    <3>2. CASE process[p].state # "killed"
      <4>1. p = run /\ d \in {"abort", "quarantine"}
        BY <1>5, <2>1, <2>3, <3>2
      <4> QED BY <1>1, <1>2, <2>2, <4>1
    <3> QED BY <3>1, <3>2
  <2> QED BY <1>3, <1>7, <2>3 DEF HitlInv, KilledByDecision
<1>11. SuspendsCounted'
  <2>1. Holders(run) \ {f} \subseteq Holders(run)' /\ \A p \in FlaggedRuns : p # run => Holders(p) \subseteq Holders(p)'
    <3>1. \A g \in Raised : g \in Flags /\ flag'[g] = flag[g] /\ router'[g] = router[g]
      BY <1>3 DEF Raised
    <3>2. \A g \in Raised : g # f => Enforcing(g)' = Enforcing(g)
      BY <1>7, <3>1
    <3> QED BY <1>1, <1>7, <3>1, <3>2 DEF Holders
  <2>2. CASE run \in notReleased'
    BY <1>3, <1>5, <2>1, <2>2, MoreHoldersAt DEF SuspendsCounted
  <2>3. CASE run \notin notReleased'
    <3> SUFFICES ASSUME run \notin late \cup notReleased, process'[run].state = "alive"
                 PROVE  process'[run].suspends <= Cardinality(Holders(run)')
      BY <1>3, <1>5, <2>1, MoreHoldersAt DEF SuspendsCounted
    <3>1. process'[run] = Enforced(process[run], d) /\ process[run].state = "alive"
      BY <1>4, <1>5, <2>3
    <3>2. process[run].suspends <= Cardinality(Holders(run))
      BY <1>2, <3>1 DEF HitlInv, SuspendsCounted
    <3>3. Cardinality(Holders(run) \ {f}) >= Cardinality(Holders(run)) - 1
      <4>1. Cardinality(Holders(run) \ {f}) =
              IF f \in Holders(run) THEN Cardinality(Holders(run)) - 1 ELSE Cardinality(Holders(run))
        BY HoldersFinite, FS_RemoveElement
      <4>2. Cardinality(Holders(run)) \in Nat
        BY HoldersFinite
      <4> QED BY <4>1, <4>2
    <3>4. Cardinality(Holders(run) \ {f}) <= Cardinality(Holders(run)')
      BY <2>1, HoldersFinite, FS_Subset
    <3>5. Cardinality(Holders(run) \ {f}) \in Nat
      BY HoldersFinite, FS_RemoveElement, FS_CardinalityType
    <3> QED BY <1>4, <3>1, <3>2, <3>3, <3>4, <3>5, HoldersFinite
  <2> QED BY <2>2, <2>3
<1>12. CriticalStops'
  <2>1. Running(process'[run]) /\ ~Running(process[run]) => d = "continue"
    BY <1>4, <1>5 DEF Running
  <2>2. ASSUME NEW g \in Raised, flag[g].severity = "critical", router[g] \in {"enqueue", "done"}
        PROVE  \/ ~Running(process'[flag[g].run]) \/ flag[g].run \in notPaused
               \/ \E h \in Raised : flag[h].run = flag[g].run /\ "continue" \in decisions[h]
    <3>1. flag[g].run \in FlaggedRuns
      BY TypeFacts DEF HitlInv, Raised
    <3> QED BY <1>1, <1>2, <1>5, <2>1, <2>2, <3>1 DEF HitlInv, CriticalStops
  <2> QED BY <1>3, <1>7, <2>2 DEF CriticalStops
<1>13. AbortEnds'
  <2>1. ASSUME NEW g \in Raised, decisions[g] \cap {"abort", "quarantine"} # {},
               \A p \in Enforcing(g)' : request'[p].decision = "continue"
        PROVE  process'[flag[g].run].state # "alive" \/ flag[g].run \in notReleased'
    <3>1. g \in Flags /\ flag[g].run \in FlaggedRuns
      BY TypeFacts DEF HitlInv, Raised
    <3>2. \A p \in Enforcing(g) : p \in Requests /\ (p # q => request[p].decision = "continue")
      BY <1>5, <1>7, <2>1, <3>1 DEF Enforcing
    <3>3. CASE q \in Enforcing(g) /\ d # "continue"
      <4>1. flag[g].run = run
        BY <1>1, <3>3 DEF Enforcing
      <4> QED BY <1>4, <1>5, <3>3, <4>1
    <3>4. CASE ~(q \in Enforcing(g) /\ d # "continue")
      <4>1. process[flag[g].run].state # "alive" \/ flag[g].run \in notReleased
        BY <1>1, <2>1, <3>2, <3>4 DEF HitlInv, AbortEnds
      <4> QED BY <1>5, <1>9, <3>1, <4>1
    <3> QED BY <3>3, <3>4
  <2> QED BY <1>3, <1>7, <2>1 DEF AbortEnds
<1> QED BY <1>6, <1>8, <1>10, <1>11, <1>12, <1>13 DEF HitlInv

LEMMA ExitInv == ASSUME HitlInv, NEW r \in FlaggedRuns, Exit(r) PROVE HitlInv'
<1>1. /\ process[r].state = "alive" /\ process' = [process EXCEPT ![r].state = "exited"]
      /\ flag' = flag /\ request' = request /\ started' = started /\ decisions' = decisions /\ trail' = trail
      /\ router' = router /\ enforcer' = enforcer
      /\ late' = late /\ notPaused' = notPaused /\ notReleased' = notReleased
  BY DEF Exit, reviewVars, Running
<1>2. HitlTypeOK'
  BY <1>1 DEF HitlInv, HitlTypeOK
<1>3. process'[r].state = "exited" /\ \A p \in FlaggedRuns : p # r => process'[p] = process[p]
  BY <1>1 DEF HitlInv, HitlTypeOK
<1>4. Raised' = Raised /\ \A g \in Flags : Enforcing(g)' = Enforcing(g)
  BY <1>1 DEF Raised, Enforcing
<1>5. RequestsRight' /\ FlagsRight' /\ ResolutionDecided' /\ KilledByDecision'
  BY <1>1, <1>3, <1>4 DEF HitlInv, RequestsRight, FlagsRight, ResolutionDecided, KilledByDecision, Active
<1>6. \A g \in Raised : g \in Flags /\ flag[g].run \in FlaggedRuns
  BY TypeFacts DEF HitlInv, Raised
<1>7. SuspendsCounted'
  <2>1. \A p \in FlaggedRuns : Holders(p)' = Holders(p)
    BY <1>1, <1>4, <1>6 DEF Holders
  <2> QED BY <1>1, <1>3, <2>1 DEF HitlInv, SuspendsCounted
<1>8. CriticalStops' /\ AbortEnds'
  BY <1>1, <1>3, <1>4, <1>6 DEF HitlInv, CriticalStops, AbortEnds, Running
<1> QED BY <1>2, <1>5, <1>7, <1>8 DEF HitlInv

LEMMA StutterInv == ASSUME HitlInv, UNCHANGED hitlVars PROVE HitlInv'
<1> USE DEF hitlVars
<1>1. HitlTypeOK' /\ RequestsRight' /\ FlagsRight'
  BY DEF HitlInv, HitlTypeOK, RequestsRight, FlagsRight, Active
<1>2. ResolutionDecided' /\ KilledByDecision' /\ SuspendsCounted' /\ CriticalStops' /\ AbortEnds'
  BY DEF HitlInv, ResolutionDecided, KilledByDecision, SuspendsCounted, Holders, CriticalStops, AbortEnds, Enforcing,
         Raised
<1> QED BY <1>1, <1>2 DEF HitlInv

\* Every step keeps the inductive invariant, hence every reachable state satisfies it.
LEMMA AlwaysInv == HitlSpec => []HitlInv
<1>1. HitlInv /\ [HitlNext]_hitlVars => HitlInv'
  <2> SUFFICES ASSUME HitlInv, [HitlNext]_hitlVars PROVE HitlInv'
    OBVIOUS
  <2>1. ASSUME NEW f \in Flags, RouteStep(f) PROVE HitlInv'
    BY <2>1, RouteInv, PauseInv DEF RouteStep
  <2>2. ASSUME NEW q \in Requests, RequestStep(q) PROVE HitlInv'
    BY <2>2, CommitDecisionInv, FailCommitInv, AppendTrailInv, EnforceInv DEF RequestStep
  <2> QED BY <2>1, <2>2, RaiseFlagInv, ReadFlagInv, ExitInv, StutterInv DEF HitlNext
<1> QED BY <1>1, InitInv, PTL DEF HitlSpec

(* However many reviewers decide at once and whichever commits fail: a flag *)
(* is closed exactly when a decision of it is recorded, with the resolution *)
(* of a recorded one; the enforcer kills, and the audit log speaks of, only *)
(* what was committed.                                                      *)
THEOREM DecisionsAreFollowed == HitlSpec => []DecisionsStand
<1>1. HitlInv => DecisionsStand
  BY DEF HitlInv, DecisionsStand
<1> QED BY <1>1, AlwaysInv, PTL

(* A paused run has an open flag or a decision on its way, unless the       *)
(* decision was enforced before the pause, or had no effect.                *)
THEOREM PausesRemembered == HitlSpec => []NoForgottenPause
<1> QED BY CountRemembers, AlwaysInv, PTL

(* Once the routing of a critical flag is past the pause, its run goes on   *)
(* only after some flag of it was decided with continue, or the pause had   *)
(* no effect.                                                               *)
THEOREM CriticalFlagsStop == HitlSpec => []CriticalStops
<1>1. HitlInv => CriticalStops
  BY DEF HitlInv
<1> QED BY <1>1, AlwaysInv, PTL

(* Once a committed abort or quarantine has been enforced the process is    *)
(* gone for good, whatever is decided and routed at the same time.          *)
THEOREM AbortsAreFinal == HitlSpec => []AbortEnds
<1>1. HitlInv => AbortEnds
  BY DEF HitlInv
<1> QED BY <1>1, AlwaysInv, PTL
===============================================================================
