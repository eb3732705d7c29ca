------------------------------- MODULE AuditLog -------------------------------
(***************************************************************************)
(* The hash-chained audit log: AuditLogWriter.append as the transaction it *)
(* runs (advisory lock, read the last chain hash, insert, commit), the     *)
(* verifier's walk over the chain, and concurrent writers that may fail at *)
(* any point of the transaction.                                           *)
(*                                                                         *)
(* sha256 is ideal (collision free): a payload hash is the payload itself  *)
(* and sha256(prev || payload_hash) is Append(prev, payload_hash), so a    *)
(* chain hash is the list of the payload hashes it covers and the 32 zero  *)
(* bytes of genesis are the empty list.                                    *)
(***************************************************************************)
EXTENDS Integers, FiniteSets, Sequences

CONSTANTS
    Tenants,    \* tenant ids
    Writers,    \* coroutines of the API / CLI processes that call append
    Payloads,   \* hashed contents: payload plus actor_type, action, target
    MaxSeq,     \* bound: how many values the audit_log.seq sequence hands out
    None        \* no writer, no call

Calls == [tenant_id : Tenants, payload : Payloads]

ASSUME MaxSeqAssumption == MaxSeq \in Nat
ASSUME NoneAssumption == None \notin Writers \cup Calls

VARIABLES
    table,      \* the committed rows of audit_log
    nextSeq,    \* next value of the sequence behind audit_log.seq (never rolled back)
    lock,       \* tenant -> the transaction holding its advisory lock
    pc,         \* writer -> where it is in append
    call,       \* writer -> the arguments of its call
    prevChain,  \* writer -> prev_chain, the hash it read
    newSeq      \* writer -> seq of the row it inserted and did not yet commit

vars == <<table, nextSeq, lock, pc, call, prevChain, newSeq>>

GENESIS_HASH == << >>

\* Mutated form: the entry is hashed on its own, prev_chain_hash is left out.
ChainHashWithoutPrev(prev, payloadHash) == << payloadHash >>

compute_chain_hash(prev, payloadHash) == Append(prev, payloadHash)

Row == [seq : 1 .. MaxSeq, tenant_id : Tenants, payload_hash : Payloads,
        chain_hash : Seq(Payloads)]

RowsOf(t) == {r \in table : r.tenant_id = t}

\* The row SELECT ... ORDER BY seq DESC LIMIT 1 returns from a non-empty set of rows.
LastRow(rows) == CHOOSE r \in rows : \A q \in rows : q.seq <= r.seq

\* scalar_one_or_none() or GENESIS_HASH
LastChain(rows) == IF rows = {} THEN GENESIS_HASH ELSE LastRow(rows).chain_hash

Before(rows, r) == {q \in rows : q.seq < r.seq}

\* The verifier's loop compares a row with the STORED hash of the row before it.
Links(rows, r) == r.chain_hash = compute_chain_hash(LastChain(Before(rows, r)), r.payload_hash)

Breaks(rows) == {r \in rows : ~Links(rows, r)}

\* verify_chain: first_break_seq is 0 when the chain is intact (None in the code).
verify_chain(rows) ==
    [ok |-> Breaks(rows) = {},
     count |-> Cardinality(rows),
     first_break_seq |->
        IF Breaks(rows) = {} THEN 0
        ELSE (CHOOSE r \in Breaks(rows) : \A q \in Breaks(rows) : r.seq <= q.seq).seq]

chain_length(t) == Cardinality(RowsOf(t))

Init ==
    /\ table = {}
    /\ nextSeq = 1
    /\ lock = [t \in Tenants |-> None]
    /\ pc = [w \in Writers |-> "idle"]
    /\ call = [w \in Writers |-> None]
    /\ prevChain = [w \in Writers |-> GENESIS_HASH]
    /\ newSeq = [w \in Writers |-> 0]

Tenant(w) == call[w].tenant_id

\* append is called: the payload is hashed and the transaction is opened.
Begin(w, t, p) ==
    /\ pc[w] = "idle"
    /\ pc' = [pc EXCEPT ![w] = "lock"]
    /\ call' = [call EXCEPT ![w] = [tenant_id |-> t, payload |-> p]]
    /\ UNCHANGED <<table, nextSeq, lock, prevChain, newSeq>>

\* Mutated form: the advisory lock is not waited for.
AcquireLockNoWait(w) ==
    /\ pc[w] = "lock"
    /\ lock' = [lock EXCEPT ![Tenant(w)] = w]
    /\ pc' = [pc EXCEPT ![w] = "read"]
    /\ UNCHANGED <<table, nextSeq, call, prevChain, newSeq>>

\* pg_advisory_xact_lock(tenant): waits until the lock is free.
AcquireLock(w) ==
    /\ pc[w] = "lock"
    /\ lock[Tenant(w)] = None
    /\ lock' = [lock EXCEPT ![Tenant(w)] = w]
    /\ pc' = [pc EXCEPT ![w] = "read"]
    /\ UNCHANGED <<table, nextSeq, call, prevChain, newSeq>>

\* Read the chain hash of the tenant's last committed row.
ReadPrev(w) ==
    /\ pc[w] = "read"
    /\ prevChain' = [prevChain EXCEPT ![w] = LastChain(RowsOf(Tenant(w)))]
    /\ pc' = [pc EXCEPT ![w] = "insert"]
    /\ UNCHANGED <<table, nextSeq, lock, call, newSeq>>

\* The flush at the end of session.begin(): INSERT takes the next seq; the row is not visible yet.
Insert(w) ==
    /\ pc[w] = "insert"
    /\ nextSeq <= MaxSeq
    /\ newSeq' = [newSeq EXCEPT ![w] = nextSeq]
    /\ nextSeq' = nextSeq + 1
    /\ pc' = [pc EXCEPT ![w] = "commit"]
    /\ UNCHANGED <<table, lock, call, prevChain>>

NewRow(w) ==
    [seq |-> newSeq[w], tenant_id |-> Tenant(w), payload_hash |-> call[w].payload,
     chain_hash |-> compute_chain_hash(prevChain[w], call[w].payload)]

\* Mutated form: a session-level lock (pg_advisory_lock), which outlives the transaction.
EndTransactionKeepsLock(w) ==
    /\ pc' = [pc EXCEPT ![w] = "idle"]
    /\ call' = [call EXCEPT ![w] = None]
    /\ prevChain' = [prevChain EXCEPT ![w] = GENESIS_HASH]
    /\ newSeq' = [newSeq EXCEPT ![w] = 0]
    /\ UNCHANGED lock

\* The end of the transaction releases the lock and append's local variables are gone.
EndTransaction(w) ==
    /\ lock' = [lock EXCEPT ![Tenant(w)] = IF @ = w THEN None ELSE @]
    /\ pc' = [pc EXCEPT ![w] = "idle"]
    /\ call' = [call EXCEPT ![w] = None]
    /\ prevChain' = [prevChain EXCEPT ![w] = GENESIS_HASH]
    /\ newSeq' = [newSeq EXCEPT ![w] = 0]

\* COMMIT publishes the row.
Commit(w) ==
    /\ pc[w] = "commit"
    /\ table' = table \cup {NewRow(w)}
    /\ EndTransaction(w)
    /\ UNCHANGED nextSeq

\* A statement fails, the connection is lost or the process dies: Postgres rolls the transaction
\* back and releases its lock; the value taken from the sequence is not given back.
Rollback(w) ==
    /\ pc[w] # "idle"
    /\ EndTransaction(w)
    /\ UNCHANGED <<table, nextSeq>>

Next == \E w \in Writers :
    \/ \E t \in Tenants, p \in Payloads : Begin(w, t, p)
    \/ AcquireLock(w)
    \/ ReadPrev(w)
    \/ Insert(w)
    \/ Commit(w)
    \/ Rollback(w)

\* A writer that can take its next statement takes it; Postgres grants a lock to its waiters in
\* turn, so a waiter is not overtaken for ever (strong fairness). Calls and failures are not fair.
Fairness == \A w \in Writers :
    /\ SF_vars(AcquireLock(w))
    /\ WF_vars(ReadPrev(w))
    /\ WF_vars(Insert(w))
    /\ WF_vars(Commit(w))

Spec == Init /\ [][Next]_vars

FairSpec == Spec /\ Fairness

------------------------------------------------------------------------------

TypeOK ==
    /\ table \subseteq Row
    /\ nextSeq \in 1 .. MaxSeq + 1
    /\ lock \in [Tenants -> Writers \cup {None}]
    /\ pc \in [Writers -> {"idle", "lock", "read", "insert", "commit"}]
    /\ call \in [Writers -> Calls \cup {None}]
    /\ prevChain \in [Writers -> Seq(Payloads)]
    /\ newSeq \in [Writers -> 0 .. MaxSeq]

\* Whatever the interleaving and the failures of the writers, the verifier accepts every tenant's
\* chain at every moment: nobody chained off a hash another writer had already chained off.
ChainIntact == \A t \in Tenants : verify_chain(RowsOf(t)).ok

\* A committed row is never changed or removed, and a new row goes behind every row of its tenant:
\* a writer that inserted early and committed late would break the order the verifier walks in.
AppendOnly ==
    [][/\ table \subseteq table'
       /\ \A r \in table' \ table : \A q \in RowsOf(r.tenant_id) : q.seq < r.seq]_vars

\* Rows other than the last: r has a successor in rows.
Interior(rows, r) == \E q \in rows : q.seq > r.seq

\* Deleting any row but the last, exchanging two rows, rewriting a hash of a row, or putting a row
\* between two rows makes verify_chain fail, and it reports a break no later than the place touched
\* (the row after a deleted one).
TamperDetected ==
    \A t \in Tenants :
        LET rows == RowsOf(t)
            Caught(changed, seq) == LET v == verify_chain(changed)
                                    IN  ~v.ok /\ v.first_break_seq <= seq
            Swap(r, q) == (rows \ {r, q}) \cup {[r EXCEPT !.seq = q.seq], [q EXCEPT !.seq = r.seq]}
            Next1(r) == CHOOSE q \in rows : q.seq > r.seq /\ \A s \in rows : s.seq > r.seq => q.seq <= s.seq
        IN  /\ \A r \in rows : Interior(rows, r) => Caught(rows \ {r}, Next1(r).seq)
            /\ \A r, q \in rows : r.seq < q.seq => Caught(Swap(r, q), r.seq)
            /\ \A r \in rows : \A p \in Payloads \ {r.payload_hash} :
                   Caught((rows \ {r}) \cup {[r EXCEPT !.payload_hash = p]}, r.seq)
            /\ \A r \in rows : \A q \in table \ {r} : q.chain_hash # r.chain_hash =>
                   Caught((rows \ {r}) \cup {[r EXCEPT !.chain_hash = q.chain_hash]}, r.seq)
            /\ \A r \in rows, p \in Payloads, s \in 1 .. MaxSeq :
                   (Interior(rows, r) /\ r.seq < s /\ s < Next1(r).seq) =>
                   Caught(rows \cup {[seq |-> s, tenant_id |-> t, payload_hash |-> p,
                                      chain_hash |-> compute_chain_hash(r.chain_hash, p)]}, Next1(r).seq)

\* Every append ends: it commits or is rolled back, unless the sequence is used up.
AppendEnds ==
    \A w \in Writers : pc[w] = "lock" ~> (pc[w] = "idle" \/ nextSeq > MaxSeq)

\* The table implements the per-tenant histories a caller of append thinks of.
history == [t \in Tenants |-> LastChain(RowsOf(t))]
History == INSTANCE AppendOnlyLog WITH log <- history
RefinesAppendOnlyLog == History!Spec
==============================================================================
