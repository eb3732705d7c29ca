------------------------------ MODULE Provenance ------------------------------
(***************************************************************************)
(* The provenance store of memory entries and the influence-chain walk     *)
(* over it (detectors/asi06_cross_run.py).                                 *)
(*                                                                         *)
(* entries maps the entries written so far to their record: the run that   *)
(* wrote them, whether they are tagged suspicious and whether they are     *)
(* quarantined.  reads lists what each run read, in order.                 *)
(***************************************************************************)
EXTENDS Integers, Sequences, FiniteSets, SequencesExt

CONSTANTS Runs, Entries, MAX_HOPS

ASSUME ProvenanceAssumption == MAX_HOPS \in Nat

VARIABLES entries, reads
storeVars == <<entries, reads>>

UNTRUSTED_SOURCES == {"web", "tool_output", "rag"}
Sources == UNTRUSTED_SOURCES \cup {"user"}

\* injection_score: 40 plus 20 a hit, at most 100; a text without a hit scores 0.
injection_score(hits) == IF hits = 0 THEN 0 ELSE Min({100, 40 + 20 * hits})
SUSPICION_THRESHOLD == 40

StoreInit ==
    /\ entries = [e \in {} |-> {}]
    /\ reads = [r \in Runs |-> <<>>]

\* Entry ids are fresh.
write_entry(e, run, source, hits) ==
    /\ e \in Entries \ DOMAIN entries
    /\ LET tagged == source \in UNTRUSTED_SOURCES /\ injection_score(hits) >= SUSPICION_THRESHOLD
       IN  entries' = [x \in DOMAIN entries \cup {e} |->
                IF x = e THEN [writer |-> run, tagged |-> tagged, quarantined |-> FALSE]
                ELSE entries[x]]
    /\ UNCHANGED reads

\* A read of an entry that was never written is recorded too.
record_read(run, e) ==
    /\ reads' = [reads EXCEPT ![run] = IF Contains(@, e) THEN @ ELSE Append(@, e)]
    /\ UNCHANGED entries

entries_read_in_run(run) == reads[run]

(* The loops of walk_influence_chain.  frontier lists <<run, hop>>, links   *)
(* <<entry, writer, reader, hop>> in the order they are found.              *)
Inspect(w, e, reader, hop) ==
    IF e \notin DOMAIN entries \/ ~entries[e].tagged \/ \E i \in 1..Len(w.links) : w.links[i][1] = e THEN w
    ELSE [frontier |-> Append(w.frontier, <<entries[e].writer, hop + 1>>),
          visited  |-> w.visited,
          links    |-> Append(w.links, <<e, entries[e].writer, reader, hop>>)]

\* The entries that reader read, one after the other.
InspectReads(w, reader, hop) ==
    LET read == entries_read_in_run(reader)
        after[i \in 0..Len(read)] == IF i = 0 THEN w ELSE Inspect(after[i - 1], read[i], reader, hop)
    IN  after[Len(read)]

\* One pass of the while loop.
WalkPass(w) ==
    LET reader == Head(w.frontier)[1]
        hop    == Head(w.frontier)[2]
        popped == [w EXCEPT !.frontier = Tail(@)]
    IN  IF w.frontier = <<>> THEN w
        ELSE IF hop > MAX_HOPS \/ reader \in w.visited THEN popped
        ELSE InspectReads([popped EXCEPT !.visited = @ \cup {reader}], reader, hop)

\* Every pass but the first is for a link of its own.
Chain(trigger) ==
    LET passes == 1 + Cardinality(DOMAIN entries)
        walk[n \in 0..passes] ==
            IF n = 0 THEN [frontier |-> <<<<trigger, 1>>>>, visited |-> {}, links |-> <<>>]
            ELSE WalkPass(walk[n - 1])
    IN  walk[passes].links
Poisoned(links) == {links[i][1] : i \in 1..Len(links)}

walk_influence_chain(trigger) ==
    LET links == Chain(trigger)
    IN  /\ entries' = [e \in DOMAIN entries |->
              IF e \in Poisoned(links) THEN [entries[e] EXCEPT !.quarantined = TRUE] ELSE entries[e]]
        /\ UNCHANGED reads

-----------------------------------------------------------------------------
(* Reference: a path leads back from run r by n - 1 tagged entries, each   *)
(* read by one run of the path and written by the next one.                 *)
TaggedReads(r) == {e \in Range(reads[r]) : e \in DOMAIN entries /\ entries[e].tagged}
PoisonedBy(r) == {entries[e].writer : e \in TaggedReads(r)}
IsPath(r, p) == p[1] = r /\ \A k \in 1..Len(p) - 1 : p[k + 1] \in PoisonedBy(p[k])
Reached(r, n) == {p[n] : p \in {q \in [1..n -> Runs] : IsPath(r, q)}}
Influencing(r) == UNION {TaggedReads(s) : s \in UNION {Reached(r, n) : n \in 1..MAX_HOPS}}
=============================================================================
