----------------------------- MODULE Redaction -----------------------------
(* Personal data at rest: the write-time redactor (events/store.py,         *)
(* audit_log/redactor.py) and the scanner that looks for what got past it   *)
(* (scanner/memory_log_scan.py), which is also started from a shell of its  *)
(* own.  A payload has texts at paths of keys, and perhaps already the mark *)
(* of the redactor; a text is the set of its spans: what some recognizers   *)
(* match, or the placeholder that took its place.                           *)
EXTENDS Integers, SequencesExt, Bags

CONSTANTS Runs, TenantOf,     \* runs and their tenants
          Paths,              \* where a payload has strings
          Payloads,           \* what harnesses send
          Metadata,           \* memory_entries: [id, run, flags], the run may be missing
          MaxEvents,          \* bound: rows of events
          MaxScans            \* bound: scans

\* The key _pii_redacted: missing, or in the payload when it came.
NoMark == {"no mark"}
Supplied == {"supplied"}

(* The recognizers.  Presidio runs its own, which check more than the       *)
(* regexes do: a span has the types the regexes give it, in whose order one *)
(* of them is replaced, and those Presidio gives it.  Either may be empty.  *)
_REGEX_PATTERNS == <<"GENERIC_API_KEY", "US_SSN", "CREDIT_CARD", "EMAIL_ADDRESS", "PHONE_NUMBER">>
_HIGH_SEVERITY_ENTITIES == {"US_SSN", "CREDIT_CARD", "PRIVATE_KEY", "GENERIC_API_KEY"}

Raw(regex, presidio) == [regex |-> regex, presidio |-> presidio, tag |-> ""]
Tag(type) == [regex |-> {}, presidio |-> {}, tag |-> type]

ASSUME RedactionAssumption ==
    /\ MaxEvents \in Nat /\ MaxScans \in Nat /\ IsFiniteSet(Metadata)
    /\ \A p \in Payloads \cup {m.flags : m \in Metadata} :
          /\ DOMAIN p.texts = Paths /\ p.mark \in {NoMark, Supplied}
          /\ \A path \in Paths : \A span \in p.texts[path] : span.regex \subseteq Range(_REGEX_PATTERNS)

(* One pattern after the other: a span goes to the first that matches it. *)
_regex_redact(text) ==
    LET Matching(span) == {i \in DOMAIN _REGEX_PATTERNS : _REGEX_PATTERNS[i] \in span.regex}
    IN  {IF Matching(span) = {} THEN span ELSE Tag(_REGEX_PATTERNS[Min(Matching(span))]) : span \in text}

(* Overlaps are settled by score; whichever type is named, the span is gone. *)
_presidio_redact(text) ==
    {IF span.presidio = {} THEN span ELSE Tag(CHOOSE type \in span.presidio : TRUE) : span \in text}

redact_text(text, backend) == IF backend = "presidio" THEN _presidio_redact(text) ELSE _regex_redact(text)

(* A process looks with its backend; on a text at which Presidio's analyzer *)
(* raises it looks with the regexes.  Bound: one such text in a call.       *)
Engine(backend, raising) == [backend |-> backend, raising |-> raising]
Raising(texts, backend) == {{}} \cup {{text} : text \in IF backend = "presidio" THEN texts \ {{}} ELSE {}}
detect_entities(text, engine) ==
    UNION {IF text \in engine.raising THEN span.regex ELSE span[engine.backend] : span \in text}

VARIABLES process,    \* the auditor's environment: its redactor and EVENTS_REDACT_AT_REST
          runRows,    \* runs
          events,     \* events
          memory,     \* memory_entries
          flags,      \* flags of category PII_AT_REST
          scan,       \* the scan under way
          stored,     \* events stored so far
          scans       \* scans begun
restVars == <<process, runRows, events, memory, flags, scan, stored, scans>>

(* A key of _STRUCTURAL_KEYS, or one that begins with an underscore, hides   *)
(* everything below it.                                                     *)
_STRUCTURAL_KEYS == {"agent_id", "status", "store", "source", "model", "_note"}
Skipped(path) == \E i \in DOMAIN path : path[i] \in _STRUCTURAL_KEYS

\* Mutated form: the walk does not go into nested values.
WalkTopLevel(texts, backend) ==
    [path \in Paths |-> IF Skipped(path) \/ Len(path) > 1 THEN texts[path] ELSE redact_text(texts[path], backend)]

_walk_and_redact(texts, backend) ==
    [path \in Paths |-> IF Skipped(path) THEN texts[path] ELSE redact_text(texts[path], backend)]

_detect_entities_skipping_structural(texts, engine) ==
    UNION {detect_entities(texts[path], engine) : path \in {p \in Paths : ~Skipped(p)}}

(* What is stored: without an entity the payload as it came, its own mark   *)
(* included, and else the redacted texts under a mark of the redactor's.    *)
_redact_payload(payload, engine) ==
    LET entities == _detect_entities_skipping_structural(payload.texts, engine)
    IN  IF ~process.redact_at_rest \/ entities = {} THEN payload
        ELSE [texts |-> _walk_and_redact(payload.texts, engine.backend), mark |-> entities]

Processes == [backend : {"presidio", "regex"}, redact_at_rest : BOOLEAN]
NoScan == [pc |-> "none"]
RestInit ==
    /\ process \in Processes
    /\ memory = Metadata
    /\ runRows = Runs /\ events = {} /\ flags = {}
    /\ scan = NoScan /\ stored = 0 /\ scans = 0

(* store_event.  When Presidio raises while it redacts, nothing is stored,  *)
(* and the same without the row of the run.                                 *)
store_event(run, payload, raising) ==
    LET row == _redact_payload(payload, Engine(process.backend, raising))
    IN  /\ run \in runRows /\ stored < MaxEvents
        /\ stored' = stored + 1
        /\ events' = events \cup {[id |-> stored + 1, run |-> run, texts |-> row.texts, mark |-> row.mark,
                                   backend |-> process.backend]}
        /\ UNCHANGED <<process, runRows, memory, flags, scan, scans>>

(* The auditor is started again, with or without Presidio's model. *)
Restart(p) ==
    /\ p # process
    /\ process' = p
    /\ UNCHANGED <<runRows, events, memory, flags, scan, stored, scans>>

(* What has the mark is not looked at again, whoever put it there. *)
_extract_entities_from_payload(row, engine) ==
    IF row.mark # NoMark THEN {} ELSE UNION {detect_entities(row.texts[path], engine) : path \in Paths}

Counts(rows, engine) ==
    LET Found(row) == _extract_entities_from_payload(row, engine)
    IN  [type \in UNION {Found(row) : row \in rows} |-> Cardinality({row \in rows : type \in Found(row)})]

(* run_scan reads the tenant's events since some time ... *)
scan_events(tenant, engine, since) ==
    LET rows == {e \in events : TenantOf[e.run] = tenant /\ e.id >= since}
        Of(run) == {e \in rows : e.run = run /\ _extract_entities_from_payload(e, engine) # {}}
    IN  /\ scan.pc \in {"none", "done"} /\ scans < MaxScans
        /\ scans' = scans + 1
        /\ scan' = [pc |-> "memory", tenant |-> tenant, engine |-> engine, seen |-> {e.id : e \in rows},
                    failed |-> {},
                    findings |-> [run \in {r \in Runs : Of(r) # {}} |-> Counts(Of(run), engine)]]
        /\ UNCHANGED <<process, runRows, events, memory, flags, stored>>

(* ... adds the metadata of its memory entries, if there is such a table ... *)
scan_memory(table_exists, engine) ==
    LET Row(m) == [id |-> m.id, texts |-> m.flags.texts, mark |-> m.flags.mark]
        rows == {m \in memory : /\ table_exists /\ m.run \in Runs /\ TenantOf[m.run] = scan.tenant
                                /\ _extract_entities_from_payload(Row(m), engine) # {}}
        Of(run) == {Row(m) : m \in {n \in rows : n.run = run}}
        Before(run) == IF run \in DOMAIN scan.findings THEN scan.findings[run] ELSE EmptyBag
    IN  /\ scan.pc = "memory"
        /\ scan' = [scan EXCEPT !.pc = "persist",
                       !.findings = [run \in DOMAIN scan.findings \cup {m.run : m \in rows} |->
                                        Before(run) (+) Counts(Of(run), engine)]]
        /\ UNCHANGED <<process, runRows, events, memory, flags, stored, scans>>

severity_hint(counts) ==
    IF _HIGH_SEVERITY_ENTITIES \cap DOMAIN counts # {} THEN "high"
    ELSE IF FoldFunction(+, 0, counts) >= 5 THEN "medium" ELSE "low"

Without(run) == Restrict(scan.findings, DOMAIN scan.findings \ {run})

(* ... and writes one verdict and one flag per run ... *)
Persist(run) ==
    /\ scan.pc = "persist" /\ run \in DOMAIN scan.findings \cap runRows
    /\ flags' = flags \cup {[run |-> run, counts |-> scan.findings[run], severity |-> severity_hint(scan.findings[run])]}
    /\ scan' = [scan EXCEPT !.findings = Without(run)]
    /\ UNCHANGED <<process, runRows, events, memory, stored, scans>>

(* ... or fails to, and goes on with the next run. *)
PersistFails(run) ==
    /\ scan.pc = "persist" /\ run \in DOMAIN scan.findings
    /\ scan' = [scan EXCEPT !.findings = Without(run), !.failed = @ \cup {run}]
    /\ UNCHANGED <<process, runRows, events, memory, flags, stored, scans>>

ScanCompleted ==
    /\ scan.pc = "persist" /\ DOMAIN scan.findings = {}
    /\ scan' = [scan EXCEPT !.pc = "done"]
    /\ UNCHANGED <<process, runRows, events, memory, flags, stored, scans>>

(* POST /admin/reset truncates the tables of every tenant. *)
reset_demo_data ==
    /\ runRows # {}
    /\ runRows' = {} /\ events' = {} /\ memory' = {} /\ flags' = {}
    /\ UNCHANGED <<process, scan, stored, scans>>

(* POST /admin/scanner/scan runs in the auditor's process, and the command  *)
(* line in one of its own, where Presidio may be there or not.              *)
Texts(rows) == UNION {Range(row.texts) : row \in rows}
run_scan(tenant, backend, since) ==
    \E raising \in Raising(Texts({e \in events : e.mark = NoMark}), backend) : scan_events(tenant, Engine(backend, raising), since)
run_pii_scanner(tenant, since) == run_scan(tenant, process.backend, since)
main(tenant, backend, since) == run_scan(tenant, backend, since)

RestNext == \/ \E run \in Runs, payload \in Payloads :
                  \E raising \in Raising(Range(payload.texts), process.backend) : store_event(run, payload, raising)
            \/ \E p \in Processes : Restart(p)
            \/ \E run \in Runs, since \in {0, stored} :
                  \/ run_pii_scanner(TenantOf[run], since)
                  \/ \E backend \in {"presidio", "regex"} : main(TenantOf[run], backend, since)
            \/ scan # NoScan /\ \E table_exists \in BOOLEAN :
                  \E raising \in Raising(Texts({m.flags : m \in memory}), scan.engine.backend) :
                      scan_memory(table_exists, Engine(scan.engine.backend, raising))
            \/ \E run \in Runs : Persist(run) \/ PersistFails(run)
            \/ ScanCompleted
            \/ reset_demo_data

-----------------------------------------------------------------------------
(* When a scan is over, whatever its recognizers match in an unmarked event *)
(* that was at rest when it began is in a flag of the event's run, or the   *)
(* flag of that run could not be written.  A scan takes a marked event for  *)
(* redacted; one the redactor marked has left nothing that the engine it    *)
(* redacted with knows, but under structural keys.  Redactor and scanner    *)
(* may have run with different engines, Presidio may have raised at any of  *)
(* the texts, redaction been switched on and off, and the tables reset.     *)
(* Not promised, since the code does not keep it: that a marked event has   *)
(* nothing the scanner's engine knows (Presidio rejects numbers that the    *)
(* regexes take, and they know fewer types), nor anything of an event that  *)
(* came with a mark.                                                        *)
Flagged(e, types) == \E f \in flags : f.run = e.run /\ types \subseteq DOMAIN f.counts
Clean(text, backend) == \A span \in text : span[backend] = {}
LeaksSurface ==
    /\ scan.pc = "done" =>
          \A e \in {x \in events : x.id \in scan.seen} :
              LET found == _extract_entities_from_payload(e, scan.engine)
              IN  found = {} \/ e.run \in scan.failed \/ Flagged(e, found)
    /\ \A e \in events : e.mark \notin {NoMark, Supplied} =>
          \A path \in Paths : Skipped(path) \/ Clean(e.texts[path], e.backend)
=============================================================================
