------------------------------- MODULE Search -------------------------------
(* The query language of the audit store (audit_log/query.py), its routes   *)
(* (api/search_routes.py) and the tenant scope they run in (db/tenancy.py,  *)
(* migration 0002).  Requests share pooled connections, whose role bypasses *)
(* row-level security outside of a scope.  The resources verdicts and       *)
(* audit_log differ from events in the names of their fields only.          *)
EXTENDS Integers, SequencesExt

CONSTANTS Tenants,       \* tenants, whose users search
          Null,          \* SQL's NULL
          Tables,        \* contents of the tables to search
          Queries,       \* bodies of POST /audit/search
          Stored,        \* bodies of POST /audit/saved-queries: [query, params]
          Overrides,     \* the params of the requests that run a saved query
          Now, Ago,      \* the time, and the hours of the tokens now-Nh and now-Nd
          MAX_LIMIT,
          MaxRequests    \* bound: requests

(* Queries are typed, tables finite, and a decision belongs to its flag's    *)
(* tenant: hitl_decisions has no tenant_id of its own, and the one its rows *)
(* have here only serves to say whose they are.                             *)
ASSUME SearchAssumption ==
    /\ Null \notin Tenants \cup {"ts", "created_at"} /\ MAX_LIMIT \in Nat
    /\ \A query \in Queries \cup {body.query : body \in Stored} :
          /\ DOMAIN query = {"resource", "filter", "limit", "order_by", "desc"}
          /\ query.resource \in {"events", "flags"} /\ query.limit \in Int
          /\ Len(query.filter) \in Nat /\ DOMAIN query.filter = 1..Len(query.filter)
    /\ \A t \in Tables :
          /\ \A resource \in {"events", "flags"} : IsFiniteSet(t[resource]) /\ \A row \in t[resource] : row.ts \in Int
          /\ \A h \in t.hitl_decisions, f \in t.flags : h.flag_id = f.id => h.tenant_id = f.tenant_id

(* _ALLOWLIST: the column behind a field.  The tool of a flag is accepted   *)
(* and filters nothing.                                                     *)
_ALLOWLIST(resource) ==
    IF resource = "events"
    THEN [tenant_id |-> "tenant_id", ts |-> "ts", run_id |-> "run_id",
          payload__tool_name |-> "tool_name", evidence__event__tool_name |-> "tool_name"]
    ELSE [tenant_id |-> "tenant_id", created_at |-> "ts", run_id |-> "run_id",
          evidence__event__tool_name |-> "TRUE"]

_DOT_ALIAS(resource, key) ==
    CASE key = "evidence.event.tool_name" -> "evidence__event__tool_name"
      [] key = "payload.tool_name" /\ resource = "events" -> "payload__tool_name"
      [] OTHER -> key

(* A filter is a sequence of [key, ops]; a plain value is an eq.  Two        *)
(* spellings of a field become one key, and the later value stays.          *)
_normalise_filter_keys(query) ==
    LET Put(filter, name, ops) == [field \in DOMAIN filter \cup {name} |-> IF field = name THEN ops ELSE filter[field]]
        normalised[i \in 0..Len(query.filter)] ==
            IF i = 0 THEN <<>>
            ELSE Put(normalised[i - 1], _DOT_ALIAS(query.resource, query.filter[i].key), query.filter[i].ops)
    IN  normalised[Len(query.filter)]

_cap_limit(limit) == IF limit > MAX_LIMIT THEN MAX_LIMIT ELSE limit

model_validate(query) ==
    /\ query.limit >= 1
    /\ DOMAIN _normalise_filter_keys(query) \subseteq DOMAIN _ALLOWLIST(query.resource)

(* The members of a list, which is a set here, are left as they are. *)
_coerce_time(op, value) == IF op # "in" /\ value \in DOMAIN Ago THEN Now - Ago[value] ELSE value

(* SQL: a comparison with NULL is not true, but == None becomes IS NULL. *)
Holds(cell, op, value) ==
    CASE op = "eq" -> cell = value
      [] op = "in" -> cell # Null /\ cell \in value
      [] op = "gte" -> cell # Null /\ cell >= value
      [] op = "lte" -> cell # Null /\ cell <= value

_apply_operator(row, column, ops) == \A op \in DOMAIN ops : Holds(row[column], op, _coerce_time(op, ops[op]))

(* The conditions that are compiled: the fields that are kept, with their   *)
(* columns, but for the text TRUE.                                          *)
Filtering(query) ==
    LET filter == _normalise_filter_keys(query)
    IN  Restrict(filter, {field \in DOMAIN filter : _ALLOWLIST(query.resource)[field] # "TRUE"})

(* build_select raises on an unknown operator or order_by, SQLAlchemy on a  *)
(* comparison by size with None, and the text TRUE cannot be sorted by.     *)
Compiles(query) ==
    LET columns == _ALLOWLIST(query.resource)
    IN  /\ \A field \in DOMAIN Filtering(query) :
              LET ops == Filtering(query)[field]
              IN  /\ DOMAIN ops \subseteq {"gte", "lte", "eq", "in"}
                  /\ \A op \in {"gte", "lte"} \cap DOMAIN ops : ops[op] # Null
        /\ query.order_by # Null => query.order_by \in DOMAIN columns /\ columns[query.order_by] # "TRUE"

(* The driver refuses to compare a timestamp with anything but a time. *)
Executes(query) ==
    \A field \in {f \in DOMAIN Filtering(query) : _ALLOWLIST(query.resource)[f] = "ts"} :
        LET ops == Filtering(query)[field]
            Time(value) == value = Null \/ value \in Int
        IN  \A op \in DOMAIN ops : IF op = "in" THEN \A v \in ops[op] : Time(v) ELSE Time(_coerce_time(op, ops[op]))

Where(query, row) ==
    \A field \in DOMAIN Filtering(query) :
        _apply_operator(row, _ALLOWLIST(query.resource)[field], Filtering(query)[field])

(* ORDER BY a time, and LIMIT: which rows come first; ties are the          *)
(* database's to break.                                                     *)
Precedes(query, row, other) ==
    /\ query.order_by # Null
    /\ LET column == _ALLOWLIST(query.resource)[query.order_by]
       IN  IF query.desc THEN row[column] > other[column] ELSE row[column] < other[column]
Selections(query, S) ==
    {R \in SUBSET S : /\ Cardinality(R) = Min({_cap_limit(query.limit), Cardinality(S)})
                      /\ \A row \in S \ R : \A kept \in R : ~Precedes(query, row, kept)}

(* _bind_params: one parameter after the other replaces its placeholder in   *)
(* the text of the query, also where an earlier one has just put it.        *)
Bound(value, params) ==
    LET Sub(text, param) == IF text = param.name THEN param.value ELSE text
    IN  FoldLeft(Sub, value, params)
_bind_params(query, params) ==
    LET Ops(ops) == [op \in DOMAIN ops |-> IF op = "in" THEN {Bound(v, params) : v \in ops[op]} ELSE Bound(ops[op], params)]
        filter == [i \in DOMAIN query.filter |-> [query.filter[i] EXCEPT !.ops = Ops(query.filter[i].ops)]]
    IN  [query EXCEPT !.filter = filter]

(* {**saved.params, **body.params}: an override keeps the place of its name. *)
Merged(params, overrides) ==
    LET Named(name, seq) == SelectSeq(seq, LAMBDA p : p.name = name)
    IN  [i \in DOMAIN params |-> IF Named(params[i].name, overrides) = <<>> THEN params[i]
                                 ELSE Named(params[i].name, overrides)[1]]
        \o SelectSeq(overrides, LAMBDA p : Named(p.name, params) = <<>>)

VARIABLES tables,     \* the rows of events, flags and hitl_decisions
          conn,       \* the pooled connection: role and app.tenant_id of the transaction
          request,    \* the request that has it
          saved,      \* saved_queries
          served      \* requests so far
searchVars == <<tables, conn, request, saved, served>>

Superuser == [role |-> "auditor", tenant |-> Null]
NoRequest == [pc |-> "none"]
SearchInit == /\ tables \in Tables
              /\ conn = Superuser /\ request = NoRequest /\ saved = {} /\ served = 0

(* The policy tenant_isolation, which only the role auditor_api is under. *)
_create_policy(row) == conn.role = "auditor" \/ conn.tenant = Null \/ row.tenant_id = conn.tenant
Visible(rows) == {row \in rows : _create_policy(row)}

\* Mutated form: the role is not switched.
ScopeAsOwner(tenant) == conn' = [conn EXCEPT !.tenant = tenant]

tenant_scope(tenant) == conn' = [role |-> "auditor_api", tenant |-> tenant]

Arrives(tenant, body) ==
    /\ request.pc = "none" /\ served < MaxRequests
    /\ served' = served + 1
    /\ request' = [body EXCEPT !.tenant = tenant]
    /\ tenant_scope(tenant)
    /\ UNCHANGED <<tables, saved>>

(* POST /audit/search, validated before the route is entered. *)
search(tenant, query) ==
    /\ model_validate(query) /\ Compiles(query)
    /\ Arrives(tenant, [pc |-> "select", tenant |-> Null, query |-> query, from |-> Null])

_insert_saved_query(tenant, body) ==
    saved' = saved \cup {[id |-> served + 1, tenant_id |-> tenant, query |-> body.query, params |-> body.params]}

(* POST /audit/saved-queries, by an admin: the query is validated with its   *)
(* placeholders in it, and not compiled.                                    *)
create_saved_query(tenant, body) ==
    /\ request.pc = "none" /\ served < MaxRequests
    /\ model_validate(body.query)
    /\ served' = served + 1
    /\ _insert_saved_query(tenant, body)
    /\ UNCHANGED <<tables, conn, request>>

(* POST /audit/saved-queries/{id}/run: the row is read in the scope, too. *)
run_saved_query(tenant, id, overrides) ==
    Arrives(tenant, [pc |-> "load", tenant |-> Null, id |-> id, overrides |-> overrides])
Load ==
    LET found == {q \in Visible(saved) : q.id = request.id}
        query == LET q == CHOOSE q \in found : TRUE IN _bind_params(q.query, Merged(q.params, request.overrides))
    IN  /\ request.pc = "load"
        /\ request' = IF found = {} \/ ~model_validate(query) \/ ~Compiles(query) THEN [pc |-> "error"]
                      ELSE [pc |-> "select", tenant |-> request.tenant, query |-> query, from |-> request.id]
        /\ UNCHANGED <<tables, conn, saved, served>>

(* run_query: an error of the driver is no ValueError, and ends the request. *)
run_query ==
    LET query == request.query
    IN  /\ request.pc = "select"
        /\ IF Executes(query)
           THEN \E rows \in Selections(query, {row \in Visible(tables[query.resource]) : Where(query, row)}) :
                   request' = [pc |-> "answer", tenant |-> request.tenant, query |-> query, from |-> request.from,
                               rows |-> rows]
           ELSE request' = [pc |-> "error"]
        /\ UNCHANGED <<tables, conn, saved, served>>

(* reconstruct_incident: hitl_decisions has no policy and is read by flag.   *)
reconstruct_incident(tenant, flag_id) ==
    Arrives(tenant, [pc |-> "report", tenant |-> Null, flag_id |-> flag_id])
Report ==
    LET flag == {f \in Visible(tables.flags) : f.id = request.flag_id}
        trace == {e \in Visible(tables.events) : \E f \in flag : e.run_id = f.run_id}
        hitl == {h \in tables.hitl_decisions : \E f \in flag : h.flag_id = f.id}
    IN  /\ request.pc = "report"
        /\ request' = [pc |-> "answer", tenant |-> request.tenant, query |-> Null, from |-> Null,
                       rows |-> flag \cup trace \cup hitl]
        /\ UNCHANGED <<tables, conn, saved, served>>

(* The response, and the end of the transaction: LOCAL settings revert. *)
Close ==
    /\ request.pc \in {"answer", "error"}
    /\ request' = NoRequest /\ conn' = Superuser
    /\ UNCHANGED <<tables, saved, served>>

SearchNext ==
    \/ \E tenant \in Tenants :
          \/ \E query \in Queries : search(tenant, query)
          \/ \E body \in Stored : create_saved_query(tenant, body)
          \/ \E id \in 1..MaxRequests, overrides \in Overrides : run_saved_query(tenant, id, overrides)
          \/ \E flag \in tables.flags : reconstruct_incident(tenant, flag.id)
    \/ Load
    \/ run_query
    \/ Report
    \/ Close

-----------------------------------------------------------------------------
(* A search answers with rows of the caller's tenant only, whatever the     *)
(* filter says of tenant_id and whoever used the connection before, and     *)
(* runs only saved queries of that tenant.  Every condition the caller      *)
(* wrote holds of every row, but for the tool of a flag and for a spelling  *)
(* of a field that a later one replaces; no row of the tenant for which     *)
(* they all hold is missing while the answer is shorter than the limit; and *)
(* a row left out of an ordered answer comes after the rows that are in it. *)
Field(query, i) == _DOT_ALIAS(query.resource, query.filter[i].key)
Applies(query, i) ==
    /\ _ALLOWLIST(query.resource)[Field(query, i)] # "TRUE"
    /\ ~\E j \in DOMAIN query.filter : j > i /\ Field(query, j) = Field(query, i)
Wanted(query, row) ==
    \A i \in {j \in DOMAIN query.filter : Applies(query, j)} :
        _apply_operator(row, _ALLOWLIST(query.resource)[Field(query, i)], query.filter[i].ops)
Exact(query, rows, mine) ==
    LET wanted == {row \in mine : Wanted(query, row)}
    IN  /\ rows \subseteq wanted
        /\ Cardinality(rows) < _cap_limit(query.limit) => wanted \subseteq rows
        /\ query.order_by \in {"ts", "created_at"} =>
              \A row \in rows, other \in wanted \ rows : IF query.desc THEN other.ts <= row.ts ELSE other.ts >= row.ts
AnswersExact ==
    request.pc = "answer" =>
        /\ \A row \in request.rows : row.tenant_id = request.tenant
        /\ request.from # Null => \E q \in saved : q.id = request.from /\ q.tenant_id = request.tenant
        /\ request.query # Null =>
              Exact(request.query, request.rows,
                    {row \in tables[request.query.resource] : row.tenant_id = request.tenant})
=============================================================================
