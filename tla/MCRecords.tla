----------------------------- MODULE MCRecords -----------------------------
EXTENDS Records
CONSTANTS r1, r2, t1, t2, none, yesterday, lastHour, since, until, mail, shell

\* Personal data.
MCTenantOf == [r \in Runs |-> IF r = r1 THEN t1 ELSE t2]
\* A free-form key, a nested one, and a structural key below a free-form one.
MCPaths == {<<"output_summary">>, <<"tool_args", "body">>, <<"tool_args", "source">>}
Texts3(summary, body, source) ==
    [path \in MCPaths |-> CASE path = <<"output_summary">> -> summary
                            [] path = <<"tool_args", "body">> -> body
                            [] OTHER -> source]
Sent(summary, body, source) == [texts |-> Texts3(summary, body, source), mark |-> NoMark]
\* Matched by two of the regexes and by Presidio, by both, by Presidio alone, and by a regex
\* alone: a number that fails Presidio's check of its digits.
Card == Raw({"CREDIT_CARD", "PHONE_NUMBER"}, {"CREDIT_CARD"})
Email == Raw({"EMAIL_ADDRESS"}, {"EMAIL_ADDRESS", "URL"})
Key == Raw({}, {"PRIVATE_KEY"})
BadNumber == Raw({"US_SSN"}, {})
MCPayloads == {Sent({Card, BadNumber}, {Key}, {}), Sent({}, {BadNumber}, {Email}),
               [texts |-> Texts3({Email}, {}, {}), mark |-> Supplied]}
MCMetadata == {[id |-> 1, run |-> r1, flags |-> Sent({Email}, {}, {})], [id |-> 2, run |-> t1, flags |-> Sent({Card}, {}, {})]}

\* Searches: rows around the bounds of the conditions, one of them without a tool.
MCAgo == (lastHour :> 1) @@ (yesterday :> 3)
Row(id, tenant, ts, tool) == [id |-> id, tenant_id |-> tenant, ts |-> ts, tool_name |-> tool,
                              run_id |-> IF tenant = t1 THEN r1 ELSE r2]
MCTables ==
    {[events |-> {Row(1, t1, 1, mail), Row(2, t1, 2, shell), Row(3, t1, 3, none), Row(4, t2, 3, mail)},
      flags |-> {Row(1, t1, 2, none), Row(2, t1, 3, none), Row(3, t2, 3, none)},
      hitl_decisions |-> {[flag_id |-> 1, tenant_id |-> t1], [flag_id |-> 3, tenant_id |-> t2]}]}
Ask(resource, filter, limit, order_by, desc) ==
    [resource |-> resource, filter |-> filter, limit |-> limit, order_by |-> order_by, desc |-> desc]
Cond(key, ops) == [key |-> key, ops |-> ops]
MCFilters ==
    {<<>>,
     <<Cond("tenant_id", [eq |-> t2])>>,
     <<Cond("ts", [gte |-> yesterday, lte |-> lastHour])>>,
     <<Cond("payload.tool_name", [eq |-> mail]), Cond("payload__tool_name", [eq |-> shell])>>,
     <<Cond("payload__tool_name", [in |-> {mail, shell}]), Cond("ts", [gte |-> 2])>>,
     <<Cond("evidence.event.tool_name", [eq |-> none])>>,
     <<Cond("evidence__event__tool_name", [eq |-> mail])>>,
     <<Cond("ts", [gte |-> none])>>,
     <<Cond("ts", [in |-> {2, lastHour}])>>,
     <<Cond("created_at", [gte |-> lastHour])>>,
     <<Cond("run_id", [eq |-> r1, like |-> r1])>>}
Orders(resource) == IF resource = "events" THEN {none, "ts"} ELSE {none, "ts", "created_at", "evidence__event__tool_name"}
MCQueries == UNION {{Ask(resource, filter, limit, order_by, desc) :
                        filter \in MCFilters, limit \in {0, 1, 3}, order_by \in Orders(resource), desc \in BOOLEAN} :
                    resource \in {"events", "flags"}}
Param(name, value) == [name |-> name, value |-> value]
\* The second of them is bound through a parameter that names another one.
MCStored == {[query |-> Ask("events", <<Cond("ts", [gte |-> since, lte |-> until])>>, 2, "ts", TRUE),
              params |-> <<Param(since, yesterday), Param(until, 2)>>],
             [query |-> Ask("events", <<Cond("ts", [gte |-> since])>>, 2, none, FALSE),
              params |-> <<Param(since, until), Param(until, lastHour)>>],
             [query |-> Ask("events", <<Cond("ts", [gte |-> since])>>, 0, none, FALSE), params |-> <<>>]}
MCOverrides == {<<>>, <<Param(since, 3)>>, <<Param(until, lastHour), Param(since, 1)>>, <<Param(since, until)>>}

\* The lifecycle: metrics at the bounds of every gate, and at those of SHADOW->CANARY only.
MCReports == {[precision |-> 85, fp_rate |-> 5, critical_incidents |-> 0],
              [precision |-> 80, fp_rate |-> 5, critical_incidents |-> 1]}
MCJumps == {7}

\* Reviewers: two of one tenant, two flags of it and one of another tenant.
MCViewerTenant == [v \in Viewers |-> t1]
MCFlagTenants == [f \in 1..3 |-> IF f < 3 THEN t1 ELSE t2]
Symmetry == Permutations(Callers) \cup Permutations(Viewers)
=============================================================================
