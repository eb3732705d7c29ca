--------------------------- MODULE MCDetectorAudit ---------------------------
(* Instance of DetectorAudit for TLC: an alphabet of events for each part.  *)
EXTENDS DetectorAudit

MCContained == {<<"a.com", "cdn.a.com">>}

MCParts == {"spans", "tools", "agents", "memory", "errors", "outputs", "host",
            "provenance", "catalog", "baseline", "calibration"}

Answers == {[verdict |-> v, confidence |-> c] : v \in {"VIOLATION", "OK", "NEEDS_REVIEW"}, c \in {0, 80, 90}}

MCGoals(p) == IF p = "outputs" THEN {{}, {"words"}, {"words", "injection"}} ELSE {{"words"}}

MCMetas(p) ==
    IF p = "agents"
    THEN {NoMeta,
          [NoMeta EXCEPT !.capabilities = [r \in {"triage", "b"} |-> {"kb_search"}],
                         !.agent_roles = [x \in {"a"} |-> "triage"],
                         !.tool_catalog = [x \in {"kb_search"} |-> "aa"]]}
    ELSE IF p = "outputs" THEN {NoMeta, [NoMeta EXCEPT !.drift = TRUE]}
    ELSE {NoMeta}

Call(tool, agent, n, parent, args, purpose, hash) ==
    [kind |-> "tool_call.start", tool |-> tool, agent |-> agent, span |-> n, parent |-> parent,
     args |-> args, purpose |-> purpose, schema_hash |-> hash]
Return(agent, call, status, text) ==
    [kind |-> "tool_call.end", agent |-> agent, call |-> call, status |-> status, text |-> text]
Host(kind, tool, value, ts) == [kind |-> kind, tool |-> tool, value |-> value, ts |-> ts]

MCAlphabet(p, n) ==
    CASE p = "spans" -> {Call("kb_search", "a", s, q, {}, {}, "none") : s \in 1..n, q \in 0..4}
      [] p = "tools" ->
            {Call(x, "a", n, 0, {}, y, "none") : y \in {{}, {"words"}},
                x \in {"read_secret", "query_employee", "kb_search", "http_post", "exec_shell"}}
            \cup {Execve(b) : b \in {"python3", "/tmp/evil"}}
      [] p = "agents" ->
            {Call(x, a, n, 0, {}, {}, h) : x \in {"kb_search", "http_post"}, a \in {"a", "b", "c"},
                                           h \in {"aa", "none"}}
            \cup {Message(s) : s \in BOOLEAN}
      [] p = "memory" -> {_read(k, c, s) : k \in {{"words"}, {"injection"}},
                              c \in {{}, {"words"}, {"injection"}, {"foreign"}}, s \in {"web", "user"}}
      [] p = "errors" ->
            IF n <= 2 THEN {Call(x, "a", n, 0, {}, {}, "none") : x \in {"flaky", "other"}}
            ELSE {Return("a", c, "error", {}) : c \in IF n <= 5 THEN 1..3 ELSE 1..2} \cup {Return("a", 1, "ok", {})}
                 \cup IF n = 9 THEN {Call("other", "a", 1, 0, {}, {}, "none")} ELSE {}
      [] p = "outputs" ->
            {Call(x, "a", n, 0, b, {}, "none") : x \in {"send_email", "kb_search"},
                b \in {{}, {"words"}, {"overconfident"}, {"injection"}}}
            \cup {Return("a", 1, "ok", x) : x \in {{}, {"refusal"}, {"injection"}}}
            \cup {[kind |-> "intent.declare", text |-> x, response |-> r] :
                      x \in {{"refusal"}, {"injection"}}, r \in BOOLEAN}
      [] p = "host" ->
            UNION {{Host("tool_call.start", "http_post", "a.com", ts), Host("tool_call.start", "exec_shell", "", ts),
                    Host("tool_call.start", "file_read", "/tmp/x", ts),
                    Host("syscall.connect", "", "cdn.a.com", ts), Host("syscall.sendto", "", "api.anthropic.com", ts), Host("syscall.openat", "", "/tmp/x", ts),
                    Host("syscall.openat", "", "/etc/x", ts), Host("syscall.execve", "", "python3", ts),
                    Host("syscall.other", "", "", ts)} : ts \in {0, 2, 5}}
      [] OTHER -> {}

MCMaxEvents(p) ==
    CASE p = "spans" -> 4 [] p = "tools" -> 4 [] p = "agents" -> 3 [] p = "memory" -> 3
      [] p = "errors" -> 9 [] p = "outputs" -> 3 [] p = "host" -> 3 [] OTHER -> 0
=============================================================================
