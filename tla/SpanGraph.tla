------------------------------ MODULE SpanGraph ------------------------------
(***************************************************************************)
(* The span graph of a run's tool calls and the depth-first search for     *)
(* cycles in it (detectors/asi02_tool_misuse.py).                          *)
(*                                                                         *)
(* A graph is a record: nodes, the spans in the order the dictionary       *)
(* received them, and next, the list of children of each span, in order.   *)
(***************************************************************************)
EXTENDS Integers, Sequences, FiniteSets, SequencesExt

_MIN_CYCLE_DEPTH == 3

NoGraph == [nodes |-> <<>>, next |-> [n \in {} |-> <<>>]]

\* adjacency.setdefault(span, []).
WithNode(g, span) ==
    IF span \in DOMAIN g.next THEN g
    ELSE [nodes |-> Append(g.nodes, span),
          next  |-> [n \in DOMAIN g.next \cup {span} |-> IF n = span THEN <<>> ELSE g.next[n]]]

WithEdge(g, parent, span) ==
    [nodes |-> g.nodes, next |-> [g.next EXCEPT ![parent] = Append(@, span)]]

\* One event of the run.  Parent 0 stands for a call that has no parent span.
WithCall(g, ev) ==
    IF ev.kind # "tool_call.start" THEN g
    ELSE IF ev.parent = 0 THEN WithNode(g, ev.span)
    ELSE WithEdge(WithNode(WithNode(g, ev.span), ev.parent), ev.parent, ev.span)

Adjacency(events) ==
    LET after[i \in 0..Len(events)] == IF i = 0 THEN NoGraph ELSE WithCall(after[i - 1], events[i])
    IN  after[Len(events)]

-----------------------------------------------------------------------------
(* The search, one step at a time: stack holds the nodes whose dfs() is     *)
(* running, at how many children each of them has looked at, tried how many *)
(* of the starts the outer loop has, and found the cycle that is reported.  *)
Unsearched(g) == [color |-> [n \in DOMAIN g.next |-> "white"], stack |-> <<>>,
             at |-> [n \in DOMAIN g.next |-> 0], tried |-> 0, found |-> <<>>]

\* dfs is called.
Enter(s, node) == [s EXCEPT !.color[node] = "gray", !.stack = Append(@, node)]

\* dfs returns without a cycle: off the stack, and black.
Leave(s, node) == [s EXCEPT !.stack = Front(@), !.color[node] = "black"]

\* Mutated form: the slice starts behind the repeated node.
CycleAfter(s, nxt) == SubSeq(s.stack, 1 + CHOOSE i \in 1..Len(s.stack) : s.stack[i] = nxt, Len(s.stack))

\* stack[idx:]
CycleFrom(s, nxt) == SubSeq(s.stack, CHOOSE i \in 1..Len(s.stack) : s.stack[i] = nxt, Len(s.stack))

\* The next child of the node on top of the stack.
Look(g, s, node) ==
    LET nxt    == g.next[node][s.at[node] + 1]
        looked == [s EXCEPT !.at[node] = @ + 1]
    IN  CASE s.color[nxt] = "gray" /\ Len(CycleFrom(s, nxt)) >= _MIN_CYCLE_DEPTH
                -> [looked EXCEPT !.found = CycleFrom(s, nxt)]
          [] s.color[nxt] = "white" -> Enter(looked, nxt)
          [] OTHER -> looked

\* The next start of the outer loop.
Try(g, s) ==
    LET start == g.nodes[s.tried + 1]
        tried == [s EXCEPT !.tried = @ + 1]
    IN  IF s.color[start] = "white" THEN Enter(tried, start) ELSE tried

Over(g, s) == s.found # <<>> \/ (s.stack = <<>> /\ s.tried = Len(g.nodes))

Step(g, s) ==
    IF Over(g, s) THEN s
    ELSE IF s.stack = <<>> THEN Try(g, s)
    ELSE IF s.at[Last(s.stack)] = Len(g.next[Last(s.stack)]) THEN Leave(s, Last(s.stack))
    ELSE Look(g, s, Last(s.stack))

\* What the search does at most once: try a start, look at a child, leave a node.
Moves(g) ==
    {<<"try", g.nodes[i], i>> : i \in 1..Len(g.nodes)}
    \cup (UNION {{<<"look", x, i>> : i \in 1..Len(g.next[x])} : x \in DOMAIN g.next})
    \cup {<<"leave", x, 0>> : x \in DOMAIN g.next}

\* The cycle found, or the empty sequence.
_find_cycle(g) ==
    LET search[n \in 0..Cardinality(Moves(g))] == IF n = 0 THEN Unsearched(g) ELSE Step(g, search[n - 1])
    IN  search[Cardinality(Moves(g))].found

(* Reference: a sequence of distinct spans, each a child of the one before  *)
(* it, that closes.                                                         *)
Child(g, x, y) == \E i \in 1..Len(g.next[x]) : g.next[x][i] = y
IsCycle(g, c) ==
    /\ \A i, j \in 1..Len(c) : i # j => c[i] # c[j]
    /\ \A i \in 1..Len(c) : Child(g, c[i], c[IF i = Len(c) THEN 1 ELSE i + 1])
HasCycle(g) ==
    \E n \in _MIN_CYCLE_DEPTH..Len(g.nodes) :
        \E c \in [1..n -> DOMAIN g.next] : IsCycle(g, c)

(* Every span has one parent, as in a run that records no span twice.       *)
OneParent(g) == \A x, y, z \in DOMAIN g.next : Child(g, x, z) /\ Child(g, y, z) => x = y

(* A span that is its own parent, or two that are each other's.             *)
ShortCycle(g) == \E x, y \in DOMAIN g.next : Child(g, x, y) /\ Child(g, y, x)

(* The search passes over a short cycle and colours its spans black; only   *)
(* then, and when one of them has another parent, can it miss a cycle.      *)
NoneMissed(g) == OneParent(g) \/ ~ShortCycle(g)
=============================================================================
