-------------------------- MODULE DetectorAuditProofs --------------------------
(***************************************************************************)
(* For every alphabet, every trace and store, every list of observations:  *)
(* the detectors' algorithms compute what they are for, and neither the    *)
(* judge, nor the order of arrival, nor later events undo what a rule of   *)
(* theirs found.                                                           *)
(*                                                                         *)
(* The cycle search: gray nodes are exactly those on the stack, the stack  *)
(* is a path without repetition, what a node on it has looked at is black  *)
(* or next to it on the stack, and no black node is on a cycle long enough *)
(* to report.  That holds because a span has one parent; the search ends   *)
(* because no move is made twice.  The walk over the provenance store: the *)
(* entries linked are the tagged ones that visited runs read, runs wait in *)
(* the frontier in the order of their distance, and passes made and runs   *)
(* still waiting count the links, so the passes suffice.  The              *)
(* baseline: Welford's mean and m2 are the sums they stand for.  The       *)
(* calibration: the matrices count the corpus entries scored so far, and   *)
(* only the judge's answers can make a prediction wrong.                   *)
(***************************************************************************)
EXTENDS DetectorAudit, SequenceTheorems, FiniteSetTheorems, WellFoundedInduction, TLAPS

\* Induction, as a fact about sets: a set of numbers that lacks one lacks a least one.
LEMMA EveryNumber ==
    ASSUME NEW S, 0 \in S, \A n \in Nat : n \in S => n + 1 \in S
    PROVE  \A n \in Nat : n \in S
<1> DEFINE T == Nat \ S
           R == OpToRel(<, Nat)
<1> SUFFICES ASSUME T # {} PROVE FALSE
  OBVIOUS
<1>1. IsWellFoundedOn(R, Nat)
  BY NatLessThanWellFounded
<1> HIDE DEF R
<1>2. PICK x \in T : \A y \in T : ~(<<y, x>> \in R)
  BY <1>1, WFMin
<1>3. \A y \in T : ~(y < x)
  BY <1>2 DEF R, OpToRel
<1>4. x \in Nat /\ x # 0 /\ x \notin S
  OBVIOUS
<1>5. x - 1 \in Nat /\ x - 1 < x /\ (x - 1) + 1 = x
  BY <1>4
<1>6. x - 1 \in S
  BY <1>3, <1>5
<1> QED BY <1>4, <1>5, <1>6
-----------------------------------------------------------------------------
(* Loops.  A loop that takes the state x of S to f[<<i, x>>] in its i-th    *)
(* pass has a state after each of N passes.                                 *)
Loop(h, N, S, x, f) == /\ h \in [0..N -> S] /\ h[0] = x
                       /\ \A i \in 1..N : h[i] = f[<<i, h[i - 1]>>]

\* A loop of N passes whose body stays in S has a function of its passes.
LEMMA LoopExists ==
    ASSUME NEW S, NEW x \in S, NEW f, NEW N \in Nat, \A i \in 1..N : \A y \in S : f[<<i, y>>] \in S
    PROVE  \E h : Loop(h, N, S, x, f)
<1>1. PICK T : T = {n \in Nat : n <= N => \E h : Loop(h, n, S, x, f)}
  OBVIOUS
<1>2. 0 \in T
  <2>1. PICK h : h = [i \in 0..0 |-> x]
    OBVIOUS
  <2>2. 0..0 = {0} /\ 1..0 = {}
    OBVIOUS
  <2>3. Loop(h, 0, S, x, f)
    BY <2>1, <2>2 DEF Loop
  <2> QED BY <1>1, <2>3
<1>3. ASSUME NEW m \in Nat, m \in T PROVE m + 1 \in T
  <2> SUFFICES ASSUME m + 1 <= N PROVE \E h : Loop(h, m + 1, S, x, f)
    BY <1>1
  <2>1. PICK g : Loop(g, m, S, x, f)
    BY <1>1, <1>3
  <2>2. g \in [0..m -> S] /\ g[0] = x /\ \A i \in 1..m : g[i] = f[<<i, g[i - 1]>>]
    BY <2>1 DEF Loop
  <2>3. PICK y : y = f[<<m + 1, g[m]>>]
    OBVIOUS
  <2>4. y \in S
    <3>1. m + 1 \in 1..N /\ g[m] \in S
      BY <2>2
    <3> QED BY <2>3, <3>1
  <2>5. PICK h : h = [i \in 0..m+1 |-> IF i = m + 1 THEN y ELSE g[i]]
    OBVIOUS
  <2>6. h \in [0..m+1 -> S]
    BY <2>2, <2>4, <2>5
  <2>7. \A i \in 0..m : h[i] = g[i]
    BY <2>5
  <2>8. h[m + 1] = y
    BY <2>5
  <2>9. h[0] = x
    BY <2>2, <2>7
  <2>10. ASSUME NEW i \in 1..m+1 PROVE h[i] = f[<<i, h[i - 1]>>]
    <3>1. CASE i = m + 1
      <4>1. i - 1 = m /\ m \in 0..m
        BY <3>1
      <4> QED BY <2>3, <2>7, <2>8, <3>1, <4>1
    <3>2. CASE i \in 1..m
      <4>1. i \in 0..m /\ i - 1 \in 0..m
        BY <3>2
      <4> QED BY <2>2, <2>7, <3>2, <4>1
    <3> QED BY <3>1, <3>2
  <2>11. Loop(h, m + 1, S, x, f)
    BY <2>6, <2>9, <2>10 DEF Loop
  <2> QED BY <2>11
<1>4. N \in T
  BY <1>2, <1>3, EveryNumber
<1> QED BY <1>1, <1>4
-----------------------------------------------------------------------------
(* The search for cycles. *)

IsGraph(g) ==
    /\ g.nodes \in Seq(DOMAIN g.next)
    /\ g.next \in [DOMAIN g.next -> Seq(DOMAIN g.next)]
    /\ \A x \in DOMAIN g.next : \E i \in 1..Len(g.nodes) : g.nodes[i] = x

Searches(V) == [color : [V -> {"white", "gray", "black"}], stack : Seq(V), at : [V -> Nat], tried : Nat, found : Seq(V)]

\* t is s after dfs(node) was called.
Entered(s, t, node) ==
    /\ t.color = [s.color EXCEPT ![node] = "gray"] /\ s.color[node] = "white"
    /\ t.stack = Append(s.stack, node) /\ t.found = s.found

\* The six things a step can do, field by field.
Skips(g, s, t) ==
    /\ s.stack = <<>> /\ s.tried < Len(g.nodes) /\ s.color[g.nodes[s.tried + 1]] # "white"
    /\ t.color = s.color /\ t.stack = s.stack /\ t.at = s.at /\ t.tried = s.tried + 1 /\ t.found = s.found
Begins(g, s, t) ==
    /\ s.stack = <<>> /\ s.tried < Len(g.nodes) /\ Entered(s, t, g.nodes[s.tried + 1])
    /\ t.at = s.at /\ t.tried = s.tried + 1
Leaves(g, s, t) ==
    /\ s.stack # <<>> /\ s.at[Last(s.stack)] = Len(g.next[Last(s.stack)])
    /\ t.color = [s.color EXCEPT ![Last(s.stack)] = "black"] /\ t.stack = Front(s.stack)
    /\ t.at = s.at /\ t.tried = s.tried /\ t.found = s.found
Looks(g, s, t) ==
    /\ s.stack # <<>> /\ s.at[Last(s.stack)] # Len(g.next[Last(s.stack)])
    /\ t.at = [s.at EXCEPT ![Last(s.stack)] = @ + 1] /\ t.tried = s.tried
NextOf(g, s) == g.next[Last(s.stack)][s.at[Last(s.stack)] + 1]
Ignores(g, s, t) ==
    /\ Looks(g, s, t) /\ s.color[NextOf(g, s)] # "white"
    /\ s.color[NextOf(g, s)] = "gray" => Len(CycleFrom(s, NextOf(g, s))) < _MIN_CYCLE_DEPTH
    /\ t.color = s.color /\ t.stack = s.stack /\ t.found = s.found
Descends(g, s, t) == Looks(g, s, t) /\ Entered(s, t, NextOf(g, s))
Finds(g, s, t) ==
    /\ Looks(g, s, t) /\ s.color[NextOf(g, s)] = "gray"
    /\ Len(CycleFrom(s, NextOf(g, s))) >= _MIN_CYCLE_DEPTH
    /\ t.color = s.color /\ t.stack = s.stack /\ t.found = CycleFrom(s, NextOf(g, s))

\* What the indices of a search are.
SearchTypes(g, s) ==
    /\ s \in Searches(DOMAIN g.next)
    /\ s.tried <= Len(g.nodes)
    /\ \A x \in DOMAIN g.next : s.at[x] <= Len(g.next[x])

\* The last element and the rest of a sequence that has one.
LEMMA LastFront ==
    ASSUME NEW V, NEW q \in Seq(V), q # <<>>
    PROVE  /\ Len(q) \in Nat /\ Len(q) >= 1
           /\ Last(q) = q[Len(q)] /\ Last(q) \in V
           /\ Front(q) \in Seq(V) /\ Len(Front(q)) = Len(q) - 1
           /\ \A i \in 1..Len(q) - 1 : Front(q)[i] = q[i]
<1>1. Len(q) \in Nat /\ Len(q) >= 1 /\ \A i \in 1..Len(q) : q[i] \in V
  OBVIOUS
<1>2. Last(q) = q[Len(q)] /\ Last(q) \in V
  BY <1>1 DEF Last
<1>3. \A i \in 1..Len(q) - 1 : q[i] \in V
  BY <1>1
<1>4. /\ SubSeq(q, 1, Len(q) - 1) \in Seq(V)
      /\ Len(SubSeq(q, 1, Len(q) - 1)) = IF 1 <= Len(q) - 1 THEN (Len(q) - 1) - 1 + 1 ELSE 0
      /\ \A i \in 1..(Len(q) - 1) - 1 + 1 : SubSeq(q, 1, Len(q) - 1)[i] = q[1 + i - 1]
  <2>1. Len(q) - 1 \in Int /\ 1 \in Int
    BY <1>1
  <2> QED BY <1>3, <2>1, SubSeqProperties
<1>5. Len(Front(q)) = Len(q) - 1
  <2>1. PICK n : n = Len(q)
    OBVIOUS
  <2>2. PICK f : f = SubSeq(q, 1, Len(q) - 1)
    OBVIOUS
  <2>3. n \in Nat /\ n >= 1 /\ Len(f) = IF 1 <= n - 1 THEN (n - 1) - 1 + 1 ELSE 0
    BY <1>1, <1>4, <2>1, <2>2
  <2>4. Len(f) = n - 1
    BY <2>3
  <2> QED BY <2>1, <2>2, <2>4 DEF Front
<1>6. \A i \in 1..Len(q) - 1 : Front(q)[i] = q[i]
  BY <1>1, <1>4 DEF Front
<1> QED BY <1>1, <1>2, <1>4, <1>5, <1>6 DEF Front

\* The cycle that is cut off the stack.
CutAt(V, s, nxt, p) ==
    /\ s.stack[p] = nxt
    /\ CycleFrom(s, nxt) \in Seq(V)
    /\ Len(CycleFrom(s, nxt)) = Len(s.stack) - p + 1
    /\ \A i \in 1..Len(s.stack) - p + 1 : CycleFrom(s, nxt)[i] = s.stack[p + i - 1]
\* The slice of the stack that _find_cycle reports starts at the repeated node.
LEMMA CycleFromIs ==
    ASSUME NEW V, NEW s, s.stack \in Seq(V), NEW nxt, \E i \in 1..Len(s.stack) : s.stack[i] = nxt
    PROVE  \E p \in 1..Len(s.stack) : CutAt(V, s, nxt, p)
<1>1. PICK p : p = CHOOSE i \in 1..Len(s.stack) : s.stack[i] = nxt
  OBVIOUS
<1>2. p \in 1..Len(s.stack) /\ s.stack[p] = nxt
  BY <1>1
<1>3. PICK k : k = s.stack
  OBVIOUS
<1>4. PICK n : n = Len(k)
  OBVIOUS
<1>5. k \in Seq(V) /\ n \in Nat /\ p \in 1..n /\ p \in Int /\ n \in Int /\ \A i \in p..n : k[i] \in V
  BY <1>2, <1>3, <1>4
<1>6. PICK c : c = SubSeq(k, p, n)
  OBVIOUS
<1>7. /\ c \in Seq(V)
      /\ Len(c) = IF p <= n THEN n - p + 1 ELSE 0
      /\ \A i \in 1..n - p + 1 : c[i] = k[p + i - 1]
  BY <1>5, <1>6, SubSeqProperties
<1>8. Len(c) = n - p + 1
  BY <1>5, <1>7
<1>9. CycleFrom(s, nxt) = c
  BY <1>1, <1>3, <1>4, <1>6 DEF CycleFrom
<1> QED BY <1>2, <1>3, <1>4, <1>7, <1>8, <1>9 DEF CutAt

\* The state of a search, made of its parts.
Search(c, k, a, n, f) == [color |-> c, stack |-> k, at |-> a, tried |-> n, found |-> f]

\* A search step changes only the fields it names: the next start of the outer loop.
LEMMA TriedIs ==
    ASSUME NEW V, NEW s \in Searches(V)
    PROVE  [s EXCEPT !.tried = @ + 1] = Search(s.color, s.stack, s.at, s.tried + 1, s.found)
<1>1. PICK t : t = [s EXCEPT !.tried = @ + 1]
  OBVIOUS
<1>2. t = Search(s.color, s.stack, s.at, s.tried + 1, s.found)
  BY <1>1 DEF Searches, Search
<1> QED BY <1>1, <1>2

\* The same for the count of children a node has looked at.
LEMMA AtIs ==
    ASSUME NEW V, NEW s \in Searches(V), NEW node \in V
    PROVE  [s EXCEPT !.at[node] = @ + 1] = Search(s.color, s.stack, [s.at EXCEPT ![node] = @ + 1], s.tried, s.found)
<1>1. PICK t : t = [s EXCEPT !.at[node] = @ + 1]
  OBVIOUS
<1>2. t = Search(s.color, s.stack, [s.at EXCEPT ![node] = @ + 1], s.tried, s.found)
  BY <1>1 DEF Searches, Search
<1> QED BY <1>1, <1>2

\* The same for the cycle that is reported.
LEMMA FoundIs ==
    ASSUME NEW V, NEW s \in Searches(V), NEW c
    PROVE  [s EXCEPT !.found = c] = Search(s.color, s.stack, s.at, s.tried, c)
<1>1. PICK t : t = [s EXCEPT !.found = c]
  OBVIOUS
<1>2. t = Search(s.color, s.stack, s.at, s.tried, c)
  BY <1>1 DEF Searches, Search
<1> QED BY <1>1, <1>2

\* The same when dfs() is called: a node turns gray and goes on the stack.
LEMMA EnterIs ==
    ASSUME NEW V, NEW s \in Searches(V), NEW node \in V
    PROVE  Enter(s, node) = Search([s.color EXCEPT ![node] = "gray"], Append(s.stack, node), s.at, s.tried, s.found)
<1>1. PICK t : t = Enter(s, node)
  OBVIOUS
<1>2. t = Search([s.color EXCEPT ![node] = "gray"], Append(s.stack, node), s.at, s.tried, s.found)
  BY <1>1 DEF Searches, Search, Enter
<1> QED BY <1>1, <1>2

\* The same when dfs() returns: the node on top leaves the stack and turns black.
LEMMA LeaveIs ==
    ASSUME NEW V, NEW s \in Searches(V), NEW node \in V
    PROVE  Leave(s, node) = Search([s.color EXCEPT ![node] = "black"], Front(s.stack), s.at, s.tried, s.found)
<1>1. PICK t : t = Leave(s, node)
  OBVIOUS
<1>2. t = Search([s.color EXCEPT ![node] = "black"], Front(s.stack), s.at, s.tried, s.found)
  BY <1>1 DEF Searches, Search, Leave
<1> QED BY <1>1, <1>2

\* Gray nodes are the ones on the stack.
GrayOnStack(g, s) ==
    \A x \in DOMAIN g.next : s.color[x] = "gray" <=> \E i \in 1..Len(s.stack) : s.stack[i] = x

\* Every step that is taken is one of the six.
LEMMA StepDoes ==
    ASSUME NEW g, IsGraph(g), NEW s, SearchTypes(g, s), GrayOnStack(g, s), ~Over(g, s)
    PROVE  /\ Step(g, s) \in Searches(DOMAIN g.next)
           /\ \/ Skips(g, s, Step(g, s)) \/ Begins(g, s, Step(g, s)) \/ Leaves(g, s, Step(g, s))
              \/ Ignores(g, s, Step(g, s)) \/ Descends(g, s, Step(g, s)) \/ Finds(g, s, Step(g, s))
<1>0. PICK V : V = DOMAIN g.next
  OBVIOUS
<1>00. PICK top : top = Last(s.stack)
  OBVIOUS
<1> PICK t : t = Step(g, s)
  OBVIOUS
<1>1. /\ g.nodes \in Seq(V) /\ g.next \in [V -> Seq(V)]
      /\ s \in Searches(V) /\ s.tried \in Nat /\ s.tried <= Len(g.nodes)
      /\ s.color \in [V -> {"white", "gray", "black"}] /\ s.stack \in Seq(V) /\ s.at \in [V -> Nat]
      /\ s.found \in Seq(V)
  BY <1>0 DEF IsGraph, SearchTypes, Searches
<1>2. s.found = <<>> /\ ~(s.stack = <<>> /\ s.tried = Len(g.nodes))
  BY DEF Over
<1>3. CASE s.stack = <<>>
  <2>1. t = Try(g, s)
    BY <1>3 DEF Step
  <2>2. PICK start : start = g.nodes[s.tried + 1]
    OBVIOUS
  <2>3. s.tried < Len(g.nodes) /\ start \in V /\ s.tried + 1 \in Nat
    BY <1>1, <1>2, <1>3, <2>2
  <2>4. PICK u : u = [s EXCEPT !.tried = @ + 1]
    OBVIOUS
  <2>5. u = Search(s.color, s.stack, s.at, s.tried + 1, s.found)
    BY <1>1, <2>4, TriedIs
  <2>6. u \in Searches(V) /\ u.color = s.color /\ u.stack = s.stack /\ u.at = s.at /\ u.tried = s.tried + 1
        /\ u.found = s.found
    BY <1>1, <2>3, <2>5 DEF Search, Searches
  <2>7. CASE s.color[start] = "white"
    <3>1. t = Enter(u, start)
      BY <2>1, <2>2, <2>4, <2>7 DEF Try
    <3>2. t = Search([s.color EXCEPT ![start] = "gray"], Append(s.stack, start), s.at, s.tried + 1, s.found)
      BY <2>3, <2>6, <3>1, EnterIs
    <3>3. [s.color EXCEPT ![start] = "gray"] \in [V -> {"white", "gray", "black"}] /\ Append(s.stack, start) \in Seq(V)
      BY <1>1, <2>3
    <3>4. t \in Searches(V) /\ t.color = [s.color EXCEPT ![start] = "gray"] /\ t.stack = Append(s.stack, start)
          /\ t.at = s.at /\ t.tried = s.tried + 1 /\ t.found = s.found
      BY <1>1, <2>3, <3>2, <3>3 DEF Search, Searches
    <3>5. Begins(g, s, t)
      BY <1>3, <2>2, <2>3, <2>7, <3>4 DEF Begins, Entered
    <3> QED BY <1>0, <3>4, <3>5
  <2>8. CASE s.color[start] # "white"
    <3>1. t = u
      BY <2>1, <2>2, <2>4, <2>8 DEF Try
    <3>2. Skips(g, s, t)
      BY <1>3, <2>2, <2>3, <2>6, <2>8, <3>1 DEF Skips
    <3> QED BY <1>0, <2>6, <3>1, <3>2
  <2> QED BY <2>7, <2>8
<1>4. CASE s.stack # <<>>
  <2>1. top \in V /\ Front(s.stack) \in Seq(V)
    BY <1>00, <1>1, <1>4, LastFront
  <2>2. CASE s.at[top] = Len(g.next[top])
    <3>1. t = Leave(s, top)
      BY <1>00, <1>2, <1>4, <2>2 DEF Step, Over
    <3>2. t = Search([s.color EXCEPT ![top] = "black"], Front(s.stack), s.at, s.tried, s.found)
      BY <1>1, <2>1, <3>1, LeaveIs
    <3>3. [s.color EXCEPT ![top] = "black"] \in [V -> {"white", "gray", "black"}]
      BY <1>1, <2>1
    <3>4. t \in Searches(V) /\ t.color = [s.color EXCEPT ![top] = "black"] /\ t.stack = Front(s.stack)
          /\ t.at = s.at /\ t.tried = s.tried /\ t.found = s.found
      BY <1>1, <2>1, <3>2, <3>3 DEF Search, Searches
    <3>5. Leaves(g, s, t)
      BY <1>00, <1>4, <2>2, <3>4 DEF Leaves
    <3> QED BY <1>0, <3>4, <3>5
  <2>3. CASE s.at[top] # Len(g.next[top])
    <3>1. t = Look(g, s, top)
      BY <1>00, <1>2, <1>4, <2>3 DEF Step, Over
    <3>0. PICK nxt : nxt = g.next[top][s.at[top] + 1]
      OBVIOUS
    <3>2. nxt \in V
      <4>1. s.at[top] \in Nat /\ s.at[top] <= Len(g.next[top]) /\ g.next[top] \in Seq(V)
        BY <1>0, <1>1, <2>1 DEF SearchTypes
      <4>2. s.at[top] + 1 \in 1..Len(g.next[top])
        BY <2>3, <4>1
      <4> QED BY <3>0, <4>1, <4>2
    <3>3. s.color[nxt] \in {"white", "gray", "black"} /\ nxt = NextOf(g, s)
      BY <1>00, <1>1, <3>0, <3>2 DEF NextOf
    <3>4. PICK u : u = [s EXCEPT !.at[top] = @ + 1]
      OBVIOUS
    <3>5. PICK a : a = [s.at EXCEPT ![top] = @ + 1]
      OBVIOUS
    <3>6. a \in [V -> Nat]
      BY <1>1, <2>1, <3>5
    <3>7. u = Search(s.color, s.stack, a, s.tried, s.found)
      BY <1>1, <2>1, <3>4, <3>5, AtIs
    <3>8. u \in Searches(V) /\ u.color = s.color /\ u.stack = s.stack /\ u.at = a /\ u.tried = s.tried /\ u.found = s.found
      BY <1>1, <3>6, <3>7 DEF Search, Searches
    <3>9. s.color[nxt] = "gray" => CycleFrom(s, nxt) \in Seq(V) /\ Len(CycleFrom(s, nxt)) \in Nat
      <4> SUFFICES ASSUME s.color[nxt] = "gray" PROVE CycleFrom(s, nxt) \in Seq(V)
        OBVIOUS
      <4>1. \E i \in 1..Len(s.stack) : s.stack[i] = nxt
        BY <1>0, <3>2 DEF GrayOnStack
      <4> QED BY <1>1, <4>1, CycleFromIs DEF CutAt
    <3>10. CASE s.color[nxt] = "gray" /\ Len(CycleFrom(s, nxt)) >= _MIN_CYCLE_DEPTH
      <4>1. t = [u EXCEPT !.found = CycleFrom(s, nxt)]
        BY <3>0, <3>1, <3>4, <3>10 DEF Look
      <4>2. t = Search(s.color, s.stack, a, s.tried, CycleFrom(s, nxt))
        BY <3>8, <4>1, FoundIs
      <4>3. t \in Searches(V) /\ t.color = s.color /\ t.stack = s.stack /\ t.at = a /\ t.tried = s.tried
            /\ t.found = CycleFrom(s, nxt)
        BY <1>1, <3>6, <3>9, <3>10, <4>2 DEF Search, Searches
      <4>4. Finds(g, s, t)
        BY <1>00, <1>4, <2>3, <3>3, <3>5, <3>10, <4>3 DEF Finds, Looks
      <4> QED BY <1>0, <4>3, <4>4
    <3>11. CASE s.color[nxt] = "white"
      <4>1. t = Enter(u, nxt)
        BY <3>0, <3>1, <3>4, <3>11 DEF Look
      <4>2. t = Search([s.color EXCEPT ![nxt] = "gray"], Append(s.stack, nxt), a, s.tried, s.found)
        BY <3>2, <3>8, <4>1, EnterIs
      <4>3. [s.color EXCEPT ![nxt] = "gray"] \in [V -> {"white", "gray", "black"}] /\ Append(s.stack, nxt) \in Seq(V)
        BY <1>1, <3>2
      <4>4. t \in Searches(V) /\ t.color = [s.color EXCEPT ![nxt] = "gray"] /\ t.stack = Append(s.stack, nxt)
            /\ t.at = a /\ t.tried = s.tried /\ t.found = s.found
        BY <1>1, <3>6, <4>2, <4>3 DEF Search, Searches
      <4>5. Descends(g, s, t)
        BY <1>00, <1>4, <2>3, <3>3, <3>5, <3>11, <4>4 DEF Descends, Looks, Entered
      <4> QED BY <1>0, <4>4, <4>5
    <3>12. CASE s.color[nxt] # "white" /\ (s.color[nxt] = "gray" => ~(Len(CycleFrom(s, nxt)) >= _MIN_CYCLE_DEPTH))
      <4>1. t = u
        BY <3>0, <3>1, <3>4, <3>12 DEF Look
      <4>2. s.color[nxt] = "gray" => Len(CycleFrom(s, nxt)) < _MIN_CYCLE_DEPTH
        BY <3>9, <3>12 DEF _MIN_CYCLE_DEPTH
      <4>3. Ignores(g, s, t)
        BY <1>00, <1>4, <2>3, <3>3, <3>5, <3>8, <3>12, <4>1, <4>2 DEF Ignores, Looks
      <4> QED BY <1>0, <3>8, <4>1, <4>3
    <3> QED BY <3>10, <3>11, <3>12
  <2> QED BY <2>2, <2>3
<1> QED BY <1>3, <1>4

\* The invariant of the search.
DistinctStack(s) == \A i, j \in 1..Len(s.stack) : s.stack[i] = s.stack[j] => i = j
LinkedStack(g, s) == \A i \in 1..Len(s.stack) - 1 : Child(g, s.stack[i], s.stack[i + 1])
WhiteUnlooked(g, s) == \A x \in DOMAIN g.next : s.color[x] = "white" => s.at[x] = 0
LookedNearby(g, s) ==
    \A i \in 1..Len(s.stack) : \A j \in 1..s.at[s.stack[i]] :
        \/ s.color[g.next[s.stack[i]][j]] = "black"
        \/ \E p \in 1..Len(s.stack) : i - 1 <= p /\ p <= i + 1 /\ s.stack[p] = g.next[s.stack[i]][j]
NoBlackOnCycle(g, s) ==
    \A c \in Seq(DOMAIN g.next) :
        NoneMissed(g) /\ Len(c) >= _MIN_CYCLE_DEPTH /\ IsCycle(g, c) => \A i \in 1..Len(c) : s.color[c[i]] # "black"
FoundIsCycle(g, s) == s.found # <<>> => IsCycle(g, s.found) /\ Len(s.found) >= _MIN_CYCLE_DEPTH
TriedNotWhite(g, s) == \A i \in 1..s.tried : s.color[g.nodes[i]] # "white"
SearchInv(g, s) ==
    /\ SearchTypes(g, s) /\ GrayOnStack(g, s) /\ DistinctStack(s) /\ LinkedStack(g, s) /\ WhiteUnlooked(g, s)
    /\ s.found = <<>> => LookedNearby(g, s)
    /\ NoBlackOnCycle(g, s) /\ FoundIsCycle(g, s) /\ TriedNotWhite(g, s)

\* A start that was seen before is skipped.
LEMMA SkipsKeeps ==
    ASSUME NEW g, IsGraph(g), NEW s, SearchInv(g, s), NEW t \in Searches(DOMAIN g.next), Skips(g, s, t)
    PROVE  SearchInv(g, t)
<1>1. SearchTypes(g, t)
  <2>1. s.tried \in Nat /\ Len(g.nodes) \in Nat /\ s.tried < Len(g.nodes) /\ t.tried = s.tried + 1 /\ t.at = s.at
    BY DEF SearchInv, SearchTypes, Searches, IsGraph, Skips
  <2>2. t.tried <= Len(g.nodes)
    BY <2>1
  <2> QED BY <2>1, <2>2 DEF SearchInv, SearchTypes
<1>2. GrayOnStack(g, t) /\ DistinctStack(t) /\ LinkedStack(g, t) /\ WhiteUnlooked(g, t)
  BY DEF SearchInv, Skips, GrayOnStack, DistinctStack, LinkedStack, WhiteUnlooked
<1>3. t.found = <<>> => LookedNearby(g, t)
  BY DEF SearchInv, Skips, LookedNearby
<1>4. NoBlackOnCycle(g, t) /\ FoundIsCycle(g, t)
  BY DEF SearchInv, Skips, NoBlackOnCycle, FoundIsCycle
<1>5. TriedNotWhite(g, t)
  <2>1. s.tried \in Nat
    BY DEF SearchInv, SearchTypes, Searches
  <2>2. t.tried = s.tried + 1 /\ t.color = s.color /\ s.color[g.nodes[s.tried + 1]] # "white"
    BY DEF Skips
  <2>3. \A i \in 1..s.tried : s.color[g.nodes[i]] # "white"
    BY DEF SearchInv, TriedNotWhite
  <2> QED BY <2>1, <2>2, <2>3 DEF TriedNotWhite
<1> QED BY <1>1, <1>2, <1>3, <1>4, <1>5 DEF SearchInv

\* What an append leaves, and what it adds.
LEMMA AppendIs ==
    ASSUME NEW V, NEW q \in Seq(V), NEW x \in V
    PROVE  /\ Append(q, x) \in Seq(V) /\ Len(q) \in Nat /\ Len(Append(q, x)) = Len(q) + 1
           /\ \A i \in 1..Len(q) : Append(q, x)[i] = q[i]
           /\ Append(q, x)[Len(q) + 1] = x
OBVIOUS

\* A node is entered: it was white, and lies on top now.
OnTop(g, s, t, node) ==
    /\ GrayOnStack(g, t) /\ DistinctStack(t) /\ NoBlackOnCycle(g, t)
    /\ t.stack \in Seq(DOMAIN g.next) /\ Len(s.stack) \in Nat /\ Len(t.stack) = Len(s.stack) + 1
    /\ \A i \in 1..Len(s.stack) : t.stack[i] = s.stack[i]
    /\ t.stack[Len(s.stack) + 1] = node
    /\ \A x \in DOMAIN g.next : x # node => t.color[x] = s.color[x]
    /\ t.color[node] = "gray"
\* Entering a white node keeps gray exactly on the stack, the stack without repetition, black nodes off cycles.
LEMMA EnteredKeeps ==
    ASSUME NEW g, IsGraph(g), NEW s, SearchInv(g, s), NEW t \in Searches(DOMAIN g.next),
           NEW node \in DOMAIN g.next, Entered(s, t, node)
    PROVE  OnTop(g, s, t, node)
<1>1. s.stack \in Seq(DOMAIN g.next) /\ s.color \in [DOMAIN g.next -> {"white", "gray", "black"}]
      /\ s.color[node] = "white" /\ t.color = [s.color EXCEPT ![node] = "gray"] /\ t.stack = Append(s.stack, node)
  BY DEF SearchInv, SearchTypes, Searches, Entered
<1>2. /\ t.stack \in Seq(DOMAIN g.next) /\ Len(s.stack) \in Nat /\ Len(t.stack) = Len(s.stack) + 1
      /\ \A i \in 1..Len(s.stack) : t.stack[i] = s.stack[i]
      /\ t.stack[Len(s.stack) + 1] = node
  <2>1. PICK k : k = s.stack
    OBVIOUS
  <2>2. PICK l : l = t.stack
    OBVIOUS
  <2>3. k \in Seq(DOMAIN g.next) /\ l = Append(k, node)
    BY <1>1, <2>1, <2>2
  <2>4. /\ l \in Seq(DOMAIN g.next) /\ Len(k) \in Nat /\ Len(l) = Len(k) + 1
        /\ \A i \in 1..Len(k) : l[i] = k[i]
        /\ l[Len(k) + 1] = node
    BY <2>3, AppendIs
  <2> QED BY <2>1, <2>2, <2>4
<1>3. /\ \A x \in DOMAIN g.next : x # node => t.color[x] = s.color[x]
      /\ t.color[node] = "gray"
  BY <1>1
<1>4. \A i \in 1..Len(s.stack) : s.stack[i] \in DOMAIN g.next /\ s.stack[i] # node
  <2>1. ~\E i \in 1..Len(s.stack) : s.stack[i] = node
    BY <1>1 DEF SearchInv, GrayOnStack
  <2> QED BY <1>1, <2>1
<1>5. GrayOnStack(g, t)
  <2> SUFFICES ASSUME NEW x \in DOMAIN g.next
               PROVE  t.color[x] = "gray" <=> \E i \in 1..Len(t.stack) : t.stack[i] = x
    BY DEF GrayOnStack
  <2>1. CASE x = node
    <3>1. Len(s.stack) + 1 \in 1..Len(t.stack)
      BY <1>2
    <3> QED BY <1>2, <1>3, <2>1, <3>1
  <2>2. CASE x # node
    <3>1. s.color[x] = "gray" <=> \E i \in 1..Len(s.stack) : s.stack[i] = x
      BY DEF SearchInv, GrayOnStack
    <3>2. (\E i \in 1..Len(t.stack) : t.stack[i] = x) <=> \E i \in 1..Len(s.stack) : s.stack[i] = x
      <4>1. \A i \in 1..Len(t.stack) : i \in 1..Len(s.stack) \/ i = Len(s.stack) + 1
        BY <1>2
      <4>2. \A i \in 1..Len(s.stack) : i \in 1..Len(t.stack)
        BY <1>2
      <4> QED BY <1>2, <2>2, <4>1, <4>2
    <3> QED BY <1>3, <2>2, <3>1, <3>2
  <2> QED BY <2>1, <2>2
<1>6. DistinctStack(t)
  <2> SUFFICES ASSUME NEW i \in 1..Len(t.stack), NEW j \in 1..Len(t.stack), t.stack[i] = t.stack[j] PROVE i = j
    BY DEF DistinctStack
  <2>1. (i \in 1..Len(s.stack) \/ i = Len(s.stack) + 1) /\ (j \in 1..Len(s.stack) \/ j = Len(s.stack) + 1)
    BY <1>2
  <2>2. \A p, q \in 1..Len(s.stack) : s.stack[p] = s.stack[q] => p = q
    BY DEF SearchInv, DistinctStack
  <2> QED BY <1>2, <1>4, <2>1, <2>2
<1>7. NoBlackOnCycle(g, t)
  <2> SUFFICES ASSUME NEW c \in Seq(DOMAIN g.next), NoneMissed(g), Len(c) >= _MIN_CYCLE_DEPTH, IsCycle(g, c), NEW i \in 1..Len(c)
               PROVE  t.color[c[i]] # "black"
    BY DEF NoBlackOnCycle
  <2>1. s.color[c[i]] # "black" /\ c[i] \in DOMAIN g.next
    BY DEF SearchInv, NoBlackOnCycle
  <2> QED BY <1>3, <2>1
<1> QED BY <1>2, <1>3, <1>5, <1>6, <1>7 DEF OnTop

\* The outer loop starts from a white node.
LEMMA BeginsKeeps ==
    ASSUME NEW g, IsGraph(g), NEW s, SearchInv(g, s), NEW t \in Searches(DOMAIN g.next), Begins(g, s, t)
    PROVE  SearchInv(g, t)
<1>1. PICK node : node = g.nodes[s.tried + 1]
  OBVIOUS
<1>2. s.stack = <<>> /\ s.tried < Len(g.nodes) /\ Entered(s, t, node) /\ t.at = s.at /\ t.tried = s.tried + 1
      /\ t.found = s.found /\ s.color[node] = "white"
  BY <1>1 DEF Begins, Entered
<1>3. s.tried \in Nat /\ g.nodes \in Seq(DOMAIN g.next) /\ node \in DOMAIN g.next
  <2>1. s.tried \in Nat /\ g.nodes \in Seq(DOMAIN g.next)
    BY DEF SearchInv, SearchTypes, Searches, IsGraph
  <2>2. s.tried + 1 \in 1..Len(g.nodes)
    BY <1>2, <2>1
  <2> QED BY <1>1, <2>1, <2>2
<1>4. /\ GrayOnStack(g, t) /\ DistinctStack(t) /\ NoBlackOnCycle(g, t)
      /\ Len(t.stack) = Len(s.stack) + 1 /\ t.stack[Len(s.stack) + 1] = node
      /\ \A x \in DOMAIN g.next : x # node => t.color[x] = s.color[x]
      /\ t.color[node] = "gray"
  <2>1. OnTop(g, s, t, node)
    BY <1>2, <1>3, EnteredKeeps
  <2> QED BY <2>1 DEF OnTop
<1>5. Len(t.stack) = 1 /\ t.stack[1] = node
  BY <1>2, <1>4
<1>6. SearchTypes(g, t)
  BY <1>2, <1>3 DEF SearchInv, SearchTypes, IsGraph
<1>7. LinkedStack(g, t)
  BY <1>5 DEF LinkedStack
<1>8. WhiteUnlooked(g, t)
  BY <1>2, <1>3, <1>4 DEF SearchInv, WhiteUnlooked
<1>9. LookedNearby(g, t)
  <2>1. s.at[node] = 0
    BY <1>2, <1>3 DEF SearchInv, WhiteUnlooked
  <2> QED BY <1>2, <1>5, <2>1 DEF LookedNearby
<1>10. FoundIsCycle(g, t)
  BY <1>2 DEF SearchInv, FoundIsCycle
<1>11. TriedNotWhite(g, t)
  <2> SUFFICES ASSUME NEW i \in 1..t.tried PROVE t.color[g.nodes[i]] # "white"
    BY DEF TriedNotWhite
  <2>1. CASE i = s.tried + 1
    BY <1>1, <1>4, <2>1
  <2>2. CASE i \in 1..s.tried
    <3>1. s.color[g.nodes[i]] # "white" /\ g.nodes[i] \in DOMAIN g.next
      BY <1>2, <1>3, <2>2 DEF SearchInv, TriedNotWhite
    <3> QED BY <1>4, <3>1
  <2> QED BY <1>2, <1>3, <2>1, <2>2
<1> QED BY <1>4, <1>6, <1>7, <1>8, <1>9, <1>10, <1>11 DEF SearchInv

\* The node on top looks at its next child.
Tops(g, s, t, top, m, nxt) ==
    /\ m = Len(s.stack) /\ m \in Nat /\ m >= 1 /\ top = s.stack[m] /\ top = Last(s.stack) /\ top \in DOMAIN g.next
    /\ s.at[top] \in Nat /\ s.at[top] + 1 \in 1..Len(g.next[top])
    /\ nxt = NextOf(g, s) /\ nxt = g.next[top][s.at[top] + 1] /\ nxt \in DOMAIN g.next
    /\ Child(g, top, nxt) /\ s.color[top] = "gray"
    /\ t.at[top] = s.at[top] + 1 /\ \A x \in DOMAIN g.next : x # top => t.at[x] = s.at[x]
    /\ \A i \in 1..m : s.stack[i] = top => i = m
    /\ t.tried = s.tried /\ SearchTypes(g, t)
\* A step that looks at a child looks at one of the node on top of the stack.
LEMMA LooksIs ==
    ASSUME NEW g, IsGraph(g), NEW s, SearchInv(g, s), NEW t \in Searches(DOMAIN g.next), Looks(g, s, t)
    PROVE  \E top, m, nxt : Tops(g, s, t, top, m, nxt)
<1>1. PICK V : V = DOMAIN g.next
  OBVIOUS
<1>2. PICK k : k = s.stack
  OBVIOUS
<1>3. PICK m : m = Len(k)
  OBVIOUS
<1>4. PICK top : top = Last(k)
  OBVIOUS
<1>5. /\ s.stack \in Seq(V) /\ s.at \in [V -> Nat] /\ g.next \in [V -> Seq(V)] /\ t.at \in [V -> Nat]
      /\ \A x \in V : s.at[x] <= Len(g.next[x])
  BY <1>1 DEF SearchInv, SearchTypes, Searches, IsGraph
<1>6. k \in Seq(V) /\ k # <<>> /\ s.at[top] # Len(g.next[top]) /\ t.at = [s.at EXCEPT ![top] = @ + 1] /\ t.tried = s.tried
  BY <1>2, <1>4, <1>5 DEF Looks
<1>7. m \in Nat /\ m >= 1 /\ top = k[m] /\ top \in V
  BY <1>3, <1>4, <1>6, LastFront
<1>8. s.at[top] \in Nat /\ g.next[top] \in Seq(V) /\ s.at[top] <= Len(g.next[top])
  BY <1>5, <1>7
<1>9. s.at[top] + 1 \in 1..Len(g.next[top])
  BY <1>6, <1>8
<1>10. PICK nxt : nxt = g.next[top][s.at[top] + 1]
  OBVIOUS
<1>11. nxt \in V /\ Child(g, top, nxt)
  BY <1>8, <1>9, <1>10 DEF Child
<1>12. s.color[top] = "gray"
  <2>1. m \in 1..Len(s.stack) /\ s.stack[m] = top
    BY <1>2, <1>3, <1>7
  <2> QED BY <1>1, <1>7, <2>1 DEF SearchInv, GrayOnStack
<1>13. t.at[top] = s.at[top] + 1 /\ \A x \in V : x # top => t.at[x] = s.at[x]
  BY <1>5, <1>6, <1>7
<1>14. \A i \in 1..m : k[i] = top => i = m
  <2>1. m \in 1..m
    BY <1>7
  <2> QED BY <1>2, <1>3, <1>7, <2>1 DEF SearchInv, DistinctStack
<1>15. SearchTypes(g, t)
  <2>1. t.tried <= Len(g.nodes)
    BY <1>6 DEF SearchInv, SearchTypes
  <2>2. ASSUME NEW x \in V PROVE t.at[x] <= Len(g.next[x])
    <3>1. CASE x = top
      BY <1>9, <1>13, <3>1
    <3>2. CASE x # top
      BY <1>5, <1>13, <3>2
    <3> QED BY <3>1, <3>2
  <2> QED BY <1>1, <2>1, <2>2 DEF SearchTypes
<1>16. nxt = NextOf(g, s)
  BY <1>2, <1>4, <1>10 DEF NextOf
<1>17. Tops(g, s, t, top, m, nxt)
  BY <1>1, <1>2, <1>3, <1>4, <1>6, <1>7, <1>8, <1>9, <1>10, <1>11, <1>12, <1>13, <1>14, <1>15, <1>16 DEF Tops
<1> QED BY <1>17

\* dfs descends into a white child.
LEMMA DescendsKeeps ==
    ASSUME NEW g, IsGraph(g), NEW s, SearchInv(g, s), ~Over(g, s), NEW t \in Searches(DOMAIN g.next), Descends(g, s, t)
    PROVE  SearchInv(g, t)
<1>1. PICK top, m, nxt : Tops(g, s, t, top, m, nxt)
  BY LooksIs DEF Descends
<1>2. nxt \in DOMAIN g.next /\ Entered(s, t, nxt) /\ s.color[nxt] = "white" /\ t.found = s.found /\ s.found = <<>>
  BY <1>1 DEF Tops, Descends, Entered, Over
<1>3. OnTop(g, s, t, nxt)
  BY <1>2, EnteredKeeps
<1>4. /\ GrayOnStack(g, t) /\ DistinctStack(t) /\ NoBlackOnCycle(g, t) /\ SearchTypes(g, t)
  BY <1>1, <1>3 DEF OnTop, Tops
<1>5. /\ m \in Nat /\ m >= 1 /\ m = Len(s.stack) /\ Len(t.stack) = m + 1 /\ \A i \in 1..m : t.stack[i] = s.stack[i]
      /\ t.stack[m + 1] = nxt /\ t.stack[m] = top /\ s.stack[m] = top
  <2>1. m \in Nat /\ m >= 1 /\ m = Len(s.stack) /\ s.stack[m] = top
    BY <1>1 DEF Tops
  <2>2. Len(t.stack) = m + 1 /\ (\A i \in 1..m : t.stack[i] = s.stack[i]) /\ t.stack[m + 1] = nxt
    BY <1>3, <2>1 DEF OnTop
  <2>3. m \in 1..m
    BY <2>1
  <2> QED BY <2>1, <2>2, <2>3
<1>6. LinkedStack(g, t)
  <2> SUFFICES ASSUME NEW i \in 1..m PROVE Child(g, t.stack[i], t.stack[i + 1])
    BY <1>5 DEF LinkedStack
  <2>1. CASE i = m
    <3>1. Child(g, top, nxt)
      BY <1>1 DEF Tops
    <3> QED BY <1>5, <2>1, <3>1
  <2>2. CASE i # m
    <3>1. i \in 1..m - 1 /\ i + 1 \in 1..m
      BY <1>5, <2>2
    <3>2. Child(g, s.stack[i], s.stack[i + 1])
      BY <1>5, <3>1 DEF SearchInv, LinkedStack
    <3> QED BY <1>5, <3>1, <3>2
  <2> QED BY <2>1, <2>2
<1>7. WhiteUnlooked(g, t)
  <2> SUFFICES ASSUME NEW x \in DOMAIN g.next, t.color[x] = "white" PROVE t.at[x] = 0
    BY DEF WhiteUnlooked
  <2>1. x # nxt /\ s.color[x] = "white"
    BY <1>2, <1>3 DEF OnTop
  <2>2. x # top
    BY <1>1, <2>1 DEF Tops
  <2>3. s.at[x] = 0
    BY <2>1 DEF SearchInv, WhiteUnlooked
  <2> QED BY <1>1, <2>2, <2>3 DEF Tops
<1>8. LookedNearby(g, t)
  <2> SUFFICES ASSUME NEW i \in 1..Len(t.stack), NEW j \in 1..t.at[t.stack[i]]
               PROVE  \/ t.color[g.next[t.stack[i]][j]] = "black"
                      \/ \E p \in 1..Len(t.stack) : i - 1 <= p /\ p <= i + 1 /\ t.stack[p] = g.next[t.stack[i]][j]
    BY DEF LookedNearby
  <2>1. CASE i = m + 1
    <3>1. nxt # top /\ s.at[nxt] = 0
      BY <1>1, <1>2 DEF Tops, SearchInv, WhiteUnlooked
    <3>2. t.at[nxt] = 0
      BY <1>1, <1>2, <3>1 DEF Tops
    <3> QED BY <1>5, <2>1, <3>2
  <2>2. CASE i = m /\ j = s.at[top] + 1
    <3>1. t.stack[i] = top /\ g.next[top][j] = nxt
      BY <1>1, <1>5, <2>2 DEF Tops
    <3>2. m + 1 \in 1..Len(t.stack) /\ i - 1 <= m + 1 /\ m + 1 <= i + 1
      BY <1>5, <2>2
    <3> QED BY <1>5, <3>1, <3>2
  <2>3. CASE i \in 1..m /\ ~(i = m /\ j = s.at[top] + 1)
    <3>1. PICK x : x = s.stack[i]
      OBVIOUS
    <3>2. x = t.stack[i] /\ x \in DOMAIN g.next
      <4>1. s.stack \in Seq(DOMAIN g.next)
        BY DEF SearchInv, SearchTypes, Searches
      <4>2. i \in 1..Len(s.stack) /\ x = t.stack[i]
        BY <1>5, <2>3, <3>1
      <4> QED BY <3>1, <4>1, <4>2, ElementOfSeq
    <3>3. j \in 1..s.at[x]
      <4>1. CASE x = top
        <5>1. i = m
          BY <1>1, <2>3, <3>1, <4>1 DEF Tops
        <5>2. s.at[top] \in Nat /\ t.at[top] = s.at[top] + 1
          BY <1>1 DEF Tops
        <5> QED BY <2>3, <3>2, <4>1, <5>1, <5>2
      <4>2. CASE x # top
        BY <1>1, <3>2, <4>2 DEF Tops
      <4> QED BY <4>1, <4>2
    <3>4. PICK y : y = g.next[x][j]
      OBVIOUS
    <3>5. y \in DOMAIN g.next
      <4>1. g.next[x] \in Seq(DOMAIN g.next) /\ s.at[x] \in Nat /\ s.at[x] <= Len(g.next[x])
        BY <3>2 DEF IsGraph, SearchInv, SearchTypes, Searches
      <4>2. j \in 1..Len(g.next[x])
        BY <3>3, <4>1
      <4> QED BY <3>4, <4>1, <4>2
    <3>6. \/ s.color[y] = "black"
          \/ \E p \in 1..m : i - 1 <= p /\ p <= i + 1 /\ s.stack[p] = y
      BY <1>2, <1>5, <2>3, <3>1, <3>3, <3>4 DEF SearchInv, LookedNearby
    <3>7. CASE s.color[y] = "black"
      <4>1. t.color[y] = "black"
        BY <1>2, <1>3, <3>5, <3>7 DEF OnTop
      <4> QED BY <3>2, <3>4, <4>1
    <3>8. CASE \E p \in 1..m : i - 1 <= p /\ p <= i + 1 /\ s.stack[p] = y
      <4>1. PICK p \in 1..m : i - 1 <= p /\ p <= i + 1 /\ s.stack[p] = y
        BY <3>8
      <4>2. p \in 1..Len(t.stack) /\ t.stack[p] = y
        BY <1>5, <4>1
      <4> QED BY <3>2, <3>4, <4>1, <4>2
    <3> QED BY <3>6, <3>7, <3>8
  <2> QED BY <1>5, <2>1, <2>2, <2>3
<1>9. FoundIsCycle(g, t)
  BY <1>2 DEF FoundIsCycle
<1>10. TriedNotWhite(g, t)
  <2> SUFFICES ASSUME NEW i \in 1..s.tried PROVE t.color[g.nodes[i]] # "white"
    BY <1>1 DEF TriedNotWhite, Tops
  <2>1. s.color[g.nodes[i]] # "white"
    BY DEF SearchInv, TriedNotWhite
  <2>2. g.nodes[i] \in DOMAIN g.next
    <3>1. s.tried \in Nat /\ g.nodes \in Seq(DOMAIN g.next) /\ s.tried <= Len(g.nodes)
      BY DEF IsGraph, SearchInv, SearchTypes, Searches
    <3>2. i \in 1..Len(g.nodes)
      BY <3>1
    <3> QED BY <3>1, <3>2
  <2> QED BY <1>3, <2>1, <2>2 DEF OnTop
<1> QED BY <1>4, <1>6, <1>7, <1>8, <1>9, <1>10 DEF SearchInv

\* What a looked-at child adds to LookedNearby when the colours and the stack stay.
LEMMA LooksNearby ==
    ASSUME NEW g, IsGraph(g), NEW s, SearchInv(g, s), ~Over(g, s), NEW t \in Searches(DOMAIN g.next),
           NEW top, NEW m, NEW nxt, Tops(g, s, t, top, m, nxt), t.color = s.color, t.stack = s.stack,
           s.color[nxt] = "black" \/ \E p \in 1..m : m - 1 <= p /\ s.stack[p] = nxt
    PROVE  LookedNearby(g, t)
<1> SUFFICES ASSUME NEW i \in 1..Len(s.stack), NEW j \in 1..t.at[s.stack[i]]
             PROVE  \/ s.color[g.next[s.stack[i]][j]] = "black"
                    \/ \E p \in 1..Len(s.stack) : i - 1 <= p /\ p <= i + 1 /\ s.stack[p] = g.next[s.stack[i]][j]
  BY DEF LookedNearby
<1>1. m \in Nat /\ m >= 1 /\ m = Len(s.stack) /\ s.stack[m] = top /\ i \in 1..m
  BY DEF Tops
<1>2. CASE i = m /\ j = s.at[top] + 1
  <2>1. s.stack[i] = top /\ g.next[top][j] = nxt
    BY <1>1, <1>2 DEF Tops
  <2>2. CASE \E p \in 1..m : m - 1 <= p /\ s.stack[p] = nxt
    <3>1. PICK p \in 1..m : m - 1 <= p /\ s.stack[p] = nxt
      BY <2>2
    <3>2. p \in 1..Len(s.stack) /\ i - 1 <= p /\ p <= i + 1
      BY <1>1, <1>2, <3>1
    <3> QED BY <2>1, <3>1, <3>2
  <2> QED BY <2>1, <2>2
<1>3. CASE ~(i = m /\ j = s.at[top] + 1)
  <2>1. PICK x : x = s.stack[i]
    OBVIOUS
  <2>2. x \in DOMAIN g.next
    <3>1. s.stack \in Seq(DOMAIN g.next)
      BY DEF SearchInv, SearchTypes, Searches
    <3> QED BY <2>1, <3>1
  <2>3. j \in 1..s.at[x]
    <3>1. CASE x = top
      <4>1. i = m
        BY <1>1, <2>1, <3>1 DEF Tops
      <4>2. s.at[top] \in Nat /\ t.at[top] = s.at[top] + 1
        BY DEF Tops
      <4> QED BY <1>3, <2>1, <3>1, <4>1, <4>2
    <3>2. CASE x # top
      BY <2>1, <2>2, <3>2 DEF Tops
    <3> QED BY <3>1, <3>2
  <2>4. LookedNearby(g, s)
    BY DEF SearchInv, Over
  <2> QED BY <2>1, <2>3, <2>4 DEF LookedNearby
<1> QED BY <1>2, <1>3

\* A child that is black, or closes a cycle too short to report, is passed over.
LEMMA IgnoresKeeps ==
    ASSUME NEW g, IsGraph(g), NEW s, SearchInv(g, s), ~Over(g, s), NEW t \in Searches(DOMAIN g.next), Ignores(g, s, t)
    PROVE  SearchInv(g, t)
<1>1. PICK top, m, nxt : Tops(g, s, t, top, m, nxt)
  BY LooksIs DEF Ignores
<1>2. t.color = s.color /\ t.stack = s.stack /\ t.found = s.found /\ s.color[nxt] # "white"
      /\ (s.color[nxt] = "gray" => Len(CycleFrom(s, nxt)) < _MIN_CYCLE_DEPTH)
  BY <1>1 DEF Ignores, Tops
<1>3. nxt \in DOMAIN g.next /\ s.color[nxt] \in {"white", "gray", "black"} /\ s.stack \in Seq(DOMAIN g.next)
      /\ m \in Nat /\ m = Len(s.stack) /\ t.tried = s.tried /\ SearchTypes(g, t)
  BY <1>1 DEF Tops, SearchInv, SearchTypes, Searches
<1>4. s.color[nxt] = "black" \/ \E p \in 1..m : m - 1 <= p /\ s.stack[p] = nxt
  <2>1. CASE s.color[nxt] = "gray"
    <3>1. \E i \in 1..Len(s.stack) : s.stack[i] = nxt
      BY <1>3, <2>1 DEF SearchInv, GrayOnStack
    <3>2. PICK p \in 1..Len(s.stack) : CutAt(DOMAIN g.next, s, nxt, p)
      <4>1. \E p \in 1..Len(s.stack) : CutAt(DOMAIN g.next, s, nxt, p)
        BY <1>3, <3>1, CycleFromIs
      <4> QED BY <4>1
    <3>3. s.stack[p] = nxt /\ Len(CycleFrom(s, nxt)) = Len(s.stack) - p + 1
      BY <3>2 DEF CutAt
    <3>4. m - 1 <= p
      BY <1>2, <1>3, <2>1, <3>3 DEF _MIN_CYCLE_DEPTH
    <3> QED BY <1>3, <3>3, <3>4
  <2> QED BY <1>2, <1>3, <2>1
<1>5. LookedNearby(g, t)
  BY <1>1, <1>2, <1>4, LooksNearby
<1>6. GrayOnStack(g, t) /\ DistinctStack(t) /\ LinkedStack(g, t)
  BY <1>2 DEF SearchInv, GrayOnStack, DistinctStack, LinkedStack
<1>7. WhiteUnlooked(g, t)
  BY <1>1, <1>2 DEF SearchInv, WhiteUnlooked, Tops
<1>8. NoBlackOnCycle(g, t) /\ FoundIsCycle(g, t) /\ TriedNotWhite(g, t)
  BY <1>2, <1>3 DEF SearchInv, NoBlackOnCycle, FoundIsCycle, TriedNotWhite
<1> QED BY <1>3, <1>5, <1>6, <1>7, <1>8 DEF SearchInv

\* A child on the stack closes a cycle, which is reported.
LEMMA FindsKeeps ==
    ASSUME NEW g, IsGraph(g), NEW s, SearchInv(g, s), ~Over(g, s), NEW t \in Searches(DOMAIN g.next), Finds(g, s, t)
    PROVE  SearchInv(g, t)
<1>1. PICK top, m, nxt : Tops(g, s, t, top, m, nxt)
  BY LooksIs DEF Finds
<1>2. t.color = s.color /\ t.stack = s.stack /\ t.found = CycleFrom(s, nxt) /\ s.color[nxt] = "gray"
      /\ Len(CycleFrom(s, nxt)) >= _MIN_CYCLE_DEPTH
  BY <1>1 DEF Finds, Tops
<1>3. nxt \in DOMAIN g.next /\ s.stack \in Seq(DOMAIN g.next)
      /\ m \in Nat /\ m >= 1 /\ m = Len(s.stack) /\ t.tried = s.tried /\ SearchTypes(g, t)
      /\ top = s.stack[m] /\ Child(g, top, nxt)
  BY <1>1 DEF Tops, SearchInv, SearchTypes, Searches
<1>4. \E i \in 1..Len(s.stack) : s.stack[i] = nxt
  BY <1>2, <1>3 DEF SearchInv, GrayOnStack
<1>5. PICK c : c = CycleFrom(s, nxt)
  OBVIOUS
<1>6. PICK p \in 1..Len(s.stack) :
          /\ s.stack[p] = nxt /\ c \in Seq(DOMAIN g.next) /\ Len(c) = Len(s.stack) - p + 1
          /\ \A i \in 1..Len(s.stack) - p + 1 : c[i] = s.stack[p + i - 1]
  <2>1. PICK p \in 1..Len(s.stack) : CutAt(DOMAIN g.next, s, nxt, p)
    BY <1>3, <1>4, CycleFromIs
  <2> QED BY <1>5, <2>1 DEF CutAt
<1>7. PICK n : n = Len(c)
  OBVIOUS
<1>0. m \in Nat /\ n \in Nat /\ n = m - p + 1 /\ p \in 1..m /\ n >= 3
  BY <1>2, <1>3, <1>5, <1>6, <1>7 DEF _MIN_CYCLE_DEPTH
<1>8. n \in Nat /\ n >= 3 /\ \A i \in 1..n : c[i] = s.stack[p + i - 1]
  BY <1>0, <1>3, <1>6
<1>9. c # <<>>
  BY <1>6, <1>7, <1>8, EmptySeq
<1>10. ASSUME NEW i \in 1..n, NEW j \in 1..n, i # j PROVE c[i] # c[j]
  <2>1. p + i - 1 \in 1..m /\ p + j - 1 \in 1..m /\ p + i - 1 # p + j - 1
    BY <1>0, <1>10
  <2> QED BY <1>3, <1>8, <2>1 DEF SearchInv, DistinctStack
<1>11. ASSUME NEW i \in 1..n PROVE Child(g, c[i], c[IF i = n THEN 1 ELSE i + 1])
  <2>1. CASE i = n
    <3>1. 1 \in 1..n /\ n \in 1..n /\ p + 1 - 1 = p /\ p + n - 1 = m
      BY <1>0
    <3>2. c[1] = s.stack[p + 1 - 1] /\ c[n] = s.stack[p + n - 1] /\ s.stack[p] = nxt /\ s.stack[m] = top
      BY <1>3, <1>6, <1>8, <3>1
    <3>3. c[1] = nxt /\ c[n] = top
      BY <3>1, <3>2
    <3> QED BY <1>3, <2>1, <3>3
  <2>2. CASE i # n
    <3>1. i + 1 \in 1..n /\ p + i - 1 \in 1..m - 1 /\ (p + i - 1) + 1 = p + (i + 1) - 1
      BY <1>0, <1>11, <2>2
    <3>2. Child(g, s.stack[p + i - 1], s.stack[(p + i - 1) + 1])
      BY <1>3, <3>1 DEF SearchInv, LinkedStack
    <3>3. c[i] = s.stack[p + i - 1] /\ c[i + 1] = s.stack[p + (i + 1) - 1]
      BY <1>8, <3>1
    <3>4. Child(g, c[i], c[i + 1])
      BY <3>1, <3>2, <3>3
    <3> QED BY <2>2, <3>4
  <2> QED BY <2>1, <2>2
<1>12. IsCycle(g, c)
  BY <1>7, <1>10, <1>11 DEF IsCycle
<1>13. FoundIsCycle(g, t) /\ t.found # <<>>
  BY <1>2, <1>5, <1>9, <1>12 DEF FoundIsCycle
<1>14. GrayOnStack(g, t) /\ DistinctStack(t) /\ LinkedStack(g, t)
  BY <1>2 DEF SearchInv, GrayOnStack, DistinctStack, LinkedStack
<1>15. WhiteUnlooked(g, t)
  BY <1>1, <1>2 DEF SearchInv, WhiteUnlooked, Tops
<1>16. NoBlackOnCycle(g, t) /\ TriedNotWhite(g, t)
  BY <1>2, <1>3 DEF SearchInv, NoBlackOnCycle, TriedNotWhite
<1> QED BY <1>3, <1>13, <1>14, <1>15, <1>16 DEF SearchInv

\* The neighbours of a place in a cycle of three or more.
LEMMA CycleNeighbours ==
    ASSUME NEW g, NEW c \in Seq(DOMAIN g.next), Len(c) >= _MIN_CYCLE_DEPTH, IsCycle(g, c), NEW i \in 1..Len(c)
    PROVE  \E q, r \in 1..Len(c) : /\ Child(g, c[q], c[i]) /\ Child(g, c[i], c[r])
                                   /\ c[q] # c[r] /\ c[r] # c[i]
<1>1. PICK n : n = Len(c)
  OBVIOUS
<1>2. n \in Nat /\ n >= 3 /\ i \in 1..n
  BY <1>1 DEF _MIN_CYCLE_DEPTH
<1>3. /\ \A u, v \in 1..n : u # v => c[u] # c[v]
      /\ \A u \in 1..n : Child(g, c[u], c[IF u = n THEN 1 ELSE u + 1])
  BY <1>1 DEF IsCycle
<1>4. PICK r : r = IF i = n THEN 1 ELSE i + 1
  OBVIOUS
<1>5. PICK q : q = IF i = 1 THEN n ELSE i - 1
  OBVIOUS
<1>6. r \in 1..n /\ q \in 1..n /\ q # r /\ r # i /\ (IF q = n THEN 1 ELSE q + 1) = i
  BY <1>2, <1>4, <1>5
<1>7. Child(g, c[i], c[r])
  BY <1>2, <1>3, <1>4
<1>8. Child(g, c[q], c[i])
  BY <1>3, <1>6
<1> QED BY <1>1, <1>2, <1>3, <1>6, <1>7, <1>8

\* dfs returns: the node leaves the stack, and lies on no cycle of three or more.
LEMMA LeavesKeeps ==
    ASSUME NEW g, IsGraph(g), NEW s, SearchInv(g, s), ~Over(g, s),
           NEW t \in Searches(DOMAIN g.next), Leaves(g, s, t)
    PROVE  SearchInv(g, t)
<1>1. PICK V : V = DOMAIN g.next
  OBVIOUS
<1>2. PICK k : k = s.stack
  OBVIOUS
<1>3. PICK l : l = t.stack
  OBVIOUS
<1>4. PICK m : m = Len(k)
  OBVIOUS
<1>5. PICK top : top = Last(k)
  OBVIOUS
<1>6. /\ k \in Seq(V) /\ s.at \in [V -> Nat] /\ g.next \in [V -> Seq(V)] /\ s.color \in [V -> {"white", "gray", "black"}]
      /\ \A x \in V : s.at[x] <= Len(g.next[x])
  BY <1>1, <1>2 DEF SearchInv, SearchTypes, Searches, IsGraph
<1>7. k # <<>> /\ s.at[top] = Len(g.next[top]) /\ t.color = [s.color EXCEPT ![top] = "black"] /\ l = Front(k)
      /\ t.at = s.at /\ t.tried = s.tried /\ t.found = s.found /\ s.found = <<>>
  BY <1>2, <1>3, <1>5 DEF Leaves, Over
<1>8. m \in Nat /\ m >= 1 /\ top = k[m] /\ top \in V /\ l \in Seq(V) /\ Len(l) = m - 1 /\ \A i \in 1..m - 1 : l[i] = k[i]
  <2>1. /\ Len(k) \in Nat /\ Len(k) >= 1 /\ Last(k) = k[Len(k)] /\ Last(k) \in V
        /\ Front(k) \in Seq(V) /\ Len(Front(k)) = Len(k) - 1 /\ \A i \in 1..Len(k) - 1 : Front(k)[i] = k[i]
    BY <1>6, <1>7, LastFront
  <2> QED BY <1>4, <1>5, <1>7, <2>1
<1>9. t.color[top] = "black" /\ \A x \in V : x # top => t.color[x] = s.color[x]
  BY <1>6, <1>7, <1>8
<1>10. \A i, j \in 1..m : k[i] = k[j] => i = j
  BY <1>2, <1>4 DEF SearchInv, DistinctStack
<1>11. \A i \in 1..m : k[i] \in V
  BY <1>4, <1>6
<1>12. \A i \in 1..m - 1 : i \in 1..m /\ k[i] # top
  BY <1>8, <1>10
<1>13. \A x \in V : s.color[x] = "gray" <=> \E i \in 1..m : k[i] = x
  BY <1>1, <1>2, <1>4 DEF SearchInv, GrayOnStack
<1>14. SearchTypes(g, t)
  BY <1>7 DEF SearchInv, SearchTypes
<1>15. GrayOnStack(g, t)
  <2> SUFFICES ASSUME NEW x \in V PROVE t.color[x] = "gray" <=> \E i \in 1..Len(l) : l[i] = x
    BY <1>1, <1>3 DEF GrayOnStack
  <2>1. CASE x = top
    BY <1>8, <1>9, <1>12, <2>1
  <2>2. CASE x # top
    <3>1. (\E i \in 1..m : k[i] = x) <=> \E i \in 1..m - 1 : l[i] = x
      <4>1. \A i \in 1..m : i = m \/ i \in 1..m - 1
        BY <1>8
      <4> QED BY <1>8, <1>12, <2>2, <4>1
    <3> QED BY <1>8, <1>9, <1>13, <2>2, <3>1
  <2> QED BY <2>1, <2>2
<1>16. DistinctStack(t)
  <2>1. \A i, j \in 1..m - 1 : l[i] = l[j] => i = j
    BY <1>8, <1>10, <1>12
  <2> QED BY <1>3, <1>8, <2>1 DEF DistinctStack
<1>17. \A i \in 1..m - 1 : Child(g, k[i], k[i + 1])
  BY <1>2, <1>4 DEF SearchInv, LinkedStack
<1>18. LinkedStack(g, t)
  <2>1. ASSUME NEW i \in 1..(m - 1) - 1 PROVE Child(g, l[i], l[i + 1])
    <3>1. i \in 1..m - 1 /\ i + 1 \in 1..m - 1
      BY <1>8
    <3> QED BY <1>8, <1>17, <3>1
  <2> QED BY <1>3, <1>8, <2>1 DEF LinkedStack
<1>19. WhiteUnlooked(g, t)
  BY <1>1, <1>7, <1>8, <1>9 DEF SearchInv, WhiteUnlooked
<1>20. \A i \in 1..m : \A j \in 1..s.at[k[i]] :
          \/ s.color[g.next[k[i]][j]] = "black"
          \/ \E p \in 1..m : i - 1 <= p /\ p <= i + 1 /\ k[p] = g.next[k[i]][j]
  <2>1. LookedNearby(g, s)
    BY <1>7 DEF SearchInv
  <2> QED BY <1>2, <1>4, <2>1 DEF LookedNearby
<1>21. LookedNearby(g, t)
  <2> SUFFICES ASSUME NEW i \in 1..Len(l), NEW j \in 1..s.at[l[i]]
               PROVE  \/ t.color[g.next[l[i]][j]] = "black"
                      \/ \E p \in 1..Len(l) : i - 1 <= p /\ p <= i + 1 /\ l[p] = g.next[l[i]][j]
    BY <1>3, <1>7 DEF LookedNearby
  <2>1. i \in 1..m - 1 /\ i \in 1..m /\ l[i] = k[i] /\ k[i] \in V
    BY <1>8, <1>11, <1>12
  <2>2. PICK y : y = g.next[l[i]][j]
    OBVIOUS
  <2>3. y \in V
    <3>1. g.next[k[i]] \in Seq(V) /\ s.at[k[i]] \in Nat /\ s.at[k[i]] <= Len(g.next[k[i]])
      BY <1>6, <2>1
    <3>2. j \in 1..Len(g.next[k[i]])
      BY <2>1, <3>1
    <3> QED BY <2>1, <2>2, <3>1, <3>2, ElementOfSeq
  <2>4. s.color[y] = "black" \/ \E p \in 1..m : i - 1 <= p /\ p <= i + 1 /\ k[p] = y
    BY <1>20, <2>1, <2>2
  <2>5. CASE y = top
    BY <1>9, <2>2, <2>5
  <2>6. CASE y # top /\ s.color[y] = "black"
    BY <1>9, <2>2, <2>3, <2>6
  <2>7. CASE y # top /\ \E p \in 1..m : i - 1 <= p /\ p <= i + 1 /\ k[p] = y
    <3>1. PICK p \in 1..m : i - 1 <= p /\ p <= i + 1 /\ k[p] = y
      BY <2>7
    <3>2. p # m
      BY <1>8, <2>7, <3>1
    <3>3. p \in 1..m - 1 /\ p \in 1..Len(l)
      BY <1>8, <3>1, <3>2
    <3> QED BY <1>8, <2>2, <3>1, <3>3
  <2> QED BY <2>4, <2>5, <2>6, <2>7
<1>22. NoBlackOnCycle(g, t)
  <2> SUFFICES ASSUME NEW c \in Seq(V), NoneMissed(g), Len(c) >= _MIN_CYCLE_DEPTH, IsCycle(g, c), NEW i \in 1..Len(c)
               PROVE  t.color[c[i]] # "black"
    BY <1>1 DEF NoBlackOnCycle
  <2>1. \A j \in 1..Len(c) : s.color[c[j]] # "black" /\ c[j] \in V
    BY <1>1 DEF SearchInv, NoBlackOnCycle
  <2>2. CASE c[i] # top
    BY <1>9, <2>1, <2>2
  <2>3. CASE c[i] = top
    <3>1. PICK q, r \in 1..Len(c) : Child(g, c[q], top) /\ Child(g, top, c[r]) /\ c[q] # c[r] /\ c[r] # top
      <4>1. \E q, r \in 1..Len(c) : Child(g, c[q], c[i]) /\ Child(g, c[i], c[r]) /\ c[q] # c[r] /\ c[r] # c[i]
        BY <1>1, CycleNeighbours
      <4> QED BY <2>3, <4>1
    <3>2. PICK y : y = c[r]
      OBVIOUS
    <3>3. PICK j \in 1..Len(g.next[top]) : g.next[top][j] = y
      BY <3>1, <3>2 DEF Child
    <3>4. m \in 1..m /\ j \in 1..s.at[k[m]]
      BY <1>7, <1>8, <3>3
    <3>5. PICK p \in 1..m : m - 1 <= p /\ k[p] = y
      <4>1. s.color[y] # "black"
        BY <2>1, <3>1, <3>2
      <4>2. g.next[k[m]][j] = y
        BY <1>8, <3>3
      <4> QED BY <1>20, <3>4, <4>1, <4>2
    <3>6. p = m - 1 /\ p \in 1..m - 1 /\ p + 1 = m
      <4>1. p # m
        BY <1>8, <3>1, <3>2, <3>5
      <4> QED BY <1>8, <3>5, <4>1
    <3>7. Child(g, y, top)
      BY <1>8, <1>17, <3>5, <3>6
    <3>8. OneParent(g) => c[q] = y
      BY <1>1, <1>8, <2>1, <3>1, <3>2, <3>7 DEF OneParent
    <3>9. ShortCycle(g)
      BY <1>1, <1>8, <2>1, <3>1, <3>2, <3>7 DEF ShortCycle
    <3> QED BY <3>1, <3>2, <3>8, <3>9 DEF NoneMissed
  <2> QED BY <2>2, <2>3
<1>23. FoundIsCycle(g, t)
  BY <1>7 DEF FoundIsCycle
<1>24. TriedNotWhite(g, t)
  <2> SUFFICES ASSUME NEW i \in 1..s.tried PROVE t.color[g.nodes[i]] # "white"
    BY <1>7 DEF TriedNotWhite
  <2>1. s.color[g.nodes[i]] # "white"
    BY DEF SearchInv, TriedNotWhite
  <2>2. g.nodes[i] \in V
    <3>1. s.tried \in Nat /\ g.nodes \in Seq(V) /\ s.tried <= Len(g.nodes)
      BY <1>1 DEF IsGraph, SearchInv, SearchTypes, Searches
    <3>2. i \in 1..Len(g.nodes)
      BY <3>1
    <3> QED BY <3>1, <3>2
  <2> QED BY <1>9, <2>1, <2>2
<1> QED BY <1>14, <1>15, <1>16, <1>18, <1>19, <1>21, <1>22, <1>23, <1>24 DEF SearchInv

\* Each step keeps the invariant.
LEMMA StepKeeps ==
    ASSUME NEW g, IsGraph(g), NEW s, SearchInv(g, s)
    PROVE  SearchInv(g, Step(g, s))
<1>1. CASE Over(g, s)
  BY <1>1 DEF Step
<1>2. CASE ~Over(g, s)
  <2>1. SearchTypes(g, s) /\ GrayOnStack(g, s)
    BY DEF SearchInv
  <2>2. /\ Step(g, s) \in Searches(DOMAIN g.next)
        /\ \/ Skips(g, s, Step(g, s)) \/ Begins(g, s, Step(g, s)) \/ Leaves(g, s, Step(g, s))
           \/ Ignores(g, s, Step(g, s)) \/ Descends(g, s, Step(g, s)) \/ Finds(g, s, Step(g, s))
    BY <1>2, <2>1, StepDoes
  <2> QED BY <1>2, <2>2, SkipsKeeps, BeginsKeeps, LeavesKeeps, IgnoresKeeps, DescendsKeeps, FindsKeeps
<1> QED BY <1>1, <1>2

\* The search invariant holds before the first step.
LEMMA UnsearchedInv ==
    ASSUME NEW g, IsGraph(g)
    PROVE  SearchInv(g, Unsearched(g))
<1>1. PICK s : s = Unsearched(g)
  OBVIOUS
<1>2. PICK V : V = DOMAIN g.next
  OBVIOUS
<1>3. s = [color |-> [n \in V |-> "white"], stack |-> <<>>, at |-> [n \in V |-> 0], tried |-> 0, found |-> <<>>]
  BY <1>1, <1>2 DEF Unsearched
<1>4. s \in Searches(V) /\ s.stack = <<>> /\ s.found = <<>> /\ s.tried = 0
      /\ \A x \in V : s.color[x] = "white" /\ s.at[x] = 0
  BY <1>3 DEF Searches
<1>5. Len(g.nodes) \in Nat /\ \A x \in V : Len(g.next[x]) \in Nat
  BY <1>2 DEF IsGraph
<1>6. SearchTypes(g, s)
  BY <1>2, <1>4, <1>5 DEF SearchTypes
<1>7. GrayOnStack(g, s) /\ DistinctStack(s) /\ LinkedStack(g, s) /\ WhiteUnlooked(g, s) /\ LookedNearby(g, s)
  BY <1>2, <1>4 DEF GrayOnStack, DistinctStack, LinkedStack, WhiteUnlooked, LookedNearby
<1>8. NoBlackOnCycle(g, s)
  BY <1>2, <1>4 DEF NoBlackOnCycle
<1>9. FoundIsCycle(g, s) /\ TriedNotWhite(g, s)
  BY <1>4 DEF FoundIsCycle, TriedNotWhite
<1> QED BY <1>1, <1>6, <1>7, <1>8, <1>9 DEF SearchInv

\* The image of a finite set is finite.
LEMMA FiniteImage ==
    ASSUME NEW S, IsFiniteSet(S), NEW f
    PROVE  IsFiniteSet({f[x] : x \in S})
<1>1. PICK T : T = {f[x] : x \in S}
  OBVIOUS
<1>2. PICK h : h = [x \in S |-> f[x]]
  OBVIOUS
<1>3. h \in Surjection(S, T)
  BY <1>1, <1>2 DEF Surjection
<1> QED BY <1>1, <1>3, FS_Surjection

\* A graph has finitely many spans, at most as many as its node list is long.
LEMMA NodesFinite ==
    ASSUME NEW g, IsGraph(g)
    PROVE  IsFiniteSet(DOMAIN g.next) /\ Cardinality(DOMAIN g.next) <= Len(g.nodes)
<1>1. PICK V : V = DOMAIN g.next
  OBVIOUS
<1>2. PICK q : q = g.nodes
  OBVIOUS
<1>3. q \in Seq(V) /\ \A x \in V : \E i \in 1..Len(q) : q[i] = x
  BY <1>1, <1>2 DEF IsGraph
<1>4. q \in [1..Len(q) -> V] /\ Len(q) \in Nat
  BY <1>3
<1>5. q \in Surjection(1..Len(q), V)
  BY <1>3, <1>4 DEF Surjection
<1>6. IsFiniteSet(1..Len(q)) /\ Cardinality(1..Len(q)) = Len(q)
  <2>1. IsFiniteSet(1..Len(q)) /\ Cardinality(1..Len(q)) = IF 1 > Len(q) THEN 0 ELSE Len(q) - 1 + 1
    BY <1>4, FS_Interval
  <2> QED BY <1>4, <2>1
<1>7. IsFiniteSet(V) /\ Cardinality(V) <= Len(q)
  BY <1>5, <1>6, FS_Surjection
<1> QED BY <1>1, <1>2, <1>7

\* The search has finitely many moves, which bounds the steps it can take.
LEMMA MovesFinite ==
    ASSUME NEW g, IsGraph(g)
    PROVE  IsFiniteSet(Moves(g))
<1>1. IsFiniteSet(DOMAIN g.next) /\ Len(g.nodes) \in Nat /\ \A x \in DOMAIN g.next : Len(g.next[x]) \in Nat
  <2>1. IsFiniteSet(DOMAIN g.next)
    BY NodesFinite
  <2>2. PICK V : V = DOMAIN g.next
    OBVIOUS
  <2>3. PICK q : q = g.nodes
    OBVIOUS
  <2>4. PICK h : h = g.next
    OBVIOUS
  <2>5. q \in Seq(V) /\ h \in [V -> Seq(V)]
    BY <2>2, <2>3, <2>4 DEF IsGraph
  <2>6. Len(q) \in Nat
    BY <2>5
  <2>7. \A x \in V : Len(h[x]) \in Nat
    BY <2>5
  <2> QED BY <2>1, <2>2, <2>3, <2>4, <2>6, <2>7
<1>2. \A n \in Nat : IsFiniteSet(1..n)
  BY FS_Interval
<1>3. PICK A : A = {<<"try", g.nodes[i], i>> : i \in 1..Len(g.nodes)}
  OBVIOUS
<1>4. IsFiniteSet(A)
  <2>1. PICK f : f = [i \in 1..Len(g.nodes) |-> <<"try", g.nodes[i], i>>]
    OBVIOUS
  <2>0. IsFiniteSet(1..Len(g.nodes))
    BY <1>1, <1>2
  <2>2. IsFiniteSet({f[i] : i \in 1..Len(g.nodes)})
    BY <2>0, FiniteImage
  <2>3. {f[i] : i \in 1..Len(g.nodes)} = A
    BY <1>3, <2>1
  <2> QED BY <2>2, <2>3
<1>5. PICK F : F = [x \in DOMAIN g.next |-> {<<"look", x, i>> : i \in 1..Len(g.next[x])}]
  OBVIOUS
<1>6. PICK B : B = {F[x] : x \in DOMAIN g.next}
  OBVIOUS
<1>7. IsFiniteSet(B)
  <2>1. IsFiniteSet({F[x] : x \in DOMAIN g.next})
    BY <1>1, FiniteImage
  <2> QED BY <1>6, <2>1
<1>8. \A T \in B : IsFiniteSet(T)
  <2> SUFFICES ASSUME NEW x \in DOMAIN g.next PROVE IsFiniteSet(F[x])
    BY <1>6
  <2>1. PICK f : f = [i \in 1..Len(g.next[x]) |-> <<"look", x, i>>]
    OBVIOUS
  <2>0. IsFiniteSet(1..Len(g.next[x]))
    BY <1>1, <1>2
  <2>2. IsFiniteSet({f[i] : i \in 1..Len(g.next[x])})
    BY <2>0, FiniteImage
  <2>3. {f[i] : i \in 1..Len(g.next[x])} = F[x]
    BY <1>5, <2>1
  <2> QED BY <2>2, <2>3
<1>9. IsFiniteSet(UNION B)
  BY <1>7, <1>8, FS_UNION
<1>10. PICK C : C = {<<"leave", x, 0>> : x \in DOMAIN g.next}
  OBVIOUS
<1>11. IsFiniteSet(C)
  <2>1. PICK f : f = [x \in DOMAIN g.next |-> <<"leave", x, 0>>]
    OBVIOUS
  <2>2. IsFiniteSet({f[x] : x \in DOMAIN g.next})
    BY <1>1, FiniteImage
  <2>3. {f[x] : x \in DOMAIN g.next} = C
    BY <1>10, <2>1
  <2> QED BY <2>2, <2>3
<1>12. B = {{<<"look", x, i>> : i \in 1..Len(g.next[x])} : x \in DOMAIN g.next}
  BY <1>5, <1>6
<1>13. Moves(g) = A \cup (UNION B) \cup C
  BY <1>3, <1>10, <1>12 DEF Moves
<1>14. IsFiniteSet(A \cup (UNION B))
  BY <1>4, <1>9, FS_Union
<1>15. PICK D : D = A \cup (UNION B)
  OBVIOUS
<1>16. IsFiniteSet(D)
  BY <1>14, <1>15
<1>17. IsFiniteSet(D \cup C)
  BY <1>11, <1>16, FS_Union
<1>18. Moves(g) = D \cup C
  BY <1>13, <1>15
<1> QED BY <1>17, <1>18

\* What the search has done of its moves.
Done(g, s) ==
    {m \in Moves(g) : \/ m[1] = "try" /\ m[3] <= s.tried
                      \/ m[1] = "look" /\ m[3] <= s.at[m[2]]
                      \/ m[1] = "leave" /\ s.color[m[2]] = "black"}

\* A step that is taken does one more of them.
LEMMA StepAdvances ==
    ASSUME NEW g, IsGraph(g), NEW s, SearchInv(g, s), ~Over(g, s)
    PROVE  /\ Done(g, s) \subseteq Done(g, Step(g, s))
           /\ \E m \in Moves(g) : m \notin Done(g, s) /\ m \in Done(g, Step(g, s))
<1>1. PICK t : t = Step(g, s)
  OBVIOUS
<1>2. PICK V : V = DOMAIN g.next
  OBVIOUS
<1>3. /\ SearchTypes(g, s) /\ GrayOnStack(g, s) /\ s.tried \in Nat /\ s.at \in [V -> Nat]
      /\ s.color \in [V -> {"white", "gray", "black"}] /\ s.stack \in Seq(V)
  BY <1>2 DEF SearchInv, SearchTypes, Searches
<1>4. /\ t \in Searches(V)
      /\ Skips(g, s, t) \/ Begins(g, s, t) \/ Leaves(g, s, t) \/ Ignores(g, s, t) \/ Descends(g, s, t) \/ Finds(g, s, t)
  BY <1>1, <1>2, <1>3, StepDoes
<1>0. \A m : m \in Moves(g) <=> \/ \E i \in 1..Len(g.nodes) : m = <<"try", g.nodes[i], i>>
                                \/ \E x \in V : \E i \in 1..Len(g.next[x]) : m = <<"look", x, i>>
                                \/ \E x \in V : m = <<"leave", x, 0>>
  <2>1. PICK A : A = {<<"try", g.nodes[i], i>> : i \in 1..Len(g.nodes)}
    OBVIOUS
  <2>2. PICK B : B = UNION {{<<"look", x, i>> : i \in 1..Len(g.next[x])} : x \in V}
    OBVIOUS
  <2>3. PICK C : C = {<<"leave", x, 0>> : x \in V}
    OBVIOUS
  <2>4. Moves(g) = A \cup B \cup C
    BY <1>2, <2>1, <2>2, <2>3 DEF Moves
  <2>5. \A m : m \in A <=> \E i \in 1..Len(g.nodes) : m = <<"try", g.nodes[i], i>>
    BY <2>1
  <2>6. \A m : m \in B <=> \E x \in V : \E i \in 1..Len(g.next[x]) : m = <<"look", x, i>>
    BY <2>2
  <2>7. \A m : m \in C <=> \E x \in V : m = <<"leave", x, 0>>
    BY <2>3
  <2> QED BY <2>4, <2>5, <2>6, <2>7
<1>5. \A i \in 1..Len(g.nodes) : <<"try", g.nodes[i], i>> \in Moves(g)
  BY <1>0
<1>6. \A x \in V : \A i \in 1..Len(g.next[x]) : <<"look", x, i>> \in Moves(g)
  BY <1>0
<1>7. \A x \in V : <<"leave", x, 0>> \in Moves(g)
  BY <1>0
<1>8. \A m \in Moves(g) : \/ m[1] = "try" /\ m[3] \in Nat
                          \/ m[1] = "look" /\ m[2] \in V /\ m[3] \in Nat
                          \/ m[1] = "leave" /\ m[2] \in V
  <2> SUFFICES ASSUME NEW m \in Moves(g) 
               PROVE  \/ m[1] = "try" /\ m[3] \in Nat
                      \/ m[1] = "look" /\ m[2] \in V /\ m[3] \in Nat
                      \/ m[1] = "leave" /\ m[2] \in V
    OBVIOUS
  <2>1. CASE \E i \in 1..Len(g.nodes) : m = <<"try", g.nodes[i], i>>
    BY <2>1
  <2>2. CASE \E x \in V : \E i \in 1..Len(g.next[x]) : m = <<"look", x, i>>
    BY <2>2
  <2>3. CASE \E x \in V : m = <<"leave", x, 0>>
    BY <2>3
  <2> QED BY <1>0, <2>1, <2>2, <2>3
<1>9. /\ t.tried \in Nat /\ s.tried <= t.tried
      /\ \A x \in V : t.at[x] \in Nat /\ s.at[x] <= t.at[x]
      /\ \A x \in V : s.color[x] = "black" => t.color[x] = "black"
  <2>1. CASE Skips(g, s, t)
    BY <1>3, <2>1 DEF Skips
  <2>2. CASE Begins(g, s, t)
    BY <1>3, <2>2 DEF Begins, Entered
  <2>3. CASE Leaves(g, s, t)
    BY <1>3, <2>3 DEF Leaves
  <2>4. CASE Ignores(g, s, t)
    BY <1>3, <2>4 DEF Ignores, Looks
  <2>5. CASE Descends(g, s, t)
    BY <1>3, <2>5 DEF Descends, Looks, Entered
  <2>6. CASE Finds(g, s, t)
    BY <1>3, <2>6 DEF Finds, Looks
  <2> QED BY <1>4, <2>1, <2>2, <2>3, <2>4, <2>5, <2>6
<1>10. Done(g, s) \subseteq Done(g, t)
  <2> SUFFICES ASSUME NEW m \in Done(g, s) PROVE m \in Done(g, t)
    OBVIOUS
  <2>1. m \in Moves(g) /\ (\/ m[1] = "try" /\ m[3] <= s.tried
                           \/ m[1] = "look" /\ m[3] <= s.at[m[2]]
                           \/ m[1] = "leave" /\ s.color[m[2]] = "black")
    BY DEF Done
  <2>2. \/ m[1] = "try" /\ m[3] <= t.tried
        \/ m[1] = "look" /\ m[3] <= t.at[m[2]]
        \/ m[1] = "leave" /\ t.color[m[2]] = "black"
    <3>1. CASE m[1] = "try"
      BY <1>3, <1>8, <1>9, <2>1, <3>1
    <3>2. CASE m[1] = "look"
      <4>1. m[2] \in V /\ m[3] \in Nat /\ m[3] <= s.at[m[2]]
        BY <1>8, <2>1, <3>2
      <4>2. s.at[m[2]] \in Nat /\ t.at[m[2]] \in Nat /\ s.at[m[2]] <= t.at[m[2]]
        BY <1>3, <1>9, <4>1
      <4> QED BY <3>2, <4>1, <4>2
    <3>3. CASE m[1] = "leave"
      BY <1>8, <1>9, <2>1, <3>3
    <3> QED BY <2>1, <3>1, <3>2, <3>3
  <2> QED BY <2>1, <2>2 DEF Done
<1>11. \E m \in Moves(g) : m \notin Done(g, s) /\ m \in Done(g, t)
  <2>1. CASE Skips(g, s, t) \/ Begins(g, s, t)
    <3>1. PICK i : i = s.tried + 1
      OBVIOUS
    <3>2. PICK m : m = <<"try", g.nodes[i], i>>
      OBVIOUS
    <3>3. s.tried < Len(g.nodes) /\ t.tried = i /\ Len(g.nodes) \in Nat
      BY <2>1, <3>1 DEF Skips, Begins, IsGraph
    <3>4. m \in Moves(g) /\ m[1] = "try" /\ m[3] = i /\ i \in Nat /\ ~(i <= s.tried)
      BY <1>3, <1>5, <3>1, <3>2, <3>3
    <3>5. m \notin Done(g, s) /\ m \in Done(g, t)
      BY <3>3, <3>4 DEF Done
    <3> QED BY <3>4, <3>5
  <2>2. CASE Leaves(g, s, t)
    <3>1. PICK top : top = Last(s.stack)
      OBVIOUS
    <3>2. PICK m : m = <<"leave", top, 0>>
      OBVIOUS
    <3>3. s.stack # <<>> /\ t.color = [s.color EXCEPT ![top] = "black"]
      BY <2>2, <3>1 DEF Leaves
    <3>4. top \in V /\ \E i \in 1..Len(s.stack) : s.stack[i] = top
      <4>1. Len(s.stack) \in Nat /\ Len(s.stack) >= 1 /\ top = s.stack[Len(s.stack)] /\ top \in V
        BY <1>3, <3>1, <3>3, LastFront
      <4>2. Len(s.stack) \in 1..Len(s.stack)
        BY <4>1
      <4> QED BY <4>1, <4>2
    <3>5. s.color[top] = "gray" /\ t.color[top] = "black"
      BY <1>2, <1>3, <3>3, <3>4 DEF GrayOnStack
    <3>6. m \in Moves(g) /\ m[1] = "leave" /\ m[2] = top
      BY <1>7, <3>2, <3>4
    <3>7. m \notin Done(g, s) /\ m \in Done(g, t)
      BY <3>5, <3>6 DEF Done
    <3> QED BY <3>6, <3>7
  <2>3. CASE Looks(g, s, t)
    <3>1. PICK top, n, nxt : Tops(g, s, t, top, n, nxt)
      BY <1>2, <1>4, <2>3, LooksIs
    <3>2. PICK i : i = s.at[top] + 1
      OBVIOUS
    <3>3. PICK m : m = <<"look", top, i>>
      OBVIOUS
    <3>4. top \in V /\ s.at[top] \in Nat /\ i \in 1..Len(g.next[top]) /\ t.at[top] = i /\ i \in Nat /\ ~(i <= s.at[top])
      BY <1>2, <3>1, <3>2 DEF Tops
    <3>5. m \in Moves(g) /\ m[1] = "look" /\ m[2] = top /\ m[3] = i
      BY <1>6, <3>3, <3>4
    <3>6. m \notin Done(g, s) /\ m \in Done(g, t)
      BY <3>4, <3>5 DEF Done
    <3> QED BY <3>5, <3>6
  <2> QED BY <1>4, <2>1, <2>2, <2>3 DEF Ignores, Descends, Finds
<1> QED BY <1>1, <1>10, <1>11

\* What a search says of a graph, with the cycle it returns: the truth, and where it misses none all of it.
Right(g, c) ==
    /\ c # <<>> => IsCycle(g, c) /\ Len(c) >= _MIN_CYCLE_DEPTH /\ HasCycle(g)
    /\ NoneMissed(g) /\ HasCycle(g) => c # <<>>
\* A search that is over knows: it found a cycle, or there is none that it does not miss.
LEMMA OverDecides ==
    ASSUME NEW g, IsGraph(g), NEW s, SearchInv(g, s), Over(g, s)
    PROVE  Right(g, s.found)
<1>1. PICK V : V = DOMAIN g.next
  OBVIOUS
<1>2. s.found \in Seq(V) /\ s.color \in [V -> {"white", "gray", "black"}] /\ IsFiniteSet(V) /\ Len(g.nodes) \in Nat
      /\ Cardinality(V) <= Len(g.nodes) /\ Cardinality(V) \in Nat
  <2>0. g.nodes \in Seq(V) /\ s \in Searches(V)
    BY <1>1 DEF SearchInv, SearchTypes, IsGraph
  <2>1. s.found \in Seq(V) /\ s.color \in [V -> {"white", "gray", "black"}] /\ Len(g.nodes) \in Nat
    BY <2>0 DEF Searches
  <2>2. IsFiniteSet(V) /\ Cardinality(V) <= Len(g.nodes)
    BY <1>1, NodesFinite
  <2>3. Cardinality(V) \in Nat
    BY <2>2, FS_CardinalityType
  <2> QED BY <2>1, <2>2, <2>3
<1>3. s.found # <<>> => IsCycle(g, s.found) /\ Len(s.found) >= _MIN_CYCLE_DEPTH
  BY DEF SearchInv, FoundIsCycle
<1>4. ASSUME s.found # <<>> PROVE HasCycle(g)
  <2>1. PICK c : c = s.found
    OBVIOUS
  <2>2. PICK n : n = Len(c)
    OBVIOUS
  <2>3. c \in Seq(V) /\ IsCycle(g, c) /\ n >= _MIN_CYCLE_DEPTH
    BY <1>2, <1>4, <2>1, <2>2 DEF SearchInv, FoundIsCycle
  <2>4. n \in Nat /\ c \in [1..n -> V]
    BY <2>2, <2>3
  <2>5. c \in Injection(1..n, V)
    BY <2>2, <2>3, <2>4 DEF IsCycle, Injection, IsInjective
  <2>6. IsFiniteSet(1..n) /\ Cardinality(1..n) = IF 1 > n THEN 0 ELSE n - 1 + 1
    BY <2>4, FS_Interval
  <2>7. Cardinality(1..n) = n
    BY <2>4, <2>6
  <2>8. Cardinality(1..n) <= Cardinality(V)
    BY <1>2, <2>5, FS_Injection
  <2>9. n \in _MIN_CYCLE_DEPTH..Len(g.nodes)
    BY <1>2, <2>3, <2>4, <2>7, <2>8 DEF _MIN_CYCLE_DEPTH
  <2> QED BY <1>1, <2>3, <2>4, <2>9 DEF HasCycle
<1>5. ASSUME NoneMissed(g), s.found = <<>>, HasCycle(g) PROVE FALSE
  <2>0. PICK n \in _MIN_CYCLE_DEPTH..Len(g.nodes) : \E c \in [1..n -> V] : IsCycle(g, c)
    BY <1>1, <1>5 DEF HasCycle
  <2>1. PICK c \in [1..n -> V] : IsCycle(g, c)
    BY <2>0
  <2>2. n \in Nat /\ n >= 3
    BY <1>2, <2>1 DEF _MIN_CYCLE_DEPTH
  <2>3. c \in Seq(V) /\ Len(c) = n /\ 1 \in 1..n /\ c[1] \in V
    BY <2>1, <2>2
  <2>4. s.color[c[1]] # "black"
    BY <1>1, <1>5, <2>1, <2>2, <2>3 DEF SearchInv, NoBlackOnCycle, _MIN_CYCLE_DEPTH
  <2>5. s.stack = <<>> /\ s.tried = Len(g.nodes)
    BY <1>5 DEF Over
  <2>6. s.color[c[1]] # "gray"
    BY <1>1, <2>3, <2>5 DEF SearchInv, GrayOnStack
  <2>7. PICK i \in 1..Len(g.nodes) : g.nodes[i] = c[1]
    BY <1>1, <2>3 DEF IsGraph
  <2>8. s.color[c[1]] # "white"
    BY <2>5, <2>7 DEF SearchInv, TriedNotWhite
  <2> QED BY <1>2, <2>3, <2>4, <2>6, <2>8
<1> QED BY <1>3, <1>4, <1>5 DEF Right

\* What _find_cycle returns is right of every graph.
LEMMA FindCycleRight ==
    ASSUME NEW g, IsGraph(g)
    PROVE  Right(g, _find_cycle(g))
<1>1. PICK M : M = Moves(g)
  OBVIOUS
<1>2. PICK N : N = Cardinality(M)
  OBVIOUS
<1>3. IsFiniteSet(M) /\ N \in Nat
  BY <1>1, <1>2, MovesFinite, FS_CardinalityType
<1>4. PICK S : S = {s \in Searches(DOMAIN g.next) : SearchInv(g, s)}
  OBVIOUS
<1>5. \A s : s \in S <=> SearchInv(g, s)
  BY <1>4 DEF SearchInv, SearchTypes
<1>6. PICK f : f = [p \in Nat \X S |-> Step(g, p[2])]
  OBVIOUS
<1>7. \A n \in Nat : \A s \in S : f[<<n, s>>] = Step(g, s) /\ Step(g, s) \in S
  BY <1>5, <1>6, StepKeeps
<1>8. Unsearched(g) \in S
  BY <1>5, UnsearchedInv
<1>9. \E h : h = [n \in 0..N |-> IF n = 0 THEN Unsearched(g) ELSE Step(g, h[n - 1])]
  <2>1. ASSUME NEW i \in 1..N, NEW y \in S PROVE f[<<i, y>>] \in S
    <3>1. i \in Nat
      BY <1>3
    <3> QED BY <1>7, <3>1
  <2>2. PICK h : Loop(h, N, S, Unsearched(g), f)
    BY <1>3, <1>8, <2>1, LoopExists
  <2>3. h \in [0..N -> S] /\ h[0] = Unsearched(g) /\ \A i \in 1..N : h[i] = f[<<i, h[i - 1]>>]
    BY <2>2 DEF Loop
  <2>4. ASSUME NEW n \in 0..N PROVE h[n] = IF n = 0 THEN Unsearched(g) ELSE Step(g, h[n - 1])
    <3>1. CASE n # 0
      <4>1. n \in 1..N /\ n - 1 \in 0..N /\ n \in Nat
        BY <1>3, <3>1
      <4>2. h[n - 1] \in S /\ h[n] = f[<<n, h[n - 1]>>]
        BY <2>3, <4>1
      <4> QED BY <1>7, <3>1, <4>1, <4>2
    <3> QED BY <2>3, <3>1
  <2>5. h = [n \in 0..N |-> IF n = 0 THEN Unsearched(g) ELSE Step(g, h[n - 1])]
    BY <2>3, <2>4
  <2> QED BY <2>5
<1>10. PICK h : h = CHOOSE search : search = [n \in 0..N |-> IF n = 0 THEN Unsearched(g) ELSE Step(g, search[n - 1])]
  OBVIOUS
<1>11. h = [n \in 0..N |-> IF n = 0 THEN Unsearched(g) ELSE Step(g, h[n - 1])]
  BY <1>9, <1>10
<1>12. _find_cycle(g) = h[N].found
  BY <1>1, <1>2, <1>10 DEF _find_cycle
<1>13. h[0] = Unsearched(g) /\ \A n \in 0..N - 1 : h[n + 1] = Step(g, h[n])
  <2>1. 0 \in 0..N
    BY <1>3
  <2>2. ASSUME NEW n \in 0..N - 1 PROVE h[n + 1] = Step(g, h[n])
    <3>1. n + 1 \in 0..N /\ n + 1 # 0 /\ (n + 1) - 1 = n
      BY <1>3
    <3> QED BY <1>11, <3>1
  <2> QED BY <1>11, <2>1, <2>2
<1>14. PICK T : T = {n \in Nat : n <= N => /\ SearchInv(g, h[n])
                                           /\ Over(g, h[n]) \/ Cardinality(Done(g, h[n])) >= n}
  OBVIOUS
<1>15. \A s : IsFiniteSet(Done(g, s)) /\ Cardinality(Done(g, s)) \in Nat /\ Done(g, s) \subseteq M
  <2> SUFFICES ASSUME NEW s PROVE IsFiniteSet(Done(g, s)) /\ Cardinality(Done(g, s)) \in Nat /\ Done(g, s) \subseteq M
    OBVIOUS
  <2>1. Done(g, s) \in SUBSET M
    BY <1>1 DEF Done
  <2>2. IsFiniteSet(Done(g, s))
    BY <1>3, <2>1, FS_Subset
  <2> QED BY <2>1, <2>2, FS_CardinalityType
<1>16. 0 \in T
  BY <1>13, <1>14, <1>15, UnsearchedInv
<1>17. ASSUME NEW n \in Nat, n \in T PROVE n + 1 \in T
  <2> SUFFICES ASSUME n + 1 <= N
               PROVE  /\ SearchInv(g, h[n + 1])
                      /\ Over(g, h[n + 1]) \/ Cardinality(Done(g, h[n + 1])) >= n + 1
    BY <1>14
  <2>1. n \in 0..N - 1 /\ n <= N
    BY <1>3
  <2>2. h[n + 1] = Step(g, h[n]) /\ SearchInv(g, h[n]) /\ (Over(g, h[n]) \/ Cardinality(Done(g, h[n])) >= n)
    BY <1>13, <1>14, <1>17, <2>1
  <2>3. SearchInv(g, h[n + 1])
    BY <2>2, StepKeeps
  <2>4. CASE Over(g, h[n])
    BY <2>2, <2>3, <2>4 DEF Step
  <2>5. CASE ~Over(g, h[n])
    <3>1. PICK m : m \notin Done(g, h[n]) /\ m \in Done(g, h[n + 1])
      BY <2>2, <2>5, StepAdvances
    <3>2. Done(g, h[n]) \subseteq Done(g, h[n + 1])
      BY <2>2, <2>5, StepAdvances
    <3>3. PICK A : A = Done(g, h[n])
      OBVIOUS
    <3>4. PICK B : B = Done(g, h[n + 1])
      OBVIOUS
    <3>5. IsFiniteSet(A) /\ Cardinality(A) \in Nat /\ IsFiniteSet(B) /\ Cardinality(B) \in Nat /\ Cardinality(A) >= n
      BY <1>15, <2>2, <2>5, <3>3, <3>4
    <3>6. Cardinality(A \cup {m}) = Cardinality(A) + 1
      BY <3>1, <3>3, <3>5, FS_AddElement
    <3>7. A \cup {m} \in SUBSET B
      BY <3>1, <3>2, <3>3, <3>4
    <3>8. Cardinality(A \cup {m}) <= Cardinality(B)
      BY <3>5, <3>7, FS_Subset
    <3>9. Cardinality(B) >= n + 1
      BY <3>5, <3>6, <3>8
    <3> QED BY <2>3, <3>4, <3>9
  <2> QED BY <2>4, <2>5
<1>18. N \in T
  BY <1>3, <1>16, <1>17, EveryNumber
<1>19. SearchInv(g, h[N]) /\ (Over(g, h[N]) \/ Cardinality(Done(g, h[N])) >= N)
  BY <1>3, <1>14, <1>18
<1>20. Over(g, h[N])
  <2> SUFFICES ASSUME ~Over(g, h[N]) PROVE FALSE
    OBVIOUS
  <2>1. PICK D : D = Done(g, h[N])
    OBVIOUS
  <2>2. D \in SUBSET M /\ IsFiniteSet(D) /\ Cardinality(D) \in Nat /\ Cardinality(D) >= N
    BY <1>15, <1>19, <2>1
  <2>3. Cardinality(D) <= Cardinality(M)
    BY <1>3, <2>2, FS_Subset
  <2>4. Cardinality(M) = Cardinality(D)
    BY <1>2, <1>3, <2>2, <2>3
  <2>5. M = D
    BY <1>3, <2>2, <2>4, FS_Subset
  <2>6. \E m \in Moves(g) : m \notin Done(g, h[N])
    BY <1>19, StepAdvances
  <2> QED BY <1>1, <2>1, <2>5, <2>6
<1> QED BY <1>12, <1>19, <1>20, OverDecides

-----------------------------------------------------------------------------
(* The span graph of a run. *)

\* adjacency.setdefault adds a node without children, or nothing.
WithNodeDoes(g, w, x) ==
    /\ IsGraph(w) /\ DOMAIN w.next = DOMAIN g.next \cup {x}
    /\ Len(g.nodes) \in Nat /\ Len(w.nodes) \in Nat /\ Len(g.nodes) <= Len(w.nodes)
    /\ \A y \in DOMAIN g.next : w.next[y] = g.next[y]
    /\ x \notin DOMAIN g.next => w.next[x] = <<>>
\* What WithNode does to the list of spans and to their children.
LEMMA WithNodeIs ==
    ASSUME NEW g, IsGraph(g), NEW x
    PROVE  WithNodeDoes(g, WithNode(g, x), x)
<1>1. PICK V : V = DOMAIN g.next
  OBVIOUS
<1>2. g.nodes \in Seq(V) /\ g.next \in [V -> Seq(V)] /\ \A y \in V : \E i \in 1..Len(g.nodes) : g.nodes[i] = y
  BY <1>1 DEF IsGraph
<1>3. PICK w : w = WithNode(g, x)
  OBVIOUS
<1>4. CASE x \in V
  <2>1. w = g
    BY <1>1, <1>3, <1>4 DEF WithNode
  <2>2. V \cup {x} = V /\ Len(g.nodes) \in Nat
    <3>1. V \cup {x} = V
      BY <1>4
    <3>2. Len(g.nodes) \in Nat
      BY <1>2
    <3> QED BY <3>1, <3>2
  <2>3. DOMAIN w.next = DOMAIN g.next \cup {x}
    BY <1>1, <2>1, <2>2
  <2> QED BY <1>1, <1>3, <1>4, <2>1, <2>2, <2>3 DEF WithNodeDoes
<1>5. CASE x \notin V
  <2>1. PICK k : k = Append(g.nodes, x)
    OBVIOUS
  <2>2. PICK W : W = V \cup {x}
    OBVIOUS
  <2>3. PICK next : next = [n \in W |-> IF n = x THEN <<>> ELSE g.next[n]]
    OBVIOUS
  <2>4. w = [nodes |-> k, next |-> next]
    BY <1>1, <1>3, <1>5, <2>1, <2>2, <2>3 DEF WithNode
  <2>5. w.nodes = k /\ w.next = next /\ DOMAIN next = W
    BY <2>3, <2>4
  <2>6. V \subseteq W /\ x \in W
    BY <2>2
  <2>7. g.nodes \in Seq(W) /\ Len(g.nodes) \in Nat
    BY <1>2, <2>6
  <2>8. PICK q : q = g.nodes
    OBVIOUS
  <2>9. k \in Seq(W) /\ Len(k) = Len(q) + 1 /\ (\A i \in 1..Len(q) : k[i] = q[i]) /\ k[Len(q) + 1] = x
    BY <2>1, <2>6, <2>7, <2>8, AppendIs
  <2>10. \A y \in V : next[y] = g.next[y] /\ next[y] \in Seq(W)
    <3> SUFFICES ASSUME NEW y \in V PROVE next[y] = g.next[y] /\ next[y] \in Seq(W)
      OBVIOUS
    <3>1. y # x /\ y \in W
      BY <1>5, <2>6
    <3>2. g.next[y] \in Seq(V)
      BY <1>2
    <3>3. g.next[y] \in Seq(W)
      BY <2>6, <3>2
    <3> QED BY <2>3, <3>1, <3>3
  <2>11. next[x] = <<>>
    BY <2>3, <2>6
  <2>12. next \in [W -> Seq(W)]
    <3>1. <<>> \in Seq(W)
      OBVIOUS
    <3>2. \A y \in W : next[y] \in Seq(W)
      BY <2>2, <2>10, <2>11, <3>1
    <3> QED BY <2>3, <3>2
  <2>13. ASSUME NEW y \in W PROVE \E i \in 1..Len(k) : k[i] = y
    <3>0. Len(q) \in Nat
      BY <2>7, <2>8
    <3>1. CASE y = x
      <4>1. Len(q) + 1 \in 1..Len(k)
        BY <2>9, <3>0
      <4> QED BY <2>9, <3>1, <4>1
    <3>2. CASE y \in V
      <4>1. PICK i \in 1..Len(q) : q[i] = y
        BY <1>2, <2>8, <3>2
      <4>2. i \in 1..Len(k)
        BY <2>9, <3>0
      <4> QED BY <2>9, <4>1, <4>2
    <3> QED BY <2>2, <3>1, <3>2
  <2>14. IsGraph(w)
    BY <2>5, <2>9, <2>12, <2>13 DEF IsGraph
  <2>15. Len(w.nodes) \in Nat /\ Len(g.nodes) <= Len(w.nodes)
    BY <2>5, <2>7, <2>8, <2>9
  <2> QED BY <1>1, <1>3, <2>2, <2>5, <2>7, <2>10, <2>11, <2>14, <2>15 DEF WithNodeDoes
<1> QED BY <1>4, <1>5

\* A new edge.
LEMMA WithEdgeIs ==
    ASSUME NEW g, IsGraph(g), NEW p \in DOMAIN g.next, NEW x \in DOMAIN g.next
    PROVE  /\ IsGraph(WithEdge(g, p, x)) /\ DOMAIN WithEdge(g, p, x).next = DOMAIN g.next
           /\ WithEdge(g, p, x).nodes = g.nodes
           /\ \A y, z \in DOMAIN g.next : Child(WithEdge(g, p, x), y, z) <=> Child(g, y, z) \/ (y = p /\ z = x)
<1>1. PICK V : V = DOMAIN g.next
  OBVIOUS
<1>2. g.nodes \in Seq(V) /\ g.next \in [V -> Seq(V)] /\ \A y \in V : \E i \in 1..Len(g.nodes) : g.nodes[i] = y
  BY <1>1 DEF IsGraph
<1>3. PICK w : w = WithEdge(g, p, x)
  OBVIOUS
<1>4. PICK next : next = [g.next EXCEPT ![p] = Append(@, x)]
  OBVIOUS
<1>5. w.nodes = g.nodes /\ w.next = next
  BY <1>3, <1>4 DEF WithEdge
<1>6. PICK q : q = g.next[p]
  OBVIOUS
<1>7. q \in Seq(V) /\ p \in V /\ x \in V
  BY <1>1, <1>2, <1>6
<1>8. Append(q, x) \in Seq(V) /\ Len(q) \in Nat /\ Len(Append(q, x)) = Len(q) + 1
      /\ (\A i \in 1..Len(q) : Append(q, x)[i] = q[i]) /\ Append(q, x)[Len(q) + 1] = x
  BY <1>7, AppendIs
<1>9. next \in [V -> Seq(V)] /\ DOMAIN next = V /\ next[p] = Append(q, x) /\ \A y \in V : y # p => next[y] = g.next[y]
  BY <1>2, <1>4, <1>6, <1>7, <1>8
<1>10. IsGraph(w)
  BY <1>2, <1>5, <1>9 DEF IsGraph
<1>11. ASSUME NEW y \in V, NEW z \in V PROVE Child(w, y, z) <=> Child(g, y, z) \/ (y = p /\ z = x)
  <2>1. CASE y # p
    BY <1>5, <1>9, <2>1 DEF Child
  <2>2. CASE y = p
    <3>1. Child(w, y, z) <=> \E i \in 1..Len(Append(q, x)) : Append(q, x)[i] = z
      BY <1>5, <1>9, <2>2 DEF Child
    <3>2. Child(g, y, z) <=> \E i \in 1..Len(q) : q[i] = z
      BY <1>6, <2>2 DEF Child
    <3>3. \A i \in 1..Len(Append(q, x)) : i \in 1..Len(q) \/ i = Len(q) + 1
      BY <1>8
    <3>4. \A i \in 1..Len(q) : i \in 1..Len(Append(q, x))
      BY <1>8
    <3>5. Len(q) + 1 \in 1..Len(Append(q, x))
      BY <1>8
    <3> QED BY <1>8, <2>2, <3>1, <3>2, <3>3, <3>4, <3>5
  <2> QED BY <2>1, <2>2
<1> QED BY <1>1, <1>3, <1>5, <1>9, <1>10, <1>11

\* What one event adds to the graph.
Edge(ev, x, y) == ev.kind = "tool_call.start" /\ ev.parent # 0 /\ ev.parent = x /\ ev.span = y
Grows(g, w, ev) ==
    /\ IsGraph(w) /\ DOMAIN g.next \subseteq DOMAIN w.next
    /\ DOMAIN w.next \subseteq DOMAIN g.next \cup {ev.span, ev.parent}
    /\ Len(g.nodes) \in Nat /\ Len(w.nodes) \in Nat /\ Len(g.nodes) <= Len(w.nodes)
    /\ \A x, y : x \in DOMAIN w.next /\ y \in DOMAIN w.next =>
          (Child(w, x, y) <=> (x \in DOMAIN g.next /\ Child(g, x, y)) \/ Edge(ev, x, y))
    /\ \A x, y : Edge(ev, x, y) => x \in DOMAIN w.next /\ y \in DOMAIN w.next
\* Setting a span's default changes no edge.
LEMMA WithNodeGrows ==
    ASSUME NEW g, IsGraph(g), NEW x, NEW w, WithNodeDoes(g, w, x), NEW y \in DOMAIN w.next, NEW z
    PROVE  Child(w, y, z) <=> y \in DOMAIN g.next /\ Child(g, y, z)
<1>1. CASE y \in DOMAIN g.next
  BY <1>1 DEF WithNodeDoes, Child
<1>2. CASE y \notin DOMAIN g.next
  <2>1. y = x /\ w.next[y] = <<>>
    BY <1>2 DEF WithNodeDoes
  <2> QED BY <1>2, <2>1 DEF Child
<1> QED BY <1>1, <1>2
\* A call adds its own edge and no other.
LEMMA WithCallGrows ==
    ASSUME NEW g, IsGraph(g), NEW ev
    PROVE  Grows(g, WithCall(g, ev), ev)
<1>1. PICK w : w = WithCall(g, ev)
  OBVIOUS
<1>2. Len(g.nodes) \in Nat
  BY DEF IsGraph
<1>3. CASE ev.kind # "tool_call.start"
  <2>1. w = g
    BY <1>1, <1>3 DEF WithCall
  <2>2. \A x, y : ~Edge(ev, x, y)
    BY <1>3 DEF Edge
  <2> QED BY <1>1, <1>2, <2>1, <2>2 DEF Grows
<1>4. CASE ev.kind = "tool_call.start" /\ ev.parent = 0
  <2>1. w = WithNode(g, ev.span)
    BY <1>1, <1>4 DEF WithCall
  <2>2. WithNodeDoes(g, w, ev.span)
    BY <2>1, WithNodeIs
  <2>3. \A x, y : ~Edge(ev, x, y)
    BY <1>4 DEF Edge
  <2>4. IsGraph(w) /\ DOMAIN w.next = DOMAIN g.next \cup {ev.span} /\ Len(w.nodes) \in Nat /\ Len(g.nodes) <= Len(w.nodes)
    BY <2>2 DEF WithNodeDoes
  <2>5. \A x, y : x \in DOMAIN w.next => (Child(w, x, y) <=> x \in DOMAIN g.next /\ Child(g, x, y))
    BY <2>2, WithNodeGrows
  <2> QED BY <1>1, <1>2, <2>3, <2>4, <2>5 DEF Grows
<1>5. CASE ev.kind = "tool_call.start" /\ ev.parent # 0
  <2>1. PICK u : u = WithNode(g, ev.span)
    OBVIOUS
  <2>2. PICK v : v = WithNode(u, ev.parent)
    OBVIOUS
  <2>3. w = WithEdge(v, ev.parent, ev.span)
    BY <1>1, <1>5, <2>1, <2>2 DEF WithCall
  <2>4. WithNodeDoes(g, u, ev.span)
    BY <2>1, WithNodeIs
  <2>5. IsGraph(u) /\ DOMAIN u.next = DOMAIN g.next \cup {ev.span} /\ Len(u.nodes) \in Nat /\ Len(g.nodes) <= Len(u.nodes)
    BY <2>4 DEF WithNodeDoes
  <2>6. WithNodeDoes(u, v, ev.parent)
    BY <2>2, <2>5, WithNodeIs
  <2>7. IsGraph(v) /\ DOMAIN v.next = DOMAIN u.next \cup {ev.parent} /\ Len(v.nodes) \in Nat /\ Len(u.nodes) <= Len(v.nodes)
    BY <2>6 DEF WithNodeDoes
  <2>8. ev.parent \in DOMAIN v.next /\ ev.span \in DOMAIN v.next
    BY <2>5, <2>7
  <2>9. /\ IsGraph(w) /\ DOMAIN w.next = DOMAIN v.next /\ w.nodes = v.nodes
        /\ \A y, z \in DOMAIN v.next : Child(w, y, z) <=> Child(v, y, z) \/ (y = ev.parent /\ z = ev.span)
    <3>1. PICK p : p = ev.parent
      OBVIOUS
    <3>2. PICK s : s = ev.span
      OBVIOUS
    <3>3. p \in DOMAIN v.next /\ s \in DOMAIN v.next /\ w = WithEdge(v, p, s)
      BY <2>3, <2>8, <3>1, <3>2
    <3>4. /\ IsGraph(WithEdge(v, p, s)) /\ DOMAIN WithEdge(v, p, s).next = DOMAIN v.next
          /\ WithEdge(v, p, s).nodes = v.nodes
          /\ \A y, z \in DOMAIN v.next : Child(WithEdge(v, p, s), y, z) <=> Child(v, y, z) \/ (y = p /\ z = s)
      BY <2>7, <3>3, WithEdgeIs
    <3> QED BY <3>1, <3>2, <3>3, <3>4
  <2>10. \A x, y : x \in DOMAIN u.next => (Child(u, x, y) <=> x \in DOMAIN g.next /\ Child(g, x, y))
    BY <2>4, WithNodeGrows
  <2>11. \A x, y : x \in DOMAIN v.next => (Child(v, x, y) <=> x \in DOMAIN u.next /\ Child(u, x, y))
    BY <2>5, <2>6, WithNodeGrows
  <2>12. \A x, y : Edge(ev, x, y) <=> x = ev.parent /\ y = ev.span
    BY <1>5 DEF Edge
  <2>13. DOMAIN g.next \subseteq DOMAIN u.next
    BY <2>5
  <2>14. \A x, y : x \in DOMAIN w.next /\ y \in DOMAIN w.next =>
          (Child(w, x, y) <=> (x \in DOMAIN g.next /\ Child(g, x, y)) \/ Edge(ev, x, y))
    BY <2>9, <2>10, <2>11, <2>12, <2>13
  <2>15. Len(w.nodes) \in Nat /\ Len(g.nodes) <= Len(w.nodes)
    BY <1>2, <2>5, <2>7, <2>9
  <2>16. DOMAIN g.next \subseteq DOMAIN w.next /\ DOMAIN w.next \subseteq DOMAIN g.next \cup {ev.span, ev.parent}
    BY <2>5, <2>7, <2>9
  <2>17. \A x, y : Edge(ev, x, y) => x \in DOMAIN w.next /\ y \in DOMAIN w.next
    BY <2>8, <2>9, <2>12
  <2> QED BY <1>1, <1>2, <2>9, <2>14, <2>15, <2>16, <2>17 DEF Grows
<1> QED BY <1>3, <1>4, <1>5

\* The graphs over a set of spans.
GraphsOver(U) == {g \in [nodes : Seq(U), next : UNION {[D -> Seq(D)] : D \in SUBSET U}] : IsGraph(g)}
\* A graph whose spans are in U is one over U.
LEMMA GraphOver ==
    ASSUME NEW U, NEW k, NEW next, IsGraph([nodes |-> k, next |-> next]), DOMAIN next \subseteq U
    PROVE  [nodes |-> k, next |-> next] \in GraphsOver(U)
<1>1. PICK g : g = [nodes |-> k, next |-> next]
  OBVIOUS
<1>2. PICK V : V = DOMAIN next
  OBVIOUS
<1>3. g.nodes = k /\ g.next = next /\ IsGraph(g)
  BY <1>1
<1>4. k \in Seq(V) /\ next \in [V -> Seq(V)] /\ V \subseteq U
  BY <1>2, <1>3 DEF IsGraph
<1>5. k \in Seq(U)
  BY <1>4
<1>6. next \in UNION {[D -> Seq(D)] : D \in SUBSET U}
  BY <1>4
<1>7. g \in [nodes : Seq(U), next : UNION {[D -> Seq(D)] : D \in SUBSET U}]
  BY <1>1, <1>5, <1>6
<1> QED BY <1>1, <1>3, <1>7 DEF GraphsOver

\* A graph over U, part by part.
LEMMA GraphShape ==
    ASSUME NEW U, NEW g \in GraphsOver(U)
    PROVE  g = [nodes |-> g.nodes, next |-> g.next] /\ IsGraph(g) /\ DOMAIN g.next \subseteq U
<1>1. g \in [nodes : Seq(U), next : UNION {[D -> Seq(D)] : D \in SUBSET U}] /\ IsGraph(g)
  BY DEF GraphsOver
<1>2. g = [nodes |-> g.nodes, next |-> g.next] /\ g.next \in UNION {[D -> Seq(D)] : D \in SUBSET U}
  BY <1>1
<1> QED BY <1>1, <1>2

\* A call whose ids are in U leaves a graph over U.
LEMMA WithCallOver ==
    ASSUME NEW U, NEW g \in GraphsOver(U), NEW ev, ev.span \in U, ev.parent \in U
    PROVE  WithCall(g, ev) \in GraphsOver(U)
<1>1. PICK w : w = WithCall(g, ev)
  OBVIOUS
<1>2. g = [nodes |-> g.nodes, next |-> g.next] /\ IsGraph(g) /\ DOMAIN g.next \subseteq U
  BY GraphShape
<1>3. \A x : WithNode(g, x) = g \/ \E k, next : WithNode(g, x) = [nodes |-> k, next |-> next]
  BY DEF WithNode
<1>4. w = g \/ \E k, next : w = [nodes |-> k, next |-> next]
  BY <1>1, <1>3 DEF WithCall, WithEdge
<1>5. PICK k, next : w = [nodes |-> k, next |-> next]
  BY <1>2, <1>4
<1>6. Grows(g, w, ev)
  BY <1>1, <1>2, WithCallGrows
<1>7. w.next = next
  BY <1>5
<1>8. IsGraph(w) /\ DOMAIN next \subseteq U
  BY <1>2, <1>6, <1>7 DEF Grows
<1> QED BY <1>1, <1>5, <1>8, GraphOver

\* The graph after each event of the run.
GraphAfter(events, h) ==
    h = [i \in 0..Len(events) |-> IF i = 0 THEN NoGraph ELSE WithCall(h[i - 1], events[i])]
GraphsAt(events, h) ==
    /\ h[0] = NoGraph
    /\ \A i \in 0..Len(events) - 1 : h[i + 1] = WithCall(h[i], events[i + 1])
    /\ Adjacency(events) = h[Len(events)]
\* The empty graph is one, over any ids.
LEMMA NoGraphIs ==
    /\ IsGraph(NoGraph) /\ DOMAIN NoGraph.next = {} /\ \A U : NoGraph \in GraphsOver(U)
<1>1. PICK next : next = [n \in {} |-> <<>>]
  OBVIOUS
<1>2. NoGraph = [nodes |-> <<>>, next |-> next] /\ DOMAIN next = {}
  BY <1>1 DEF NoGraph
<1>3. NoGraph.nodes = <<>> /\ NoGraph.next = next
  BY <1>2
<1>4. IsGraph(NoGraph)
  <2>1. <<>> \in Seq({})
    OBVIOUS
  <2>2. next \in [{} -> Seq({})]
    BY <1>1
  <2> QED BY <1>2, <1>3, <2>1, <2>2 DEF IsGraph
<1>5. \A U : NoGraph \in GraphsOver(U)
  <2> SUFFICES ASSUME NEW U PROVE NoGraph \in GraphsOver(U)
    OBVIOUS
  <2>1. IsGraph([nodes |-> <<>>, next |-> next]) /\ DOMAIN next \subseteq U
    BY <1>2, <1>4
  <2> QED BY <1>2, <2>1, GraphOver
<1> QED BY <1>2, <1>3, <1>4, <1>5

\* The graph of a run is built event by event.
LEMMA AdjacencyIs ==
    ASSUME NEW E, NEW events \in Seq(E)
    PROVE  \E h : GraphsAt(events, h)
<1>1. PICK N : N = Len(events)
  OBVIOUS
<1>2. N \in Nat
  BY <1>1
<1>3. PICK U : U = {events[i].span : i \in 1..N} \cup {events[i].parent : i \in 1..N}
  OBVIOUS
<1>4. PICK S : S = GraphsOver(U)
  OBVIOUS
<1>5. PICK f : f = [p \in (1..N) \X S |-> WithCall(p[2], events[p[1]])]
  OBVIOUS
<1>6. ASSUME NEW i \in 1..N, NEW g \in S PROVE f[<<i, g>>] = WithCall(g, events[i]) /\ f[<<i, g>>] \in S
  <2>1. events[i].span \in U /\ events[i].parent \in U
    BY <1>3
  <2>2. WithCall(g, events[i]) \in S
    BY <1>4, <2>1, WithCallOver
  <2>3. f[<<i, g>>] = WithCall(g, events[i])
    BY <1>5
  <2> QED BY <2>2, <2>3
<1>7. NoGraph \in S
  BY <1>4, NoGraphIs
<1>8. \E h : GraphAfter(events, h)
  <2>1. PICK h : Loop(h, N, S, NoGraph, f)
    BY <1>2, <1>6, <1>7, LoopExists
  <2>2. h \in [0..N -> S] /\ h[0] = NoGraph /\ \A i \in 1..N : h[i] = f[<<i, h[i - 1]>>]
    BY <2>1 DEF Loop
  <2>3. ASSUME NEW i \in 0..N PROVE h[i] = IF i = 0 THEN NoGraph ELSE WithCall(h[i - 1], events[i])
    <3>1. CASE i # 0
      <4>1. i \in 1..N /\ i - 1 \in 0..N
        BY <1>2, <3>1
      <4>2. h[i - 1] \in S /\ h[i] = f[<<i, h[i - 1]>>]
        BY <2>2, <4>1
      <4> QED BY <1>6, <3>1, <4>1, <4>2
    <3> QED BY <2>2, <3>1
  <2>4. h = [i \in 0..N |-> IF i = 0 THEN NoGraph ELSE WithCall(h[i - 1], events[i])]
    BY <2>2, <2>3
  <2> QED BY <1>1, <2>4 DEF GraphAfter
<1>9. PICK h : h = CHOOSE after : after = [i \in 0..Len(events) |-> IF i = 0 THEN NoGraph ELSE WithCall(after[i - 1], events[i])]
  OBVIOUS
<1>10. h = [i \in 0..Len(events) |-> IF i = 0 THEN NoGraph ELSE WithCall(h[i - 1], events[i])]
  BY <1>8, <1>9 DEF GraphAfter
<1>11. Adjacency(events) = h[Len(events)]
  BY <1>9 DEF Adjacency
<1>12. h[0] = NoGraph
  <2>1. 0 \in 0..Len(events)
    BY <1>1, <1>2
  <2> QED BY <1>10, <2>1
<1>13. ASSUME NEW i \in 0..Len(events) - 1 PROVE h[i + 1] = WithCall(h[i], events[i + 1])
  <2>1. i + 1 \in 0..Len(events) /\ i + 1 # 0 /\ (i + 1) - 1 = i
    BY <1>1, <1>2
  <2> QED BY <1>10, <2>1
<1> QED BY <1>11, <1>12, <1>13 DEF GraphsAt

\* The edges of the graph are the parent links of the calls.
EdgesAre(events, n, g) ==
    \A x, y : x \in DOMAIN g.next /\ y \in DOMAIN g.next =>
        (Child(g, x, y) <=> \E i \in 1..n : Edge(events[i], x, y))
EdgesIn(events, n, g) == \A i \in 1..n : \A x, y : Edge(events[i], x, y) => x \in DOMAIN g.next /\ y \in DOMAIN g.next
\* Adjacency is a graph, and its edges are exactly the parent links of the calls.
LEMMA AdjacencyGraph ==
    ASSUME NEW E, NEW events \in Seq(E)
    PROVE  IsGraph(Adjacency(events)) /\ EdgesAre(events, Len(events), Adjacency(events))
<1>1. PICK N : N = Len(events)
  OBVIOUS
<1>2. N \in Nat
  BY <1>1
<1>3. PICK h : GraphsAt(events, h)
  BY AdjacencyIs
<1>4. h[0] = NoGraph /\ (\A i \in 0..N - 1 : h[i + 1] = WithCall(h[i], events[i + 1])) /\ Adjacency(events) = h[N]
  BY <1>1, <1>3 DEF GraphsAt
<1>5. PICK T : T = {n \in Nat : n <= N => IsGraph(h[n]) /\ EdgesAre(events, n, h[n]) /\ EdgesIn(events, n, h[n])}
  OBVIOUS
<1>6. 0 \in T
  <2>1. IsGraph(h[0]) /\ DOMAIN h[0].next = {}
    BY <1>4, NoGraphIs
  <2>2. EdgesAre(events, 0, h[0]) /\ EdgesIn(events, 0, h[0])
    BY <2>1 DEF EdgesAre, EdgesIn
  <2> QED BY <1>5, <2>1, <2>2
<1>7. ASSUME NEW n \in Nat, n \in T PROVE n + 1 \in T
  <2> SUFFICES ASSUME n + 1 <= N
               PROVE  IsGraph(h[n + 1]) /\ EdgesAre(events, n + 1, h[n + 1]) /\ EdgesIn(events, n + 1, h[n + 1])
    BY <1>5
  <2>1. PICK g : g = h[n]
    OBVIOUS
  <2>2. PICK w : w = h[n + 1]
    OBVIOUS
  <2>3. n <= N /\ n \in 0..N - 1
    BY <1>2
  <2>4. IsGraph(g) /\ EdgesAre(events, n, g) /\ EdgesIn(events, n, g) /\ w = WithCall(g, events[n + 1])
    BY <1>4, <1>5, <1>7, <2>1, <2>2, <2>3
  <2>5. Grows(g, w, events[n + 1])
    BY <2>4, WithCallGrows
  <2>6. \A i \in 1..n + 1 : i \in 1..n \/ i = n + 1
    OBVIOUS
  <2>7. \A i \in 1..n : i \in 1..n + 1
    OBVIOUS
  <2>8. n + 1 \in 1..n + 1
    OBVIOUS
  <2>9. EdgesIn(events, n + 1, w)
    BY <2>4, <2>5, <2>6 DEF EdgesIn, Grows
  <2>10. EdgesAre(events, n + 1, w)
    <3> SUFFICES ASSUME NEW x \in DOMAIN w.next, NEW y \in DOMAIN w.next
                 PROVE  Child(w, x, y) <=> \E i \in 1..n + 1 : Edge(events[i], x, y)
      BY DEF EdgesAre
    <3>1. Child(w, x, y) <=> (x \in DOMAIN g.next /\ Child(g, x, y)) \/ Edge(events[n + 1], x, y)
      BY <2>5 DEF Grows
    <3>2. x \in DOMAIN g.next /\ Child(g, x, y) => y \in DOMAIN g.next
      BY <2>4 DEF Child, IsGraph
    <3>3. x \in DOMAIN g.next /\ y \in DOMAIN g.next => (Child(g, x, y) <=> \E i \in 1..n : Edge(events[i], x, y))
      BY <2>4 DEF EdgesAre
    <3>4. (\E i \in 1..n : Edge(events[i], x, y)) => x \in DOMAIN g.next /\ y \in DOMAIN g.next
      BY <2>4 DEF EdgesIn
    <3>5. (\E i \in 1..n + 1 : Edge(events[i], x, y)) <=> (\E i \in 1..n : Edge(events[i], x, y)) \/ Edge(events[n + 1], x, y)
      BY <2>6, <2>7, <2>8
    <3> QED BY <3>1, <3>2, <3>3, <3>4, <3>5
  <2> QED BY <2>2, <2>5, <2>9, <2>10 DEF Grows
<1>8. N \in T
  BY <1>2, <1>6, <1>7, EveryNumber
<1> QED BY <1>1, <1>2, <1>4, <1>5, <1>8

\* No span is recorded twice.
FreshSpans(events) ==
    \A i, j \in 1..Len(events) :
        /\ events[i].kind = "tool_call.start" /\ events[j].kind = "tool_call.start" /\ i # j
        => events[i].span # events[j].span
\* Where span ids are fresh every span has one parent, which makes the search exact.
LEMMA AdjacencyOneParent ==
    ASSUME NEW E, NEW events \in Seq(E), FreshSpans(events)
    PROVE  OneParent(Adjacency(events))
<1>1. PICK g : g = Adjacency(events)
  OBVIOUS
<1>2. EdgesAre(events, Len(events), g)
  BY <1>1, AdjacencyGraph
<1> SUFFICES ASSUME NEW x \in DOMAIN g.next, NEW y \in DOMAIN g.next, NEW z \in DOMAIN g.next, Child(g, x, z), Child(g, y, z)
             PROVE  x = y
  BY <1>1 DEF OneParent
<1>3. PICK i \in 1..Len(events) : Edge(events[i], x, z)
  BY <1>2 DEF EdgesAre
<1>4. PICK j \in 1..Len(events) : Edge(events[j], y, z)
  BY <1>2 DEF EdgesAre
<1>5. i = j
  BY <1>3, <1>4 DEF Edge, FreshSpans
<1> QED BY <1>3, <1>4, <1>5 DEF Edge

\* The graph of a run that is one event longer.
LEMMA AdjacencyAppend ==
    ASSUME NEW E, NEW events \in Seq(E), NEW e \in E
    PROVE  Adjacency(Append(events, e)) = WithCall(Adjacency(events), e)
<1>1. PICK more : more = Append(events, e)
  OBVIOUS
<1>2. PICK N : N = Len(events)
  OBVIOUS
<1>3. more \in Seq(E) /\ N \in Nat /\ Len(more) = N + 1 /\ (\A i \in 1..N : more[i] = events[i]) /\ more[N + 1] = e
  BY <1>1, <1>2, AppendIs
<1>4. PICK h : GraphsAt(events, h)
  BY AdjacencyIs
<1>5. PICK k : GraphsAt(more, k)
  BY <1>3, AdjacencyIs
<1>6. h[0] = NoGraph /\ (\A i \in 0..N - 1 : h[i + 1] = WithCall(h[i], events[i + 1])) /\ Adjacency(events) = h[N]
  BY <1>2, <1>4 DEF GraphsAt
<1>7. k[0] = NoGraph /\ (\A i \in 0..N : k[i + 1] = WithCall(k[i], more[i + 1])) /\ Adjacency(more) = k[N + 1]
  <2>1. (N + 1) - 1 = N
    BY <1>3
  <2> QED BY <1>3, <1>5, <2>1 DEF GraphsAt
<1>8. PICK T : T = {n \in Nat : n <= N => h[n] = k[n]}
  OBVIOUS
<1>9. 0 \in T
  BY <1>6, <1>7, <1>8
<1>10. ASSUME NEW n \in Nat, n \in T PROVE n + 1 \in T
  <2> SUFFICES ASSUME n + 1 <= N PROVE h[n + 1] = k[n + 1]
    BY <1>8
  <2>1. n <= N /\ n \in 0..N - 1 /\ n \in 0..N /\ n + 1 \in 1..N
    BY <1>3
  <2>2. h[n] = k[n] /\ more[n + 1] = events[n + 1]
    BY <1>3, <1>8, <1>10, <2>1
  <2> QED BY <1>6, <1>7, <2>1, <2>2
<1>11. N \in T
  BY <1>3, <1>9, <1>10, EveryNumber
<1>12. h[N] = k[N] /\ N \in 0..N
  BY <1>3, <1>8, <1>11
<1> QED BY <1>1, <1>3, <1>6, <1>7, <1>12

\* A cycle survives what is added to the graph.
LEMMA HasCycleGrows ==
    ASSUME NEW g, IsGraph(g), NEW w, NEW ev, Grows(g, w, ev), HasCycle(g)
    PROVE  HasCycle(w)
<1>1. PICK n \in _MIN_CYCLE_DEPTH..Len(g.nodes) : \E c \in [1..n -> DOMAIN g.next] : IsCycle(g, c)
  BY DEF HasCycle
<1>2. PICK c \in [1..n -> DOMAIN g.next] : IsCycle(g, c)
  BY <1>1
<1>3. Len(g.nodes) \in Nat /\ Len(w.nodes) \in Nat /\ Len(g.nodes) <= Len(w.nodes) /\ DOMAIN g.next \subseteq DOMAIN w.next
  BY DEF Grows
<1>4. n \in Nat /\ n >= 3 /\ n \in _MIN_CYCLE_DEPTH..Len(w.nodes)
  BY <1>1, <1>3 DEF _MIN_CYCLE_DEPTH
<1>5. c \in [1..n -> DOMAIN w.next] /\ Len(c) = n
  <2>1. c \in [1..n -> DOMAIN w.next]
    BY <1>2, <1>3
  <2>2. c \in Seq(DOMAIN g.next) /\ Len(c) = n
    BY <1>2, <1>4
  <2> QED BY <2>1, <2>2
<1>6. \A x, y \in DOMAIN g.next : Child(g, x, y) => Child(w, x, y)
  BY <1>3 DEF Grows
<1>7. IsCycle(w, c)
  <2>1. \A i \in 1..n : (IF i = n THEN 1 ELSE i + 1) \in 1..n
    BY <1>4
  <2>2. ASSUME NEW i \in 1..n PROVE Child(w, c[i], c[IF i = n THEN 1 ELSE i + 1])
    <3>1. PICK j : j = IF i = n THEN 1 ELSE i + 1
      OBVIOUS
    <3>2. Child(g, c[i], c[j])
      BY <1>2, <1>5, <3>1 DEF IsCycle
    <3>3. j \in 1..n
      BY <2>1, <3>1
    <3>4. c[i] \in DOMAIN g.next /\ c[j] \in DOMAIN g.next
      BY <1>2, <3>3
    <3> QED BY <1>6, <3>1, <3>2, <3>4
  <2>3. \A i, j \in 1..n : i # j => c[i] # c[j]
    BY <1>2, <1>5 DEF IsCycle
  <2> QED BY <1>5, <2>2, <2>3 DEF IsCycle
<1> QED BY <1>4, <1>5, <1>7 DEF HasCycle

\* What the search says of a run.
LEMMA RunCycleRight ==
    ASSUME NEW E, NEW events \in Seq(E)
    PROVE  Right(Adjacency(events), _find_cycle(Adjacency(events)))
BY AdjacencyGraph, FindCycleRight

\* It is exact of a run with fresh ids, what the SDK's uuid4 gives.
LEMMA RunCycleExact ==
    ASSUME NEW E, NEW events \in Seq(E), FreshSpans(events)
    PROVE  (_find_cycle(Adjacency(events)) # <<>>) <=> HasCycle(Adjacency(events))
<1>1. OneParent(Adjacency(events))
  BY AdjacencyOneParent
<1> QED BY <1>1, RunCycleRight DEF Right, NoneMissed

\* What _find_cycle found it finds again when the run is one event longer.
LEMMA CycleStays ==
    ASSUME NEW E, NEW events \in Seq(E), NEW e \in E, NoneMissed(Adjacency(Append(events, e))),
           _find_cycle(Adjacency(events)) # <<>>
    PROVE  _find_cycle(Adjacency(Append(events, e))) # <<>>
<1>1. IsGraph(Adjacency(events)) /\ HasCycle(Adjacency(events))
  BY AdjacencyGraph, RunCycleRight DEF Right
<1>2. Grows(Adjacency(events), Adjacency(Append(events, e)), e)
  BY <1>1, AdjacencyAppend, WithCallGrows
<1>3. HasCycle(Adjacency(Append(events, e)))
  BY <1>1, <1>2, HasCycleGrows
<1>4. Append(events, e) \in Seq(E)
  OBVIOUS
<1> QED BY <1>3, <1>4, RunCycleRight DEF Right
-----------------------------------------------------------------------------
(* The influence-chain walk. *)

\* What the store holds.
StoreOK ==
    /\ IsFiniteSet(DOMAIN entries)
    /\ \A e \in DOMAIN entries : /\ entries[e] \in [writer : Runs, tagged : BOOLEAN, quarantined : BOOLEAN]
                                 /\ entries[e].quarantined => entries[e].tagged
    /\ reads \in [Runs -> Seq(Entries)]

TaggedEntry(e) == e \in DOMAIN entries /\ entries[e].tagged
Walks == [frontier : Seq(Runs \X Nat), visited : SUBSET Runs, links : Seq(Entries \X Runs \X Runs \X Nat)]
Walk(f, v, l) == [frontier |-> f, visited |-> v, links |-> l]
DistinctLinks(w) == \A i, j \in 1..Len(w.links) : w.links[i][1] = w.links[j][1] => i = j

\* A walk is made of its three parts.
LEMMA WalkParts ==
    ASSUME NEW w \in Walks
    PROVE  /\ w = Walk(w.frontier, w.visited, w.links)
           /\ w.frontier \in Seq(Runs \X Nat) /\ w.visited \in SUBSET Runs /\ w.links \in Seq(Entries \X Runs \X Runs \X Nat)
BY DEF Walks, Walk

\* The parts of a walk that is put together.
LEMMA WalkIs ==
    ASSUME NEW f \in Seq(Runs \X Nat), NEW v \in SUBSET Runs, NEW l \in Seq(Entries \X Runs \X Runs \X Nat)
    PROVE  /\ Walk(f, v, l) \in Walks /\ Walk(f, v, l).frontier = f /\ Walk(f, v, l).visited = v /\ Walk(f, v, l).links = l
BY DEF Walks, Walk

\* The same of a walk with a name.
LEMMA WalkMade ==
    ASSUME NEW f, NEW v, NEW l, f \in Seq(Runs \X Nat), v \in SUBSET Runs, l \in Seq(Entries \X Runs \X Runs \X Nat), NEW w, w = Walk(f, v, l)
    PROVE  w \in Walks /\ w.frontier = f /\ w.visited = v /\ w.links = l
BY DEF Walks, Walk

\* The entries of a list of links.
LEMMA PoisonedIs ==
    ASSUME NEW l, NEW e
    PROVE  e \in Poisoned(l) <=> \E i \in 1..Len(l) : l[i][1] = e
BY DEF Poisoned

\* One entry: nothing, or a link and a place in the frontier.
Adds(w, v, e, reader, hop) ==
    /\ v.visited = w.visited
    /\ v.frontier = Append(w.frontier, <<entries[e].writer, hop + 1>>)
    /\ v.links = Append(w.links, <<e, entries[e].writer, reader, hop>>)
\* Inspecting one entry adds nothing, or one link and one run to visit.
LEMMA InspectDoes ==
    ASSUME StoreOK, NEW w \in Walks, NEW e \in Entries, NEW reader \in Runs, NEW hop \in Nat
    PROVE  /\ Inspect(w, e, reader, hop) \in Walks
           /\ ~TaggedEntry(e) \/ e \in Poisoned(w.links) => Inspect(w, e, reader, hop) = w
           /\ TaggedEntry(e) /\ e \notin Poisoned(w.links) => Adds(w, Inspect(w, e, reader, hop), e, reader, hop)
<1>1. CASE ~TaggedEntry(e) \/ e \in Poisoned(w.links)
  <2>1. Inspect(w, e, reader, hop) = w
    BY <1>1, PoisonedIs DEF Inspect, TaggedEntry
  <2> QED BY <1>1, <2>1
<1>2. CASE TaggedEntry(e) /\ e \notin Poisoned(w.links)
  <2>1. PICK p : p = <<entries[e].writer, hop + 1>>
    OBVIOUS
  <2>2. PICK q : q = <<e, entries[e].writer, reader, hop>>
    OBVIOUS
  <2>3. Inspect(w, e, reader, hop) = Walk(Append(w.frontier, p), w.visited, Append(w.links, q))
    BY <1>2, <2>1, <2>2, PoisonedIs DEF Inspect, TaggedEntry, Walk
  <2>4. entries[e].writer \in Runs
    BY <1>2 DEF TaggedEntry, StoreOK
  <2>5. p \in Runs \X Nat /\ q \in Entries \X Runs \X Runs \X Nat
    BY <2>1, <2>2, <2>4
  <2>6. Append(w.frontier, p) \in Seq(Runs \X Nat) /\ Append(w.links, q) \in Seq(Entries \X Runs \X Runs \X Nat)
        /\ w.visited \in SUBSET Runs
    BY <2>5, WalkParts, AppendIs
  <2>7. PICK v : v = Inspect(w, e, reader, hop)
    OBVIOUS
  <2>8. v = Walk(Append(w.frontier, p), w.visited, Append(w.links, q))
    BY <2>3, <2>7
  <2>9. v \in Walks /\ v.frontier = Append(w.frontier, p) /\ v.visited = w.visited /\ v.links = Append(w.links, q)
    BY <2>6, <2>8 DEF Walk, Walks
  <2>10. Adds(w, v, e, reader, hop)
    BY <2>1, <2>2, <2>9 DEF Adds
  <2> QED BY <1>2, <2>7, <2>9, <2>10
<1> QED BY <1>1, <1>2

\* The walk w0 after the entries of D were inspected.
Inspected(w0, w, D, hop) ==
    /\ w \in Walks /\ w.visited = w0.visited
    /\ Len(w0.frontier) <= Len(w.frontier) /\ Len(w.frontier) + Len(w0.links) = Len(w0.frontier) + Len(w.links)
    /\ \A i \in 1..Len(w0.frontier) : w.frontier[i] = w0.frontier[i]
    /\ \A i \in Len(w0.frontier) + 1..Len(w.frontier) :
          \E e \in D : TaggedEntry(e) /\ w.frontier[i] = <<entries[e].writer, hop + 1>>
    /\ \A e : e \in Poisoned(w.links) <=> e \in Poisoned(w0.links) \/ (e \in D /\ TaggedEntry(e))
    /\ \A e \in D : TaggedEntry(e) /\ e \notin Poisoned(w0.links) =>
          \E i \in Len(w0.frontier) + 1..Len(w.frontier) : w.frontier[i] = <<entries[e].writer, hop + 1>>
    /\ DistinctLinks(w)
\* One entry more is inspected.
LEMMA InspectStep ==
    ASSUME StoreOK, NEW w0 \in Walks, NEW w, NEW D, NEW reader \in Runs, NEW hop \in Nat, Inspected(w0, w, D, hop),
           NEW e \in Entries
    PROVE  Inspected(w0, Inspect(w, e, reader, hop), D \cup {e}, hop)
<1>1. PICK v : v = Inspect(w, e, reader, hop)
  OBVIOUS
<1>2. w \in Walks
  BY DEF Inspected
<1>3. CASE ~TaggedEntry(e) \/ e \in Poisoned(w.links)
  <2>1. v = w
    BY <1>1, <1>2, <1>3, InspectDoes
  <2>2. \A x : x \in Poisoned(w.links) <=> x \in Poisoned(w0.links) \/ (x \in D \cup {e} /\ TaggedEntry(x))
    BY <1>3 DEF Inspected
  <2>3. ASSUME NEW x \in D \cup {e}, TaggedEntry(x), x \notin Poisoned(w0.links)
        PROVE  \E i \in Len(w0.frontier) + 1..Len(w.frontier) : w.frontier[i] = <<entries[x].writer, hop + 1>>
    <3>1. x \in D
      BY <1>3, <2>3 DEF Inspected
    <3> QED BY <2>3, <3>1 DEF Inspected
  <2>4. \A i \in Len(w0.frontier) + 1..Len(w.frontier) :
          \E x \in D \cup {e} : TaggedEntry(x) /\ w.frontier[i] = <<entries[x].writer, hop + 1>>
    BY DEF Inspected
  <2>5. /\ w \in Walks /\ w.visited = w0.visited
        /\ Len(w0.frontier) <= Len(w.frontier) /\ Len(w.frontier) + Len(w0.links) = Len(w0.frontier) + Len(w.links)
        /\ \A i \in 1..Len(w0.frontier) : w.frontier[i] = w0.frontier[i]
        /\ DistinctLinks(w)
    BY DEF Inspected
  <2>6. Inspected(w0, w, D \cup {e}, hop)
    BY <2>2, <2>3, <2>4, <2>5 DEF Inspected
  <2> QED BY <1>1, <2>1, <2>6
<1>4. CASE TaggedEntry(e) /\ e \notin Poisoned(w.links)
  <2>1. v \in Walks /\ Adds(w, v, e, reader, hop)
    BY <1>1, <1>2, <1>4, InspectDoes
  <2>2. PICK p : p = <<entries[e].writer, hop + 1>>
    OBVIOUS
  <2>3. PICK q : q = <<e, entries[e].writer, reader, hop>>
    OBVIOUS
  <2>4. PICK F : F = w.frontier
    OBVIOUS
  <2>5. PICK L : L = w.links
    OBVIOUS
  <2>6. v.visited = w.visited /\ v.frontier = Append(F, p) /\ v.links = Append(L, q)
    BY <2>1, <2>2, <2>3, <2>4, <2>5 DEF Adds
  <2>7. F \in Seq(Runs \X Nat) /\ L \in Seq(Entries \X Runs \X Runs \X Nat)
    BY <1>2, <2>4, <2>5, WalkParts
  <2>8. entries[e].writer \in Runs
    BY <1>4 DEF TaggedEntry, StoreOK
  <2>9. p \in Runs \X Nat /\ q \in Entries \X Runs \X Runs \X Nat /\ q[1] = e
    BY <2>2, <2>3, <2>8
  <2>10. PICK G : G = v.frontier
    OBVIOUS
  <2>11. PICK M : M = v.links
    OBVIOUS
  <2>12. Len(F) \in Nat /\ Len(G) = Len(F) + 1 /\ (\A i \in 1..Len(F) : G[i] = F[i]) /\ G[Len(F) + 1] = p
    BY <2>6, <2>7, <2>9, <2>10, AppendIs
  <2>13. Len(L) \in Nat /\ Len(M) = Len(L) + 1 /\ (\A i \in 1..Len(L) : M[i] = L[i]) /\ M[Len(L) + 1] = q
    BY <2>6, <2>7, <2>9, <2>11, AppendIs
  <2>14. PICK m : m = Len(w0.frontier)
    OBVIOUS
  <2>15. m \in Nat /\ Len(w0.links) \in Nat
    BY <2>14, WalkParts
  <2>16. /\ m <= Len(F) /\ Len(F) + Len(w0.links) = m + Len(L)
         /\ \A i \in 1..m : F[i] = w0.frontier[i]
         /\ \A i \in m + 1..Len(F) : \E x \in D : TaggedEntry(x) /\ F[i] = <<entries[x].writer, hop + 1>>
         /\ \A x : x \in Poisoned(L) <=> x \in Poisoned(w0.links) \/ (x \in D /\ TaggedEntry(x))
         /\ \A x \in D : TaggedEntry(x) /\ x \notin Poisoned(w0.links) =>
              \E i \in m + 1..Len(F) : F[i] = <<entries[x].writer, hop + 1>>
         /\ \A i, j \in 1..Len(L) : L[i][1] = L[j][1] => i = j
         /\ w.visited = w0.visited
    BY <2>4, <2>5, <2>14 DEF Inspected, DistinctLinks
  <2>17. m <= Len(G) /\ Len(G) + Len(w0.links) = m + Len(M)
    <3>1. m \in Nat /\ Len(w0.links) \in Nat /\ Len(F) \in Nat /\ Len(L) \in Nat /\ Len(G) = Len(F) + 1 /\ Len(M) = Len(L) + 1
      BY <2>12, <2>13, <2>15
    <3>2. m <= Len(F) /\ Len(F) + Len(w0.links) = m + Len(L)
      BY <2>16
    <3>3. PICK a, b, c : a = Len(F) /\ b = Len(L) /\ c = Len(w0.links)
      OBVIOUS
    <3>4. a \in Nat /\ b \in Nat /\ c \in Nat /\ m \in Nat /\ m <= a /\ a + c = m + b
      BY <3>1, <3>2, <3>3
    <3>5. m <= a + 1 /\ (a + 1) + c = m + (b + 1)
      BY <3>4
    <3> QED BY <3>1, <3>3, <3>5
  <2>18. \A i \in 1..m : G[i] = w0.frontier[i]
    BY <2>12, <2>15, <2>16
  <2>19. ASSUME NEW i \in m + 1..Len(G) PROVE \E x \in D \cup {e} : TaggedEntry(x) /\ G[i] = <<entries[x].writer, hop + 1>>
    <3>1. CASE i = Len(F) + 1
      BY <1>4, <2>2, <2>12, <3>1
    <3>2. CASE i # Len(F) + 1
      <4>1. i \in m + 1..Len(F) /\ i \in 1..Len(F)
        BY <2>12, <2>15, <3>2
      <4>2. PICK x \in D : TaggedEntry(x) /\ F[i] = <<entries[x].writer, hop + 1>>
        BY <2>16, <4>1
      <4> QED BY <2>12, <4>1, <4>2
    <3> QED BY <3>1, <3>2
  <2>20. \A x : x \in Poisoned(M) <=> x \in Poisoned(L) \/ x = e
    <3> SUFFICES ASSUME NEW x PROVE x \in Poisoned(M) <=> x \in Poisoned(L) \/ x = e
      OBVIOUS
    <3>1. x \in Poisoned(M) <=> \E i \in 1..Len(M) : M[i][1] = x
      BY PoisonedIs
    <3>2. x \in Poisoned(L) <=> \E i \in 1..Len(L) : L[i][1] = x
      BY PoisonedIs
    <3>3. \A i \in 1..Len(M) : i \in 1..Len(L) \/ i = Len(L) + 1
      BY <2>13
    <3>4. \A i \in 1..Len(L) : i \in 1..Len(M)
      BY <2>13
    <3>5. Len(L) + 1 \in 1..Len(M)
      BY <2>13
    <3> QED BY <2>9, <2>13, <3>1, <3>2, <3>3, <3>4, <3>5
  <2>21. \A x : x \in Poisoned(M) <=> x \in Poisoned(w0.links) \/ (x \in D \cup {e} /\ TaggedEntry(x))
    BY <1>4, <2>16, <2>20
  <2>22. ASSUME NEW x \in D \cup {e}, TaggedEntry(x), x \notin Poisoned(w0.links)
         PROVE  \E i \in m + 1..Len(G) : G[i] = <<entries[x].writer, hop + 1>>
    <3>1. CASE x = e
      <4>1. Len(F) + 1 \in m + 1..Len(G)
        BY <2>12, <2>15, <2>16
      <4> QED BY <2>2, <2>12, <3>1, <4>1
    <3>2. CASE x # e
      <4>1. PICK i \in m + 1..Len(F) : F[i] = <<entries[x].writer, hop + 1>>
        BY <2>16, <2>22, <3>2
      <4>2. i \in m + 1..Len(G) /\ i \in 1..Len(F)
        BY <2>12, <2>15
      <4> QED BY <2>12, <4>1, <4>2
    <3> QED BY <3>1, <3>2
  <2>23. \A i, j \in 1..Len(M) : M[i][1] = M[j][1] => i = j
    <3> SUFFICES ASSUME NEW i \in 1..Len(M), NEW j \in 1..Len(M), M[i][1] = M[j][1] PROVE i = j
      OBVIOUS
    <3>1. (i \in 1..Len(L) \/ i = Len(L) + 1) /\ (j \in 1..Len(L) \/ j = Len(L) + 1)
      BY <2>13
    <3>2. \A k \in 1..Len(L) : L[k][1] # e
      BY <1>4, <2>5, PoisonedIs
    <3> QED BY <2>9, <2>13, <2>16, <3>1, <3>2
  <2>24. DistinctLinks(v)
    BY <2>11, <2>23 DEF DistinctLinks
  <2>25. Inspected(w0, v, D \cup {e}, hop)
    BY <2>1, <2>6, <2>10, <2>11, <2>14, <2>16, <2>17, <2>18, <2>19, <2>21, <2>22, <2>24 DEF Inspected
  <2> QED BY <1>1, <2>25
<1> QED BY <1>3, <1>4

\* All that a run read is inspected.
LEMMA InspectReadsDoes ==
    ASSUME StoreOK, NEW w0 \in Walks, DistinctLinks(w0), NEW reader \in Runs, NEW hop \in Nat
    PROVE  Inspected(w0, InspectReads(w0, reader, hop), {reads[reader][j] : j \in 1..Len(reads[reader])}, hop)
<1>1. PICK read : read = entries_read_in_run(reader)
  OBVIOUS
<1>2. read = reads[reader] /\ read \in Seq(Entries)
  BY <1>1 DEF entries_read_in_run, StoreOK
<1>3. PICK N : N = Len(read)
  OBVIOUS
<1>4. N \in Nat /\ \A i \in 1..N : read[i] \in Entries
  BY <1>2, <1>3
<1>5. PICK f : f = [p \in (1..N) \X Walks |-> Inspect(p[2], read[p[1]], reader, hop)]
  OBVIOUS
<1>6. ASSUME NEW i \in 1..N, NEW w \in Walks PROVE f[<<i, w>>] = Inspect(w, read[i], reader, hop) /\ f[<<i, w>>] \in Walks
  <2>1. Inspect(w, read[i], reader, hop) \in Walks
    BY <1>4, InspectDoes
  <2>2. f[<<i, w>>] = Inspect(w, read[i], reader, hop)
    BY <1>5
  <2> QED BY <2>1, <2>2
<1>7. \E h : h = [i \in 0..N |-> IF i = 0 THEN w0 ELSE Inspect(h[i - 1], read[i], reader, hop)]
  <2>1. PICK h : Loop(h, N, Walks, w0, f)
    BY <1>4, <1>6, LoopExists
  <2>2. h \in [0..N -> Walks] /\ h[0] = w0 /\ \A i \in 1..N : h[i] = f[<<i, h[i - 1]>>]
    BY <2>1 DEF Loop
  <2>3. ASSUME NEW i \in 0..N PROVE h[i] = IF i = 0 THEN w0 ELSE Inspect(h[i - 1], read[i], reader, hop)
    <3>1. CASE i # 0
      <4>1. i \in 1..N /\ i - 1 \in 0..N
        BY <1>4, <3>1
      <4>2. h[i - 1] \in Walks /\ h[i] = f[<<i, h[i - 1]>>]
        BY <2>2, <4>1
      <4> QED BY <1>6, <3>1, <4>1, <4>2
    <3> QED BY <2>2, <3>1
  <2>4. h = [i \in 0..N |-> IF i = 0 THEN w0 ELSE Inspect(h[i - 1], read[i], reader, hop)]
    BY <2>2, <2>3
  <2> QED BY <2>4
<1>8. PICK h : h = CHOOSE after : after = [i \in 0..N |-> IF i = 0 THEN w0 ELSE Inspect(after[i - 1], read[i], reader, hop)]
  OBVIOUS
<1>9. h = [i \in 0..N |-> IF i = 0 THEN w0 ELSE Inspect(h[i - 1], read[i], reader, hop)]
  BY <1>7, <1>8
<1>10. InspectReads(w0, reader, hop) = h[N]
  BY <1>1, <1>3, <1>8 DEF InspectReads
<1>11. h[0] = w0 /\ \A i \in 0..N - 1 : h[i + 1] = Inspect(h[i], read[i + 1], reader, hop)
  <2>1. 0 \in 0..N
    BY <1>4
  <2>2. ASSUME NEW i \in 0..N - 1 PROVE h[i + 1] = Inspect(h[i], read[i + 1], reader, hop)
    <3>1. i + 1 \in 0..N /\ i + 1 # 0 /\ (i + 1) - 1 = i
      BY <1>4
    <3> QED BY <1>9, <3>1
  <2> QED BY <1>9, <2>1, <2>2
<1>12. PICK T : T = {n \in Nat : n <= N => Inspected(w0, h[n], {read[j] : j \in 1..n}, hop)}
  OBVIOUS
<1>13. 0 \in T
  <2>1. {read[j] : j \in 1..0} = {}
    OBVIOUS
  <2>2. w0.frontier \in Seq(Runs \X Nat) /\ w0.links \in Seq(Entries \X Runs \X Runs \X Nat)
    BY WalkParts
  <2>3. Len(w0.frontier) \in Nat /\ Len(w0.links) \in Nat
    BY <2>2
  <2>4. Len(w0.frontier) + 1..Len(w0.frontier) = {}
    BY <2>3
  <2>5. Inspected(w0, w0, {}, hop)
    BY <2>3, <2>4 DEF Inspected
  <2> QED BY <1>11, <1>12, <2>1, <2>5
<1>14. ASSUME NEW n \in Nat, n \in T PROVE n + 1 \in T
  <2> SUFFICES ASSUME n + 1 <= N PROVE Inspected(w0, h[n + 1], {read[j] : j \in 1..n + 1}, hop)
    BY <1>12
  <2>1. n <= N /\ n \in 0..N - 1 /\ n + 1 \in 1..N
    BY <1>4
  <2>2. PICK D : D = {read[j] : j \in 1..n}
    OBVIOUS
  <2>3. Inspected(w0, h[n], D, hop)
    BY <1>12, <1>14, <2>1, <2>2
  <2>4. h[n + 1] = Inspect(h[n], read[n + 1], reader, hop) /\ read[n + 1] \in Entries
    BY <1>4, <1>11, <2>1
  <2>5. Inspected(w0, h[n + 1], D \cup {read[n + 1]}, hop)
    BY <2>3, <2>4, InspectStep
  <2>6. D \cup {read[n + 1]} = {read[j] : j \in 1..n + 1}
    <3>1. \A j \in 1..n + 1 : j \in 1..n \/ j = n + 1
      OBVIOUS
    <3>2. \A j \in 1..n : j \in 1..n + 1
      OBVIOUS
    <3>3. n + 1 \in 1..n + 1
      OBVIOUS
    <3> QED BY <2>2, <3>1, <3>2, <3>3
  <2> QED BY <2>5, <2>6
<1>15. N \in T
  BY <1>4, <1>13, <1>14, EveryNumber
<1>16. Inspected(w0, h[N], {read[j] : j \in 1..N}, hop)
  BY <1>4, <1>12, <1>15
<1> QED BY <1>2, <1>3, <1>10, <1>16

-----------------------------------------------------------------------------
\* The paths: one run is reached by the path of one, and the others from one reached before.
LEMMA TaggedReadsIs ==
    ASSUME NEW s, NEW e
    PROVE  e \in TaggedReads(s) <=> /\ e \in {reads[s][j] : j \in DOMAIN reads[s]} /\ TaggedEntry(e)
BY DEF TaggedReads, TaggedEntry, Range

\* The runs one read further back are those that wrote a tagged entry that was read.
LEMMA PoisonedByIs ==
    ASSUME StoreOK, NEW s
    PROVE  /\ PoisonedBy(s) \subseteq Runs
           /\ \A u : u \in PoisonedBy(s) <=> \E e \in TaggedReads(s) : u = entries[e].writer
BY DEF PoisonedBy, TaggedReads, StoreOK

\* A path of length one stays at its run.
LEMMA ReachedFirst ==
    ASSUME NEW r \in Runs
    PROVE  Reached(r, 1) = {r}
<1>1. 1..1 = {1}
  OBVIOUS
<1>2. PICK p : p = [i \in 1..1 |-> r]
  OBVIOUS
<1>3. p \in [1..1 -> Runs] /\ p[1] = r
  BY <1>1, <1>2
<1>4. \A q \in [1..1 -> Runs] : Len(q) = 1
  OBVIOUS
<1>5. IsPath(r, p)
  <2>1. Len(p) = 1
    BY <1>3, <1>4
  <2>2. 1..Len(p) - 1 = {}
    BY <2>1
  <2> QED BY <1>3, <2>2 DEF IsPath
<1>6. r \in Reached(r, 1)
  BY <1>3, <1>5 DEF Reached
<1>7. ASSUME NEW x \in Reached(r, 1) PROVE x = r
  BY DEF Reached, IsPath
<1> QED BY <1>6, <1>7

\* What a path of length n reaches.
LEMMA ReachedIs ==
    ASSUME NEW r, NEW n, NEW x
    PROVE  x \in Reached(r, n) <=> \E p \in [1..n -> Runs] : IsPath(r, p) /\ x = p[n]
BY DEF Reached

\* Paths of length n + 1 are paths of length n and one read more.
LEMMA ReachedNext ==
    ASSUME StoreOK, NEW r \in Runs, NEW n \in Nat, n >= 1, NEW u
    PROVE  u \in Reached(r, n + 1) <=> \E s \in Reached(r, n) : u \in PoisonedBy(s)
<1>1. \A k \in Nat : \A q \in [1..k -> Runs] : Len(q) = k
  <2> SUFFICES ASSUME NEW k \in Nat, NEW q \in [1..k -> Runs] PROVE Len(q) = k
    OBVIOUS
  <2> QED OBVIOUS
<1>2. n + 1 \in Nat /\ (n + 1) - 1 = n /\ n + 1 # 1 /\ 1 \in 1..n /\ n \in 1..n /\ n + 1 \in 1..n + 1 /\ n \in 1..n + 1
  OBVIOUS
<1>3. ASSUME u \in Reached(r, n + 1) PROVE \E s \in Reached(r, n) : u \in PoisonedBy(s)
  <2>1. PICK p \in [1..n + 1 -> Runs] : IsPath(r, p) /\ u = p[n + 1]
    BY <1>3, ReachedIs
  <2>2. PICK q : q = [i \in 1..n |-> p[i]]
    OBVIOUS
  <2>3. \A i \in 1..n : i \in 1..n + 1
    OBVIOUS
  <2>4. q \in [1..n -> Runs] /\ \A i \in 1..n : q[i] = p[i]
    BY <2>1, <2>2, <2>3
  <2>5. p[1] = r /\ \A k \in 1..n : p[k + 1] \in PoisonedBy(p[k])
    BY <1>1, <1>2, <2>1 DEF IsPath
  <2>6. \A k \in 1..n - 1 : k \in 1..n /\ k + 1 \in 1..n
    OBVIOUS
  <2>7. IsPath(r, q)
    BY <1>1, <1>2, <2>4, <2>5, <2>6 DEF IsPath
  <2>8. q[n] \in Reached(r, n)
    BY <2>4, <2>7, ReachedIs
  <2>9. u \in PoisonedBy(q[n])
    BY <1>2, <2>1, <2>4, <2>5
  <2> QED BY <2>8, <2>9
<1>4. ASSUME NEW s \in Reached(r, n), u \in PoisonedBy(s) PROVE u \in Reached(r, n + 1)
  <2>1. PICK q \in [1..n -> Runs] : IsPath(r, q) /\ s = q[n]
    BY ReachedIs
  <2>2. u \in Runs
    BY <1>4, PoisonedByIs
  <2>3. PICK p : p = [i \in 1..n + 1 |-> IF i = n + 1 THEN u ELSE q[i]]
    OBVIOUS
  <2>4. \A i \in 1..n : i \in 1..n + 1 /\ i # n + 1 /\ p[i] = q[i]
    BY <2>3
  <2>5. p \in [1..n + 1 -> Runs] /\ p[n + 1] = u
    <3>1. \A i \in 1..n + 1 : i = n + 1 \/ i \in 1..n
      OBVIOUS
    <3> QED BY <1>2, <2>1, <2>2, <2>3, <3>1
  <2>6. q[1] = r /\ \A k \in 1..n - 1 : q[k + 1] \in PoisonedBy(q[k])
    BY <1>1, <2>1 DEF IsPath
  <2>7. ASSUME NEW k \in 1..n PROVE p[k + 1] \in PoisonedBy(p[k])
    <3>1. CASE k = n
      BY <1>2, <1>4, <2>1, <2>4, <2>5, <3>1
    <3>2. CASE k # n
      <4>1. k \in 1..n - 1 /\ k + 1 \in 1..n
        BY <3>2
      <4> QED BY <2>4, <2>6, <4>1
    <3> QED BY <3>1, <3>2
  <2>8. IsPath(r, p)
    <3>1. p[1] = r
      BY <1>2, <2>4, <2>6
    <3>2. Len(p) - 1 = n
      BY <1>1, <1>2, <2>5
    <3> QED BY <2>7, <3>1, <3>2 DEF IsPath
  <2> QED BY <2>5, <2>8, ReachedIs
<1> QED BY <1>3, <1>4

-----------------------------------------------------------------------------
\* The walk proceeds level by level.
At(w, n) == {s \in Runs : \E i \in 1..Len(w.frontier) : w.frontier[i] = <<s, n>>}
Level(r, w, l) ==
    /\ l \in Nat /\ l >= 1
    /\ \A i \in 1..Len(w.frontier) : w.frontier[i][2] \in {l, l + 1}
    /\ \A i, j \in 1..Len(w.frontier) : i < j /\ w.frontier[i][2] = l + 1 => w.frontier[j][2] = l + 1
    /\ \A n \in 1..MAX_HOPS : /\ n < l => Reached(r, n) \subseteq w.visited
                              /\ n = l => Reached(r, n) \subseteq w.visited \cup At(w, l)
    /\ l <= MAX_HOPS => \A s \in w.visited : PoisonedBy(s) \subseteq w.visited \cup At(w, l) \cup At(w, l + 1)
WalkInv(r, w) ==
    /\ w \in Walks /\ DistinctLinks(w)
    /\ \A e : e \in Poisoned(w.links) <=> \E s \in w.visited : e \in TaggedReads(s)
    /\ \A s \in w.visited : \E n \in 1..MAX_HOPS : s \in Reached(r, n)
    /\ \A i \in 1..Len(w.frontier) : w.frontier[i][1] \in Reached(r, w.frontier[i][2])
    /\ \E l : Level(r, w, l)

\* When the next run waits at the next level, this one is finished.
LEMMA LevelOfHead ==
    ASSUME StoreOK, MAX_HOPS \in Nat, NEW r \in Runs, NEW w \in Walks, w.frontier # <<>>, \E l : Level(r, w, l)
    PROVE  \E l : Level(r, w, l) /\ w.frontier[1][2] = l
<1>1. PICK l : Level(r, w, l)
  OBVIOUS
<1>2. PICK F : F = w.frontier
  OBVIOUS
<1>3. F \in Seq(Runs \X Nat) /\ F # <<>>
  BY <1>2, WalkParts
<1>4. Len(F) \in Nat /\ 1 \in 1..Len(F) /\ \A i \in 1..Len(F) : F[i] \in Runs \X Nat
  BY <1>3
<1>5. /\ l \in Nat /\ l >= 1
      /\ \A i \in 1..Len(F) : F[i][2] \in {l, l + 1}
      /\ \A i, j \in 1..Len(F) : i < j /\ F[i][2] = l + 1 => F[j][2] = l + 1
      /\ \A n \in 1..MAX_HOPS : /\ n < l => Reached(r, n) \subseteq w.visited
                                /\ n = l => Reached(r, n) \subseteq w.visited \cup At(w, l)
      /\ l <= MAX_HOPS => \A s \in w.visited : PoisonedBy(s) \subseteq w.visited \cup At(w, l) \cup At(w, l + 1)
  BY <1>1, <1>2 DEF Level
<1>6. CASE F[1][2] = l
  BY <1>1, <1>2, <1>6
<1>7. CASE F[1][2] = l + 1
  <2>1. \A i \in 1..Len(F) : F[i][2] = l + 1
    <3> SUFFICES ASSUME NEW i \in 1..Len(F) PROVE F[i][2] = l + 1
      OBVIOUS
    <3>1. CASE i = 1
      BY <1>7, <3>1
    <3>2. CASE i # 1
      <4>1. 1 < i
        BY <1>4, <3>2
      <4> QED BY <1>4, <1>5, <1>7, <4>1
    <3> QED BY <3>1, <3>2
  <2>2. At(w, l) = {}
    <3> SUFFICES ASSUME NEW s \in Runs, NEW i \in 1..Len(F), F[i] = <<s, l>> PROVE FALSE
      BY <1>2 DEF At
    <3>1. F[i][2] = l
      OBVIOUS
    <3> QED BY <1>5, <2>1, <3>1
  <2>3. l + 1 \in Nat /\ l + 1 >= 1 /\ (l + 1) + 1 # l + 1
    BY <1>5
  <2>4. ASSUME NEW n \in 1..MAX_HOPS
        PROVE  /\ n < l + 1 => Reached(r, n) \subseteq w.visited
               /\ n = l + 1 => Reached(r, n) \subseteq w.visited \cup At(w, l + 1)
    <3>1. ASSUME n < l + 1 PROVE Reached(r, n) \subseteq w.visited
      <4>1. n < l \/ n = l
        BY <1>5, <3>1
      <4> QED BY <1>5, <2>2, <4>1
    <3>2. ASSUME n = l + 1 PROVE Reached(r, n) \subseteq w.visited \cup At(w, l + 1)
      <4>1. l \in 1..MAX_HOPS /\ l <= MAX_HOPS
        BY <1>5, <3>2
      <4>2. Reached(r, l) \subseteq w.visited
        BY <1>5, <2>2, <4>1
      <4> SUFFICES ASSUME NEW u \in Reached(r, l + 1) PROVE u \in w.visited \cup At(w, l + 1)
        BY <3>2
      <4>3. PICK s \in Reached(r, l) : u \in PoisonedBy(s)
        BY <1>5, ReachedNext
      <4> QED BY <1>5, <2>2, <4>1, <4>2, <4>3
    <3> QED BY <3>1, <3>2
  <2>5. l + 1 <= MAX_HOPS => \A s \in w.visited : PoisonedBy(s) \subseteq w.visited \cup At(w, l + 1) \cup At(w, (l + 1) + 1)
    <3> SUFFICES ASSUME l + 1 <= MAX_HOPS, NEW s \in w.visited
                 PROVE  PoisonedBy(s) \subseteq w.visited \cup At(w, l + 1)
      OBVIOUS
    <3>1. l <= MAX_HOPS
      BY <1>5
    <3> QED BY <1>5, <2>2, <3>1
  <2>6. Level(r, w, l + 1)
    BY <1>2, <2>1, <2>3, <2>4, <2>5 DEF Level
  <2> QED BY <1>2, <1>7, <2>6
<1> QED BY <1>4, <1>5, <1>6, <1>7

\* A walk whose frontier is empty has visited all there is.
LEMMA EmptyFrontier ==
    ASSUME StoreOK, MAX_HOPS \in Nat, NEW r \in Runs, NEW w, WalkInv(r, w), w.frontier = <<>>
    PROVE  \A n \in 1..MAX_HOPS : Reached(r, n) \subseteq w.visited
<1>1. PICK l : Level(r, w, l)
  BY DEF WalkInv
<1>2. \A n : At(w, n) = {}
  BY DEF At
<1>3. /\ l \in Nat /\ l >= 1
      /\ \A n \in 1..MAX_HOPS : n <= l => Reached(r, n) \subseteq w.visited
      /\ l <= MAX_HOPS => \A s \in w.visited : PoisonedBy(s) \subseteq w.visited
  BY <1>1, <1>2 DEF Level
<1>4. PICK T : T = {n \in Nat : n \in 1..MAX_HOPS => Reached(r, n) \subseteq w.visited}
  OBVIOUS
<1>5. 0 \in T
  BY <1>4
<1>6. ASSUME NEW n \in Nat, n \in T PROVE n + 1 \in T
  <2> SUFFICES ASSUME n + 1 \in 1..MAX_HOPS PROVE Reached(r, n + 1) \subseteq w.visited
    BY <1>4
  <2>1. CASE n + 1 <= l
    BY <1>3, <2>1
  <2>2. CASE ~(n + 1 <= l)
    <3>1. n \in 1..MAX_HOPS /\ l <= MAX_HOPS /\ n >= 1
      BY <1>3, <2>2
    <3>2. Reached(r, n) \subseteq w.visited
      BY <1>4, <1>6, <3>1
    <3> SUFFICES ASSUME NEW u \in Reached(r, n + 1) PROVE u \in w.visited
      OBVIOUS
    <3>3. PICK s \in Reached(r, n) : u \in PoisonedBy(s)
      BY <3>1, ReachedNext
    <3> QED BY <1>3, <3>1, <3>2, <3>3
  <2> QED BY <2>1, <2>2
<1>7. \A n \in Nat : n \in T
  BY <1>5, <1>6, EveryNumber
<1> QED BY <1>4, <1>7

\* The first of the frontier is dropped, its run visited where the bound allows, and what follows is for the next level.
Advances(w, v, reader, l) ==
    /\ v \in Walks
    /\ w.visited \subseteq v.visited /\ v.visited \subseteq w.visited \cup {reader}
    /\ l <= MAX_HOPS => reader \in v.visited
    /\ Len(w.frontier) <= Len(v.frontier) + 1
    /\ \A i \in 1..Len(w.frontier) - 1 : v.frontier[i] = w.frontier[i + 1]
    /\ \A i \in Len(w.frontier)..Len(v.frontier) : v.frontier[i][2] = l + 1
    /\ \A s \in v.visited \ w.visited : \A u \in PoisonedBy(s) :
          (\E t \in w.visited : u \in PoisonedBy(t)) \/ u \in At(v, l + 1)

First(w, reader) == w.frontier # <<>> /\ w.frontier[1][1] = reader

\* The runs waiting, but the first, keep waiting.
LEMMA AtIsKept ==
    ASSUME NEW w \in Walks, NEW v, NEW reader, NEW l, NEW n, Advances(w, v, reader, l), First(w, reader)
    PROVE  At(w, n) \subseteq {reader} \cup At(v, n)
<1>1. PICK F : F = w.frontier
  OBVIOUS
<1>2. PICK G : G = v.frontier
  OBVIOUS
<1>3. F \in Seq(Runs \X Nat) /\ F # <<>> /\ G \in Seq(Runs \X Nat)
  BY <1>1, <1>2, WalkParts DEF Advances, First
<1>4. Len(F) \in Nat /\ Len(G) \in Nat
  BY <1>3
<1>5. Len(F) <= Len(G) + 1 /\ \A i \in 1..Len(F) - 1 : G[i] = F[i + 1]
  BY <1>1, <1>2 DEF Advances
<1> SUFFICES ASSUME NEW s \in At(w, n), s # reader PROVE s \in At(v, n)
  OBVIOUS
<1>6. PICK i \in 1..Len(F) : F[i] = <<s, n>>
  BY <1>1 DEF At
<1>7. s \in Runs
  BY DEF At
<1>8. i # 1
  <2>1. F[1][1] = reader
    BY <1>1 DEF First
  <2>2. F[i][1] = s
    BY <1>6
  <2> QED BY <2>1, <2>2
<1>9. i - 1 \in 1..Len(F) - 1 /\ i - 1 \in 1..Len(G) /\ (i - 1) + 1 = i
  BY <1>4, <1>5, <1>8
<1>10. G[i - 1] = <<s, n>>
  BY <1>5, <1>6, <1>9
<1> QED BY <1>2, <1>7, <1>9, <1>10 DEF At

\* And the level goes on.
LEMMA LevelKept ==
    ASSUME StoreOK, MAX_HOPS \in Nat, NEW r \in Runs, NEW w \in Walks, NEW v, NEW reader, NEW l, Level(r, w, l),
           First(w, reader), Advances(w, v, reader, l)
    PROVE  Level(r, v, l)
<1>1. PICK F : F = w.frontier
  OBVIOUS
<1>2. PICK G : G = v.frontier
  OBVIOUS
<1>3. F \in Seq(Runs \X Nat) /\ F # <<>> /\ G \in Seq(Runs \X Nat)
  BY <1>1, <1>2, WalkParts DEF Advances, First
<1>4. PICK m, k : m = Len(F) /\ k = Len(G)
  OBVIOUS
<1>5. m \in Nat /\ k \in Nat /\ m >= 1
  BY <1>3, <1>4
<1>6. m <= k + 1 /\ (\A i \in 1..m - 1 : G[i] = F[i + 1]) /\ (\A i \in m..k : G[i][2] = l + 1)
  BY <1>1, <1>2, <1>4 DEF Advances
<1>7. /\ l \in Nat /\ l >= 1
      /\ \A i \in 1..m : F[i][2] \in {l, l + 1}
      /\ \A i, j \in 1..m : i < j /\ F[i][2] = l + 1 => F[j][2] = l + 1
      /\ \A n \in 1..MAX_HOPS : /\ n < l => Reached(r, n) \subseteq w.visited
                                /\ n = l => Reached(r, n) \subseteq w.visited \cup At(w, l)
      /\ l <= MAX_HOPS => \A s \in w.visited : PoisonedBy(s) \subseteq w.visited \cup At(w, l) \cup At(w, l + 1)
  BY <1>1, <1>4 DEF Level
<1>8. \A i \in 1..k : i \in m..k \/ (i \in 1..m - 1 /\ i + 1 \in 1..m)
  BY <1>5
<1>9. \A i \in 1..k : G[i][2] \in {l, l + 1}
  BY <1>6, <1>7, <1>8
<1>10. ASSUME NEW i \in 1..k, NEW j \in 1..k, i < j, G[i][2] = l + 1 PROVE G[j][2] = l + 1
  <2>1. CASE j \in m..k
    BY <1>6, <2>1
  <2>2. CASE j \in 1..m - 1
    <3>1. i \in 1..m - 1 /\ i + 1 \in 1..m /\ j + 1 \in 1..m /\ i + 1 < j + 1
      BY <1>5, <1>10, <2>2
    <3>2. F[i + 1][2] = l + 1
      BY <1>6, <1>10, <3>1
    <3>3. F[j + 1][2] = l + 1
      BY <1>7, <3>1, <3>2
    <3> QED BY <1>6, <2>2, <3>3
  <2> QED BY <1>8, <2>1, <2>2
<1>11. w.visited \subseteq v.visited /\ (l <= MAX_HOPS => reader \in v.visited)
  BY DEF Advances
<1>12. At(w, l) \subseteq {reader} \cup At(v, l) /\ At(w, l + 1) \subseteq {reader} \cup At(v, l + 1)
  <2>1. At(w, l) \subseteq {reader} \cup At(v, l)
    BY AtIsKept
  <2>2. PICK n : n = l + 1
    OBVIOUS
  <2>3. At(w, n) \subseteq {reader} \cup At(v, n)
    BY AtIsKept
  <2> QED BY <2>1, <2>2, <2>3
<1>13. ASSUME NEW n \in 1..MAX_HOPS
       PROVE  /\ n < l => Reached(r, n) \subseteq v.visited
              /\ n = l => Reached(r, n) \subseteq v.visited \cup At(v, l)
  <2>1. n < l => Reached(r, n) \subseteq v.visited
    BY <1>7, <1>11
  <2>2. ASSUME n = l PROVE Reached(r, n) \subseteq v.visited \cup At(v, l)
    <3>1. l <= MAX_HOPS
      BY <2>2
    <3>2. Reached(r, n) \subseteq w.visited \cup At(w, l)
      BY <1>7, <2>2
    <3> QED BY <1>11, <1>12, <3>1, <3>2
  <2> QED BY <2>1, <2>2
<1>14. ASSUME l <= MAX_HOPS, NEW s \in v.visited
       PROVE  PoisonedBy(s) \subseteq v.visited \cup At(v, l) \cup At(v, l + 1)
  <2>1. \A t \in w.visited : PoisonedBy(t) \subseteq w.visited \cup At(w, l) \cup At(w, l + 1)
    BY <1>7, <1>14
  <2>2. At(w, l) \subseteq v.visited \cup At(v, l) /\ At(w, l + 1) \subseteq v.visited \cup At(v, l + 1)
    BY <1>11, <1>12, <1>14
  <2>3. \A t \in w.visited : PoisonedBy(t) \subseteq v.visited \cup At(v, l) \cup At(v, l + 1)
    BY <1>11, <2>1, <2>2
  <2>4. CASE s \in w.visited
    BY <2>3, <2>4
  <2>5. CASE s \notin w.visited
    <3>1. \A u \in PoisonedBy(s) : (\E t \in w.visited : u \in PoisonedBy(t)) \/ u \in At(v, l + 1)
      BY <2>5 DEF Advances
    <3> QED BY <2>3, <3>1
  <2> QED BY <2>4, <2>5
<1> QED BY <1>2, <1>4, <1>7, <1>9, <1>10, <1>13, <1>14 DEF Level

\* The first of the frontier is taken off.
LEMMA PopIs ==
    ASSUME NEW w \in Walks, w.frontier # <<>>
    PROVE  /\ [w EXCEPT !.frontier = Tail(@)] = Walk(Tail(w.frontier), w.visited, w.links)
           /\ Tail(w.frontier) \in Seq(Runs \X Nat)
           /\ Len(w.frontier) \in Nat /\ Len(w.frontier) >= 1
           /\ Len(Tail(w.frontier)) = Len(w.frontier) - 1
           /\ \A i \in 1..Len(w.frontier) - 1 : Tail(w.frontier)[i] = w.frontier[i + 1]
           /\ Head(w.frontier) = w.frontier[1] /\ w.frontier[1] \in Runs \X Nat
<1>1. PICK F : F = w.frontier
  OBVIOUS
<1>2. F \in Seq(Runs \X Nat) /\ F # <<>>
  BY <1>1, WalkParts
<1>3. PICK G : G = Tail(F)
  OBVIOUS
<1>4. G \in Seq(Runs \X Nat) /\ Len(F) \in Nat /\ Len(F) >= 1 /\ Len(G) = Len(F) - 1 /\ Head(F) = F[1] /\ F[1] \in Runs \X Nat
  BY <1>2, <1>3
<1>5. \A i \in 1..Len(F) - 1 : G[i] = F[i + 1]
  BY <1>2, <1>3
<1>6. [w EXCEPT !.frontier = Tail(@)] = Walk(G, w.visited, w.links)
  <2>1. [w EXCEPT !.frontier = Tail(@)] = [w EXCEPT !.frontier = G]
    BY <1>1, <1>3
  <2>2. PICK t : t = [w EXCEPT !.frontier = G]
    OBVIOUS
  <2>3. t = Walk(G, w.visited, w.links)
    BY <2>2 DEF Walk, Walks
  <2> QED BY <2>1, <2>2, <2>3
<1> QED BY <1>1, <1>3, <1>4, <1>5, <1>6

\* One pass of the loop keeps the invariant and takes one run off the frontier, but for the links it adds.
Passed(w, v) == Len(v.frontier) + Len(w.links) + 1 = Len(w.frontier) + Len(v.links)
\* A pass that visits nothing only takes the head off the frontier.
LEMMA WalkPassPops ==
    ASSUME StoreOK, MAX_HOPS \in Nat, NEW r \in Runs, NEW w, WalkInv(r, w), w.frontier # <<>>, NEW l, Level(r, w, l),
           w.frontier[1][2] = l, l > MAX_HOPS \/ w.frontier[1][1] \in w.visited,
           NEW v, v = Walk(Tail(w.frontier), w.visited, w.links)
    PROVE  WalkInv(r, v) /\ Passed(w, v)
<1>1. w \in Walks
  BY DEF WalkInv
<1>2. PICK F, G, reader : F = w.frontier /\ G = Tail(F) /\ reader = w.frontier[1][1]
  OBVIOUS
<1>3. /\ G \in Seq(Runs \X Nat) /\ Len(F) \in Nat /\ Len(F) >= 1 /\ Len(G) = Len(F) - 1
      /\ \A i \in 1..Len(F) - 1 : G[i] = F[i + 1]
  BY <1>1, <1>2, PopIs
<1>4. w.visited \in SUBSET Runs /\ w.links \in Seq(Entries \X Runs \X Runs \X Nat) /\ Len(w.links) \in Nat
  BY <1>1, WalkParts
<1>5. v \in Walks /\ v.frontier = G /\ v.visited = w.visited /\ v.links = w.links
  <2>1. PICK V, L : V = w.visited /\ L = w.links
    OBVIOUS
  <2>2. v = Walk(G, V, L)
    BY <1>2, <2>1
  <2>3. G \in Seq(Runs \X Nat) /\ V \in SUBSET Runs /\ L \in Seq(Entries \X Runs \X Runs \X Nat)
    BY <1>3, <1>4, <2>1
  <2>4. v \in Walks /\ v.frontier = G /\ v.visited = V /\ v.links = L
    BY <2>2, <2>3, WalkMade
  <2> QED BY <2>1, <2>4
<1>6. First(w, reader)
  BY <1>2 DEF First
<1>7. l \in Nat
  BY DEF Level
<1>8. Advances(w, v, reader, l)
  <2>1. l <= MAX_HOPS => reader \in v.visited
    BY <1>2, <1>5, <1>7
  <2>2. Len(F)..Len(G) = {}
    BY <1>3
  <2>3. Len(F) <= Len(G) + 1
    BY <1>3
  <2>4. /\ v \in Walks
        /\ w.visited \subseteq v.visited /\ v.visited \subseteq w.visited \cup {reader}
        /\ \A s \in v.visited \ w.visited : FALSE
    BY <1>5
  <2>5. \A s \in v.visited \ w.visited : \A u \in PoisonedBy(s) :
          (\E t \in w.visited : u \in PoisonedBy(t)) \/ u \in At(v, l + 1)
    BY <2>4
  <2>6. \A i \in Len(w.frontier)..Len(v.frontier) : v.frontier[i][2] = l + 1
    BY <1>2, <1>5, <2>2
  <2> QED BY <1>2, <1>3, <1>5, <2>1, <2>3, <2>4, <2>5, <2>6 DEF Advances
<1>9. Level(r, v, l)
  BY <1>1, <1>6, <1>8, LevelKept
<1>10. \A i \in 1..Len(G) : G[i][1] \in Reached(r, G[i][2])
  <2> SUFFICES ASSUME NEW i \in 1..Len(G) PROVE G[i][1] \in Reached(r, G[i][2])
    OBVIOUS
  <2>1. i \in 1..Len(F) - 1 /\ i + 1 \in 1..Len(F)
    BY <1>3
  <2>2. F[i + 1][1] \in Reached(r, F[i + 1][2])
    BY <1>2, <2>1 DEF WalkInv
  <2> QED BY <1>3, <2>1, <2>2
<1>11. DistinctLinks(v)
  BY <1>5 DEF WalkInv, DistinctLinks
<1>12. /\ \A e : e \in Poisoned(v.links) <=> \E s \in v.visited : e \in TaggedReads(s)
       /\ \A s \in v.visited : \E n \in 1..MAX_HOPS : s \in Reached(r, n)
  BY <1>5 DEF WalkInv
<1>13. WalkInv(r, v)
  BY <1>5, <1>9, <1>10, <1>11, <1>12 DEF WalkInv
<1>14. Len(G) + Len(w.links) + 1 = Len(F) + Len(w.links)
  BY <1>3, <1>4
<1> QED BY <1>2, <1>5, <1>13, <1>14 DEF Passed

\* The run at the head is visited, all that it read inspected.
Heads(w, reader, l) == w.frontier # <<>> /\ w.frontier[1][1] = reader /\ w.frontier[1][2] = l
Visiting(w, w0, reader) == w0 = Walk(Tail(w.frontier), w.visited \cup {reader}, w.links)
\* A pass that visits a run inspects all that the run read and moves on.
LEMMA WalkPassVisits ==
    ASSUME StoreOK, MAX_HOPS \in Nat, NEW r \in Runs, NEW w, WalkInv(r, w), NEW l \in 1..MAX_HOPS, Level(r, w, l),
           NEW reader, Heads(w, reader, l), NEW w0, Visiting(w, w0, reader), NEW v, v = InspectReads(w0, reader, l)
    PROVE  WalkInv(r, v) /\ Passed(w, v)
<1>1. w \in Walks
  BY DEF WalkInv
<1>a. w.frontier # <<>> /\ w.frontier[1][1] = reader /\ w.frontier[1][2] = l
  BY DEF Heads
<1>2. PICK F, T : F = w.frontier /\ T = Tail(F)
  OBVIOUS
<1>3. /\ T \in Seq(Runs \X Nat) /\ Len(F) \in Nat /\ Len(F) >= 1 /\ Len(T) = Len(F) - 1
      /\ \A i \in 1..Len(F) - 1 : T[i] = F[i + 1]
  BY <1>1, <1>a, <1>2, PopIs
<1>4. w.frontier[1] \in Runs \X Nat
  BY <1>1, <1>a, PopIs
<1>5. reader \in Runs /\ l \in Nat /\ l >= 1
  <2>1. l \in Nat /\ l >= 1
    BY DEF Level
  <2> QED BY <1>4, <1>a, <2>1
<1>6. w.visited \in SUBSET Runs /\ w.links \in Seq(Entries \X Runs \X Runs \X Nat) /\ Len(w.links) \in Nat
  BY <1>1, WalkParts
<1>7. w0 \in Walks /\ w0.frontier = T /\ w0.visited = w.visited \cup {reader} /\ w0.links = w.links
  <2>1. PICK V : V = w.visited \cup {reader}
    OBVIOUS
  <2>2. V \in SUBSET Runs
    BY <1>5, <1>6, <2>1
  <2>3. PICK L : L = w.links
    OBVIOUS
  <2>4. w0 = Walk(T, V, L)
    BY <1>2, <2>1, <2>3 DEF Visiting
  <2>5. T \in Seq(Runs \X Nat) /\ L \in Seq(Entries \X Runs \X Runs \X Nat)
    BY <1>3, <1>6, <2>3
  <2>6. w0 \in Walks
    BY <2>2, <2>4, <2>5, WalkIs
  <2>7. w0.frontier = T /\ w0.visited = V /\ w0.links = L
    BY <2>4 DEF Walk
  <2> QED BY <2>1, <2>3, <2>6, <2>7
<1>8. DistinctLinks(w0)
  BY <1>7 DEF WalkInv, DistinctLinks
<1>9. PICK D : D = {reads[reader][j] : j \in 1..Len(reads[reader])}
  OBVIOUS
<1>10. Inspected(w0, v, D, l)
  BY <1>5, <1>7, <1>8, <1>9, InspectReadsDoes
<1>11. \A e : e \in TaggedReads(reader) <=> e \in D /\ TaggedEntry(e)
  <2>1. reads[reader] \in Seq(Entries)
    BY <1>5 DEF StoreOK
  <2>2. DOMAIN reads[reader] = 1..Len(reads[reader])
    BY <2>1
  <2> QED BY <1>9, <2>2, TaggedReadsIs
<1>12. PICK G, m, k : G = v.frontier /\ m = Len(F) /\ k = Len(G)
  OBVIOUS
<1>13. /\ v \in Walks /\ v.visited = w.visited \cup {reader}
       /\ Len(T) <= k /\ k + Len(w.links) = Len(T) + Len(v.links)
       /\ \A i \in 1..Len(T) : G[i] = T[i]
       /\ \A i \in Len(T) + 1..k : \E e \in D : TaggedEntry(e) /\ G[i] = <<entries[e].writer, l + 1>>
       /\ \A e : e \in Poisoned(v.links) <=> e \in Poisoned(w.links) \/ (e \in D /\ TaggedEntry(e))
       /\ \A e \in D : TaggedEntry(e) /\ e \notin Poisoned(w.links) =>
            \E i \in Len(T) + 1..k : G[i] = <<entries[e].writer, l + 1>>
       /\ DistinctLinks(v)
  <2>1. /\ v \in Walks /\ v.visited = w0.visited
        /\ Len(w0.frontier) <= Len(v.frontier) /\ Len(v.frontier) + Len(w0.links) = Len(w0.frontier) + Len(v.links)
        /\ DistinctLinks(v)
    BY <1>10 DEF Inspected
  <2>2. \A i \in 1..Len(w0.frontier) : v.frontier[i] = w0.frontier[i]
    BY <1>10 DEF Inspected
  <2>3. \A i \in Len(w0.frontier) + 1..Len(v.frontier) :
          \E e \in D : TaggedEntry(e) /\ v.frontier[i] = <<entries[e].writer, l + 1>>
    BY <1>10 DEF Inspected
  <2>4. \A e : e \in Poisoned(v.links) <=> e \in Poisoned(w0.links) \/ (e \in D /\ TaggedEntry(e))
    BY <1>10 DEF Inspected
  <2>5. \A e \in D : TaggedEntry(e) /\ e \notin Poisoned(w0.links) =>
          \E i \in Len(w0.frontier) + 1..Len(v.frontier) : v.frontier[i] = <<entries[e].writer, l + 1>>
    BY <1>10 DEF Inspected
  <2>6. k = Len(v.frontier)
    BY <1>12
  <2>7. \A i \in 1..Len(T) : G[i] = T[i]
    BY <1>7, <1>12, <2>2
  <2>8. \A i \in Len(T) + 1..k : \E e \in D : TaggedEntry(e) /\ G[i] = <<entries[e].writer, l + 1>>
    BY <1>7, <1>12, <2>3, <2>6
  <2>9. \A e : e \in Poisoned(v.links) <=> e \in Poisoned(w.links) \/ (e \in D /\ TaggedEntry(e))
    BY <1>7, <2>4
  <2>10. \A e \in D : TaggedEntry(e) /\ e \notin Poisoned(w.links) =>
           \E i \in Len(T) + 1..k : G[i] = <<entries[e].writer, l + 1>>
    BY <1>7, <1>12, <2>5, <2>6
  <2>11. v.visited = w.visited \cup {reader} /\ Len(T) <= k /\ k + Len(w.links) = Len(T) + Len(v.links)
    BY <1>7, <2>1, <2>6
  <2> QED BY <2>1, <2>7, <2>8, <2>9, <2>10, <2>11
<1>14. k \in Nat /\ Len(v.links) \in Nat
  BY <1>12, <1>13, WalkParts
<1>15. m \in Nat /\ m >= 1 /\ Len(T) = m - 1 /\ Len(T) + 1 = m
  BY <1>3, <1>12
<1>16. ASSUME NEW i \in 1..m - 1 PROVE G[i] = F[i + 1]
  <2>1. i \in 1..Len(T) /\ i \in 1..Len(F) - 1
    BY <1>12, <1>15
  <2>2. G[i] = T[i]
    BY <1>13, <2>1
  <2> QED BY <1>3, <2>1, <2>2
<1>17. \A i \in m..k : \E e \in TaggedReads(reader) : G[i] = <<entries[e].writer, l + 1>>
  BY <1>11, <1>13, <1>15
<1>18. \A e \in TaggedReads(reader) : e \notin Poisoned(w.links) => \E i \in 1..k : G[i] = <<entries[e].writer, l + 1>>
  <2> SUFFICES ASSUME NEW e \in TaggedReads(reader), e \notin Poisoned(w.links)
               PROVE  \E i \in 1..k : G[i] = <<entries[e].writer, l + 1>>
    OBVIOUS
  <2>1. PICK i \in Len(T) + 1..k : G[i] = <<entries[e].writer, l + 1>>
    BY <1>11, <1>13
  <2>2. i \in 1..k
    BY <1>14, <1>15
  <2> QED BY <2>1, <2>2
<1>19. \A e : e \in Poisoned(w.links) <=> \E s \in w.visited : e \in TaggedReads(s)
  BY DEF WalkInv
<1>20. First(w, reader)
  BY <1>a DEF First
<1>21. Advances(w, v, reader, l)
  <2>1. ASSUME NEW s \in v.visited \ w.visited, NEW u \in PoisonedBy(s)
        PROVE  (\E t \in w.visited : u \in PoisonedBy(t)) \/ u \in At(v, l + 1)
    <3>1. s = reader
      BY <1>13
    <3>2. PICK e \in TaggedReads(reader) : u = entries[e].writer
      BY <3>1, PoisonedByIs
    <3>3. u \in Runs
      BY PoisonedByIs
    <3>4. CASE e \in Poisoned(w.links)
      <4>1. PICK t \in w.visited : e \in TaggedReads(t)
        BY <1>19, <3>4
      <4> QED BY <3>2, <4>1, PoisonedByIs
    <3>5. CASE e \notin Poisoned(w.links)
      <4>1. PICK i \in 1..k : G[i] = <<u, l + 1>>
        BY <1>18, <3>2, <3>5
      <4> QED BY <1>12, <3>3, <4>1 DEF At
    <3> QED BY <3>4, <3>5
  <2>2. m <= k + 1
    BY <1>13, <1>14, <1>15
  <2>3. \A i \in m..k : G[i][2] = l + 1
    BY <1>17
  <2>4. /\ v \in Walks
        /\ w.visited \subseteq v.visited /\ v.visited \subseteq w.visited \cup {reader} /\ reader \in v.visited
    BY <1>13
  <2> QED BY <1>2, <1>12, <1>16, <2>1, <2>2, <2>3, <2>4 DEF Advances
<1>22. Level(r, v, l)
  BY <1>1, <1>20, <1>21, LevelKept
<1>23. reader \in Reached(r, l)
  <2>1. 1 \in 1..Len(w.frontier)
    BY <1>2, <1>3
  <2> QED BY <1>a, <2>1 DEF WalkInv
<1>24. ASSUME NEW i \in 1..k PROVE G[i][1] \in Reached(r, G[i][2])
  <2>1. CASE i \in m..k
    <3>1. PICK e \in TaggedReads(reader) : G[i] = <<entries[e].writer, l + 1>>
      BY <1>17, <2>1
    <3>2. entries[e].writer \in PoisonedBy(reader)
      BY PoisonedByIs
    <3>3. entries[e].writer \in Reached(r, l + 1)
      BY <1>5, <1>23, <3>2, ReachedNext
    <3> QED BY <3>1, <3>3
  <2>2. CASE i \notin m..k
    <3>1. i \in 1..m - 1 /\ i + 1 \in 1..m
      BY <1>14, <1>15, <2>2
    <3>2. F[i + 1][1] \in Reached(r, F[i + 1][2])
      BY <1>2, <1>12, <3>1 DEF WalkInv
    <3> QED BY <1>16, <3>1, <3>2
  <2> QED BY <2>1, <2>2
<1>25. \A e : e \in Poisoned(v.links) <=> \E s \in v.visited : e \in TaggedReads(s)
  BY <1>11, <1>13, <1>19
<1>26. \A s \in v.visited : \E n \in 1..MAX_HOPS : s \in Reached(r, n)
  <2>1. l \in 1..MAX_HOPS
    BY <1>5
  <2>2. \A s \in w.visited : \E n \in 1..MAX_HOPS : s \in Reached(r, n)
    BY DEF WalkInv
  <2> QED BY <1>13, <1>23, <2>1, <2>2
<1>27. WalkInv(r, v)
  <2>1. \A i \in 1..Len(v.frontier) : v.frontier[i][1] \in Reached(r, v.frontier[i][2])
    BY <1>12, <1>24
  <2>2. v \in Walks /\ DistinctLinks(v)
    BY <1>13
  <2> QED BY <1>22, <1>25, <1>26, <2>1, <2>2 DEF WalkInv
<1>28. k + Len(w.links) + 1 = m + Len(v.links)
  <2>1. PICK a, b, t : a = Len(w.links) /\ b = Len(v.links) /\ t = Len(T)
    OBVIOUS
  <2>2. a \in Nat /\ b \in Nat /\ k \in Nat /\ m \in Nat /\ t = m - 1 /\ k + a = t + b
    BY <1>6, <1>13, <1>14, <1>15, <2>1
  <2>3. k + a + 1 = m + b
    BY <2>2
  <2> QED BY <2>1, <2>3
<1> QED BY <1>2, <1>12, <1>27, <1>28 DEF Passed

\* A pass of the loop.
LEMMA WalkPassKeeps ==
    ASSUME StoreOK, MAX_HOPS \in Nat, NEW r \in Runs, NEW w, WalkInv(r, w)
    PROVE  /\ WalkInv(r, WalkPass(w))
           /\ w.frontier = <<>> => WalkPass(w) = w
           /\ w.frontier # <<>> => Passed(w, WalkPass(w))
<1>1. CASE w.frontier = <<>>
  BY <1>1 DEF WalkPass
<1>2. CASE w.frontier # <<>>
  <2>1. w \in Walks /\ \E l : Level(r, w, l)
    BY DEF WalkInv
  <2>2. PICK l : Level(r, w, l) /\ w.frontier[1][2] = l
    BY <1>2, <2>1, LevelOfHead
  <2>3. PICK reader : reader = w.frontier[1][1]
    OBVIOUS
  <2>4. Head(w.frontier)[1] = reader /\ Head(w.frontier)[2] = l
    BY <1>2, <2>1, <2>2, <2>3, PopIs
  <2>5. [w EXCEPT !.frontier = Tail(@)] = Walk(Tail(w.frontier), w.visited, w.links)
    BY <1>2, <2>1, PopIs
  <2>6. PICK p : p = Walk(Tail(w.frontier), w.visited, w.links)
    OBVIOUS
  <2>7. l \in Nat /\ l >= 1
    BY <2>2 DEF Level
  <2>8. CASE l > MAX_HOPS \/ reader \in w.visited
    <3>1. WalkPass(w) = p
      BY <1>2, <2>4, <2>5, <2>6, <2>8 DEF WalkPass
    <3>2. WalkInv(r, p) /\ Passed(w, p)
      BY <1>2, <2>2, <2>3, <2>6, <2>8, WalkPassPops
    <3> QED BY <1>2, <3>1, <3>2
  <2>9. CASE ~(l > MAX_HOPS \/ reader \in w.visited)
    <3>1. PICK w0 : w0 = Walk(Tail(w.frontier), w.visited \cup {reader}, w.links)
      OBVIOUS
    <3>2. [p EXCEPT !.visited = @ \cup {reader}] = w0
      <4>1. PICK f, u, k : f = Tail(w.frontier) /\ u = w.visited /\ k = w.links
        OBVIOUS
      <4>2. p = [frontier |-> f, visited |-> u, links |-> k] /\ w0 = [frontier |-> f, visited |-> u \cup {reader}, links |-> k]
        BY <2>6, <3>1, <4>1 DEF Walk
      <4>3. [p EXCEPT !.visited = @ \cup {reader}] = [p EXCEPT !.visited = u \cup {reader}]
        BY <4>2
      <4> QED BY <4>2, <4>3
    <3>3. PICK v : v = InspectReads(w0, reader, l)
      OBVIOUS
    <3>4. WalkPass(w) = v
      BY <1>2, <2>4, <2>5, <2>6, <2>9, <3>2, <3>3 DEF WalkPass
    <3>5. l \in 1..MAX_HOPS /\ Visiting(w, w0, reader) /\ Heads(w, reader, l)
      <4>1. l \in 1..MAX_HOPS
        BY <2>7, <2>9
      <4> QED BY <1>2, <2>2, <2>3, <3>1, <4>1 DEF Visiting, Heads
    <3>6. WalkInv(r, v) /\ Passed(w, v)
      BY <2>2, <3>3, <3>5, WalkPassVisits
    <3> QED BY <1>2, <3>4, <3>6
  <2> QED BY <2>8, <2>9
<1> QED BY <1>1, <1>2

\* The walk from run r before its first pass.
LEMMA FirstWalk ==
    ASSUME StoreOK, MAX_HOPS \in Nat, NEW r \in Runs,
           NEW w, w = [frontier |-> <<<<r, 1>>>>, visited |-> {}, links |-> <<>>]
    PROVE  WalkInv(r, w) /\ Len(w.frontier) = 1 /\ Len(w.links) = 0
<1>1. PICK F, L : F = <<<<r, 1>>>> /\ L = <<>>
  OBVIOUS
<1>2. <<r, 1>> \in Runs \X Nat
  OBVIOUS
<1>3. F \in Seq(Runs \X Nat) /\ Len(F) = 1 /\ F[1] = <<r, 1>>
  BY <1>1, <1>2
<1>4. L \in Seq(Entries \X Runs \X Runs \X Nat) /\ Len(L) = 0
  BY <1>1
<1>5. w = Walk(F, {}, L)
  BY <1>1 DEF Walk
<1>6. w \in Walks
  <2>1. PICK V : V = {}
    OBVIOUS
  <2>2. V \in SUBSET Runs /\ w = Walk(F, V, L)
    BY <1>5, <2>1
  <2>3. Walk(F, V, L) \in Walks
    BY <1>3, <1>4, <2>2, WalkIs
  <2> QED BY <2>2, <2>3
<1>7. w.frontier = F /\ w.visited = {} /\ w.links = L
  BY <1>5 DEF Walk
<1>8. 1..Len(F) = {1} /\ 1..Len(L) = {}
  BY <1>3, <1>4
<1>9. DistinctLinks(w)
  BY <1>7, <1>8 DEF DistinctLinks
<1>10. \A e : e \notin Poisoned(w.links)
  BY <1>7, <1>8, PoisonedIs
<1>11. \A i \in 1..Len(w.frontier) : w.frontier[i][1] \in Reached(r, w.frontier[i][2])
  BY <1>3, <1>7, <1>8, ReachedFirst
<1>12. Level(r, w, 1)
  <2>1. \A i \in 1..Len(w.frontier) : w.frontier[i][2] = 1
    BY <1>3, <1>7, <1>8
  <2>2. r \in At(w, 1)
    <3>1. 1 \in 1..Len(w.frontier) /\ w.frontier[1] = <<r, 1>>
      BY <1>3, <1>7, <1>8
    <3> QED BY <3>1 DEF At
  <2>3. \A n \in 1..MAX_HOPS : ~(n < 1) /\ (n = 1 => Reached(r, n) \subseteq w.visited \cup At(w, 1))
    BY <2>2, ReachedFirst
  <2>4. PICK l : l = 1
    OBVIOUS
  <2>5. l \in Nat /\ l >= 1 /\ l # l + 1
    BY <2>4
  <2>6. \A i \in 1..Len(w.frontier) : w.frontier[i][2] = l
    BY <2>1, <2>4
  <2>7. \A n \in 1..MAX_HOPS : /\ n < l => Reached(r, n) \subseteq w.visited
                               /\ n = l => Reached(r, n) \subseteq w.visited \cup At(w, l)
    BY <2>3, <2>4
  <2>8. \A s \in w.visited : PoisonedBy(s) \subseteq w.visited \cup At(w, l) \cup At(w, l + 1)
    BY <1>7
  <2>9. Level(r, w, l)
    BY <2>5, <2>6, <2>7, <2>8 DEF Level
  <2> QED BY <2>4, <2>9
<1>13. WalkInv(r, w)
  BY <1>6, <1>7, <1>9, <1>10, <1>11, <1>12 DEF WalkInv
<1> QED BY <1>3, <1>4, <1>7, <1>13

\* As many links as there are entries found, no more than there are entries.
LEMMA LinksCounted ==
    ASSUME StoreOK, NEW r, NEW w, WalkInv(r, w)
    PROVE  /\ Len(w.links) = Cardinality(Poisoned(w.links))
           /\ Len(w.links) <= Cardinality(DOMAIN entries)
           /\ Len(w.links) \in Nat /\ Cardinality(DOMAIN entries) \in Nat
<1>1. w \in Walks /\ DistinctLinks(w)
  BY DEF WalkInv
<1>2. PICK L, n, P : L = w.links /\ n = Len(L) /\ P = Poisoned(L)
  OBVIOUS
<1>3. L \in Seq(Entries \X Runs \X Runs \X Nat) /\ n \in Nat
  BY <1>1, <1>2, WalkParts
<1>4. PICK b : b = [i \in 1..n |-> L[i][1]]
  OBVIOUS
<1>5. \A i \in 1..n : b[i] = L[i][1] /\ b[i] \in P
  BY <1>2, <1>4, PoisonedIs
<1>6. b \in [1..n -> P]
  BY <1>4, <1>5
<1>7. \A i, j \in 1..n : b[i] = b[j] => i = j
  BY <1>1, <1>2, <1>5 DEF DistinctLinks
<1>8. ASSUME NEW e \in P PROVE \E i \in 1..n : b[i] = e
  <2>1. e \in Poisoned(L)
    BY <1>2
  <2>2. \E i \in 1..Len(L) : L[i][1] = e
    BY <2>1, PoisonedIs
  <2>3. PICK i \in 1..n : L[i][1] = e
    BY <1>2, <2>2
  <2> QED BY <1>5, <2>3
<1>9. b \in Bijection(1..n, P)
  BY <1>6, <1>7, <1>8 DEF Bijection, Injection, Surjection, IsInjective
<1>10. ExistsBijection(1..n, P)
  BY <1>9 DEF ExistsBijection
<1>11. Cardinality(P) = n
  BY <1>3, <1>10, FS_CountingElements
<1>12. P \in SUBSET DOMAIN entries
  <2> SUFFICES ASSUME NEW e \in P PROVE e \in DOMAIN entries
    OBVIOUS
  <2>1. PICK s \in w.visited : e \in TaggedReads(s)
    BY <1>2 DEF WalkInv
  <2> QED BY <2>1 DEF TaggedReads
<1>13. IsFiniteSet(DOMAIN entries)
  BY DEF StoreOK
<1>14. Cardinality(P) <= Cardinality(DOMAIN entries) /\ Cardinality(DOMAIN entries) \in Nat
  BY <1>12, <1>13, FS_Subset, FS_CardinalityType
<1> QED BY <1>2, <1>3, <1>11, <1>14

\* After n passes.
Counts(r, w, n) == WalkInv(r, w) /\ (w.frontier = <<>> \/ n + Len(w.frontier) = 1 + Len(w.links))

\* The walk ends with an empty frontier: what it found is what leads to the run.
THEOREM ChainExact ==
    ASSUME StoreOK, MAX_HOPS \in Nat, NEW r \in Runs
    PROVE  Poisoned(Chain(r)) = Influencing(r) /\ Len(Chain(r)) = Cardinality(Influencing(r))
<1>1. PICK w0 : w0 = [frontier |-> <<<<r, 1>>>>, visited |-> {}, links |-> <<>>]
  OBVIOUS
<1>2. WalkInv(r, w0) /\ Len(w0.frontier) = 1 /\ Len(w0.links) = 0
  BY <1>1, FirstWalk
<1>3. PICK N : N = Cardinality(DOMAIN entries)
  OBVIOUS
<1>4. N \in Nat
  BY <1>2, <1>3, LinksCounted
<1>5. PICK P : P = 1 + N
  OBVIOUS
<1>6. P \in Nat
  BY <1>4, <1>5
<1>7. PICK S : S = {w \in Walks : WalkInv(r, w)}
  OBVIOUS
<1>8. w0 \in S
  BY <1>2, <1>7 DEF WalkInv
<1>9. PICK f : f = [p \in (1..P) \X S |-> WalkPass(p[2])]
  OBVIOUS
<1>10. ASSUME NEW i \in 1..P, NEW w \in S PROVE f[<<i, w>>] = WalkPass(w) /\ f[<<i, w>>] \in S
  <2>1. WalkInv(r, WalkPass(w))
    BY <1>7, WalkPassKeeps
  <2>2. WalkPass(w) \in S
    BY <1>7, <2>1 DEF WalkInv
  <2>3. f[<<i, w>>] = WalkPass(w)
    BY <1>9
  <2> QED BY <2>2, <2>3
<1>11. \E h : h = [n \in 0..P |-> IF n = 0 THEN w0 ELSE WalkPass(h[n - 1])]
  <2>1. PICK h : Loop(h, P, S, w0, f)
    BY <1>6, <1>8, <1>10, LoopExists
  <2>2. h \in [0..P -> S] /\ h[0] = w0 /\ \A i \in 1..P : h[i] = f[<<i, h[i - 1]>>]
    BY <2>1 DEF Loop
  <2>3. ASSUME NEW n \in 0..P PROVE h[n] = IF n = 0 THEN w0 ELSE WalkPass(h[n - 1])
    <3>1. CASE n # 0
      <4>1. n \in 1..P /\ n - 1 \in 0..P
        BY <1>6, <3>1
      <4>2. h[n - 1] \in S /\ h[n] = f[<<n, h[n - 1]>>]
        BY <2>2, <4>1
      <4> QED BY <1>10, <3>1, <4>1, <4>2
    <3> QED BY <2>2, <3>1
  <2>4. h = [n \in 0..P |-> IF n = 0 THEN w0 ELSE WalkPass(h[n - 1])]
    BY <2>2, <2>3
  <2> QED BY <2>4
<1>12. PICK h : h = CHOOSE walk : walk = [n \in 0..P |->
                      IF n = 0 THEN [frontier |-> <<<<r, 1>>>>, visited |-> {}, links |-> <<>>] ELSE WalkPass(walk[n - 1])]
  OBVIOUS
<1>13. h = [n \in 0..P |-> IF n = 0 THEN w0 ELSE WalkPass(h[n - 1])]
  BY <1>1, <1>11, <1>12
<1>14. Chain(r) = h[P].links
  BY <1>3, <1>5, <1>12 DEF Chain
<1>15. h[0] = w0 /\ \A n \in 0..P - 1 : h[n + 1] = WalkPass(h[n])
  <2>1. 0 \in 0..P
    BY <1>6
  <2>2. ASSUME NEW n \in 0..P - 1 PROVE h[n + 1] = WalkPass(h[n])
    <3>1. n + 1 \in 0..P /\ n + 1 # 0 /\ (n + 1) - 1 = n
      BY <1>6
    <3> QED BY <1>13, <3>1
  <2> QED BY <1>13, <2>1, <2>2
<1>16. PICK T : T = {n \in Nat : n <= P => Counts(r, h[n], n)}
  OBVIOUS
<1>17. 0 \in T
  <2>1. 0 + Len(w0.frontier) = 1 + Len(w0.links)
    BY <1>2
  <2>2. Counts(r, h[0], 0)
    BY <1>2, <1>15, <2>1 DEF Counts
  <2> QED BY <1>16, <2>2
<1>18. ASSUME NEW n \in Nat, n \in T PROVE n + 1 \in T
  <2> SUFFICES ASSUME n + 1 <= P PROVE Counts(r, h[n + 1], n + 1)
    BY <1>16
  <2>1. n <= P /\ n \in 0..P - 1
    BY <1>6
  <2>2. PICK w, v : w = h[n] /\ v = h[n + 1]
    OBVIOUS
  <2>3. WalkInv(r, w) /\ (w.frontier = <<>> \/ n + Len(w.frontier) = 1 + Len(w.links))
    <3>1. Counts(r, h[n], n)
      BY <1>16, <1>18, <2>1
    <3> QED BY <2>2, <3>1 DEF Counts
  <2>4. v = WalkPass(w)
    BY <1>15, <2>1, <2>2
  <2>5. WalkInv(r, v) /\ (w.frontier = <<>> => v = w) /\ (w.frontier # <<>> => Passed(w, v))
    BY <2>3, <2>4, WalkPassKeeps
  <2>6. CASE w.frontier = <<>>
    BY <2>2, <2>5, <2>6 DEF Counts
  <2>7. CASE w.frontier # <<>>
    <3>1. PICK a, b, c, d : a = Len(w.frontier) /\ b = Len(w.links) /\ c = Len(v.frontier) /\ d = Len(v.links)
      OBVIOUS
    <3>2. w \in Walks /\ v \in Walks
      BY <2>3, <2>5 DEF WalkInv
    <3>3. a \in Nat /\ b \in Nat /\ c \in Nat /\ d \in Nat
      BY <3>1, <3>2, WalkParts
    <3>4. c + b + 1 = a + d /\ n + a = 1 + b
      BY <2>3, <2>5, <2>7, <3>1 DEF Passed
    <3>5. (n + 1) + c = 1 + d
      BY <3>3, <3>4
    <3> QED BY <2>2, <2>5, <3>1, <3>5 DEF Counts
  <2> QED BY <2>6, <2>7
<1>19. P \in T
  BY <1>6, <1>17, <1>18, EveryNumber
<1>20. PICK w : w = h[P]
  OBVIOUS
<1>21. WalkInv(r, w) /\ (w.frontier = <<>> \/ P + Len(w.frontier) = 1 + Len(w.links))
  <2>1. Counts(r, h[P], P)
    BY <1>6, <1>16, <1>19
  <2> QED BY <1>20, <2>1 DEF Counts
<1>22. w.frontier = <<>>
  <2> SUFFICES ASSUME w.frontier # <<>> PROVE FALSE
    OBVIOUS
  <2>1. w \in Walks
    BY <1>21 DEF WalkInv
  <2>2. Len(w.frontier) \in Nat /\ Len(w.frontier) >= 1
    BY <2>1, PopIs
  <2>3. Len(w.links) <= N /\ Len(w.links) \in Nat
    BY <1>3, <1>21, LinksCounted
  <2>4. PICK a, b : a = Len(w.frontier) /\ b = Len(w.links)
    OBVIOUS
  <2>5. a \in Nat /\ a >= 1 /\ b \in Nat /\ b <= N /\ (1 + N) + a = 1 + b
    BY <1>5, <1>21, <2>2, <2>3, <2>4
  <2> QED BY <1>4, <2>5
<1>23. \A n \in 1..MAX_HOPS : Reached(r, n) \subseteq w.visited
  BY <1>21, <1>22, EmptyFrontier
<1>24. Poisoned(w.links) = Influencing(r)
  <2>1. \A e : e \in Poisoned(w.links) <=> \E s \in w.visited : e \in TaggedReads(s)
    BY <1>21 DEF WalkInv
  <2>2. \A s \in w.visited : \E n \in 1..MAX_HOPS : s \in Reached(r, n)
    BY <1>21 DEF WalkInv
  <2>3. \A e : e \in Influencing(r) <=> \E n \in 1..MAX_HOPS : \E s \in Reached(r, n) : e \in TaggedReads(s)
    BY DEF Influencing
  <2>4. \A e : e \in Poisoned(w.links) <=> e \in Influencing(r)
    BY <1>23, <2>1, <2>2, <2>3
  <2> QED BY <2>4
<1>25. Len(w.links) = Cardinality(Poisoned(w.links))
  BY <1>21, LinksCounted
<1> QED BY <1>14, <1>20, <1>24, <1>25
-----------------------------------------------------------------------------
\* The store keeps its shape: what is written is a record, and only tagged entries are quarantined.
LEMMA StoreInitOK ==
    ASSUME StoreInit PROVE StoreOK
<1>1. entries = [e \in {} |-> {}] /\ reads = [r \in Runs |-> <<>>]
  BY DEF StoreInit
<1>2. DOMAIN entries = {}
  BY <1>1
<1>3. IsFiniteSet(DOMAIN entries)
  BY <1>2, FS_EmptySet
<1>4. <<>> \in Seq(Entries)
  OBVIOUS
<1>5. reads \in [Runs -> Seq(Entries)]
  BY <1>1, <1>4
<1> QED BY <1>2, <1>3, <1>5 DEF StoreOK

\* write_entry adds a record that is not quarantined.
LEMMA WriteKeepsStore ==
    ASSUME StoreOK, NEW e, NEW r \in Runs, NEW s, NEW h, write_entry(e, r, s, h) PROVE StoreOK'
<1>1. PICK tag \in BOOLEAN : tag = (s \in UNTRUSTED_SOURCES /\ injection_score(h) >= SUSPICION_THRESHOLD)
  OBVIOUS
<1>2. /\ entries' = [x \in DOMAIN entries \cup {e} |->
                IF x = e THEN [writer |-> r, tagged |-> tag, quarantined |-> FALSE] ELSE entries[x]]
      /\ reads' = reads
  BY <1>1 DEF write_entry
<1>3. DOMAIN entries' = DOMAIN entries \cup {e}
  BY <1>2
<1>4. IsFiniteSet(DOMAIN entries')
  <2>1. IsFiniteSet(DOMAIN entries)
    BY DEF StoreOK
  <2>2. IsFiniteSet(DOMAIN entries \cup {e})
    BY <2>1, FS_AddElement
  <2> QED BY <1>3, <2>2
<1>5. ASSUME NEW x \in DOMAIN entries'
      PROVE  /\ entries'[x] \in [writer : Runs, tagged : BOOLEAN, quarantined : BOOLEAN]
             /\ entries'[x].quarantined => entries'[x].tagged
  <2>1. CASE x = e
    <3>1. entries'[x] = [writer |-> r, tagged |-> tag, quarantined |-> FALSE]
      BY <1>2, <1>3, <2>1
    <3> QED BY <3>1
  <2>2. CASE x # e
    <3>1. x \in DOMAIN entries /\ entries'[x] = entries[x]
      BY <1>2, <1>3, <2>2
    <3> QED BY <3>1 DEF StoreOK
  <2> QED BY <2>1, <2>2
<1> QED BY <1>2, <1>4, <1>5 DEF StoreOK

\* record_read adds an entry to what a run read.
LEMMA ReadKeepsStore ==
    ASSUME StoreOK, NEW r \in Runs, NEW e \in Entries, record_read(r, e) PROVE StoreOK'
<1>1. PICK q : q = reads[r]
  OBVIOUS
<1>2. PICK p : p = IF Contains(q, e) THEN q ELSE Append(q, e)
  OBVIOUS
<1>3. reads' = [reads EXCEPT ![r] = p] /\ entries' = entries
  BY <1>1, <1>2 DEF record_read
<1>4. q \in Seq(Entries)
  BY <1>1 DEF StoreOK
<1>5. p \in Seq(Entries)
  BY <1>2, <1>4
<1>6. reads' \in [Runs -> Seq(Entries)]
  BY <1>3, <1>5 DEF StoreOK
<1> QED BY <1>3, <1>6 DEF StoreOK

\* The walk quarantines only what is tagged, because it finds exactly what leads to the run.
LEMMA WalkKeepsStore ==
    ASSUME StoreOK, NEW r \in Runs, walk_influence_chain(r) PROVE StoreOK'
<1>1. PICK P : P = Poisoned(Chain(r))
  OBVIOUS
<1>2. \A e \in P : e \in DOMAIN entries /\ entries[e].tagged
  <2>1. P = Influencing(r)
    BY <1>1, ChainExact, ProvenanceAssumption
  <2>2. \A s : \A e \in TaggedReads(s) : e \in DOMAIN entries /\ entries[e].tagged
    BY DEF TaggedReads
  <2> QED BY <2>1, <2>2 DEF Influencing
<1>3. /\ entries' = [e \in DOMAIN entries |-> IF e \in P THEN [entries[e] EXCEPT !.quarantined = TRUE] ELSE entries[e]]
      /\ reads' = reads
  BY <1>1 DEF walk_influence_chain
<1>4. DOMAIN entries' = DOMAIN entries
  BY <1>3
<1>5. ASSUME NEW x \in DOMAIN entries'
      PROVE  /\ entries'[x] \in [writer : Runs, tagged : BOOLEAN, quarantined : BOOLEAN]
             /\ entries'[x].quarantined => entries'[x].tagged
  <2>1. PICK o : o = entries[x]
    OBVIOUS
  <2>2. o \in [writer : Runs, tagged : BOOLEAN, quarantined : BOOLEAN] /\ (o.quarantined => o.tagged)
    BY <1>4, <2>1 DEF StoreOK
  <2>3. CASE x \in P
    <3>1. entries'[x] = [o EXCEPT !.quarantined = TRUE]
      BY <1>3, <1>4, <2>1, <2>3
    <3>2. o.tagged
      BY <1>2, <2>1, <2>3
    <3>3. PICK n : n = [o EXCEPT !.quarantined = TRUE]
      OBVIOUS
    <3>4. n \in [writer : Runs, tagged : BOOLEAN, quarantined : BOOLEAN] /\ n.tagged = o.tagged
      BY <2>2, <3>3
    <3> QED BY <3>1, <3>2, <3>3, <3>4
  <2>4. CASE x \notin P
    <3>1. entries'[x] = o
      BY <1>3, <1>4, <2>1, <2>4
    <3> QED BY <2>2, <3>1
  <2> QED BY <2>3, <2>4
<1> QED BY <1>3, <1>4, <1>5 DEF StoreOK

-----------------------------------------------------------------------------
\* Every verdict of the detectors that ask the judge is under the check of its detector when it is not OK.
LEMMA ShownUnderCheck ==
    ASSUME NEW d, NEW c, NEW r, NEW n, r # "OK",
           d \in {"asi01_goal_hijack", "asi06_memory_poisoning", "asi09_trust_exploit"},
           NEW vs, vs = {Verdict(d, c, r, n)}
    PROVE  /\ vs # {}
           /\ \A v \in vs : v.result # "OK"
           /\ \A v \in vs : \E k \in DOMAIN checks_for_verdicts(vs) : v \in checks_for_verdicts(vs)[k]
<1>1. PICK v : v = Verdict(d, c, r, n)
  OBVIOUS
<1>2. v.result = r /\ v.detector = d /\ v.category = c
  BY <1>1 DEF Verdict
<1>3. PICK k : k = check_for_detector(d, c)
  OBVIOUS
<1>4. k \in {"instruction_following", "sensitive_data_hygiene"}
  BY <1>3 DEF check_for_detector, DETECTOR_CHECK
<1>5. PICK f : f = checks_for_verdicts(vs)
  OBVIOUS
<1>6. k \in DOMAIN f /\ f[k] = {x \in vs : x.result # "OK" /\ check_for_detector(x.detector, x.category) = k}
  BY <1>4, <1>5 DEF checks_for_verdicts
<1>7. v \in f[k]
  BY <1>1, <1>2, <1>3, <1>6
<1> QED BY <1>1, <1>2, <1>5, <1>6, <1>7

\* The verdicts of the three detectors, when a pattern matched: one verdict, not OK, under a check.
Found(vs) ==
    /\ vs # {}
    /\ \A v \in vs : v.result # "OK"
    /\ \A v \in vs : \E c \in DOMAIN checks_for_verdicts(vs) : v \in checks_for_verdicts(vs)[c]

\* An injection in what ASI01 scans is found whatever the judge says.
LEMMA Found01 ==
    ASSUME NEW t, NEW j, Suspect01(t) # {} PROVE Found(Asi01(t, j))
<1>1. PICK vs : vs = Asi01(t, j)
  OBVIOUS
<1>2. PICK n : vs = {Verdict("asi01_goal_hijack", "ASI01", "VIOLATION", n)}
  BY <1>1 DEF Asi01
<1>3. Found(vs)
  BY <1>2, ShownUnderCheck DEF Found
<1> QED BY <1>1, <1>3

\* The same for suspicious memory and another tenant's id in ASI06.
LEMMA Found06 ==
    ASSUME NEW t, NEW j, Suspect06(t) # {} \/ Leaked06(t) PROVE Found(Asi06(t, FALSE, j))
<1>1. PICK vs : vs = Asi06(t, FALSE, j)
  OBVIOUS
<1>2. PICK n, r : r \in {"VIOLATION", "NEEDS_REVIEW"} /\ vs = {Verdict("asi06_memory_poisoning", "ASI06", r, n)}
  BY <1>1 DEF Asi06
<1>3. r # "OK"
  BY <1>2
<1>4. Found(vs)
  BY <1>2, <1>3, ShownUnderCheck DEF Found
<1> QED BY <1>1, <1>4

\* The same for an overconfident reply in ASI09.
LEMMA Found09 ==
    ASSUME NEW t, NEW j, "overconfident" \in Slice09(t) PROVE Found(Asi09(t, j))
<1>1. PICK vs : vs = Asi09(t, j)
  OBVIOUS
<1>2. Replies(t) # {}
  BY DEF Slice09
<1>3. PICK n, r : r \in {"VIOLATION", "NEEDS_REVIEW"} /\ vs = {Verdict("asi09_trust_exploit", "ASI09", r, n)}
  BY <1>1, <1>2 DEF Asi09
<1>4. r # "OK"
  BY <1>3
<1>5. Found(vs)
  BY <1>3, <1>4, ShownUnderCheck DEF Found
<1> QED BY <1>1, <1>5

\* MarkersSurviveJudge holds of every trace.
LEMMA MarkersSurvive ==
    MarkersSurviveJudge
<1>1. PICK t : t = audited
  OBVIOUS
<1>2. \A j : Suspect01(t) # {} => Found(Asi01(t, j))
  BY Found01
<1>3. \A j : Suspect06(t) # {} \/ Leaked06(t) => Found(Asi06(t, FALSE, j))
  BY Found06
<1>4. \A j : "overconfident" \in Slice09(t) => Found(Asi09(t, j))
  BY Found09
<1> QED BY <1>1, <1>2, <1>3, <1>4 DEF MarkersSurviveJudge, Found

-----------------------------------------------------------------------------
\* The events of a run, in the order in which p gives them.
Rearranged(p, events, q) ==
    /\ p \in [1..Len(events) -> 1..Len(events)]
    /\ \A k \in 1..Len(events) : \E i \in 1..Len(events) : p[i] = k
    /\ q = [i \in 1..Len(events) |-> events[p[i]]]

\* Unmatched host events are found at whatever position they arrived.
LEMMA RearrangedFinds ==
    ASSUME NEW E, NEW events \in Seq(E), NEW p, NEW q, Rearranged(p, events, q)
    PROVE  unmatched_involuntary(q) = {i \in 1..Len(events) : p[i] \in unmatched_involuntary(events)}
<1>1. PICK n : n = Len(events)
  OBVIOUS
<1>2. n \in Nat
  BY <1>1
<1>3. p \in [1..n -> 1..n] /\ (\A k \in 1..n : \E i \in 1..n : p[i] = k) /\ q = [i \in 1..n |-> events[p[i]]]
  BY <1>1 DEF Rearranged
<1>4. Len(q) = n
  BY <1>2, <1>3
<1>5. \A i \in 1..n : p[i] \in 1..n /\ q[i] = events[p[i]]
  BY <1>3
<1>6. {q[i].ts : i \in 1..n} = {events[i].ts : i \in 1..n}
  <2>1. \A i \in 1..n : q[i].ts \in {events[k].ts : k \in 1..n}
    BY <1>5
  <2>2. ASSUME NEW k \in 1..n PROVE events[k].ts \in {q[i].ts : i \in 1..n}
    <3>1. PICK i \in 1..n : p[i] = k
      BY <1>3
    <3>2. q[i].ts = events[k].ts
      BY <1>5, <3>1
    <3> QED BY <3>2
  <2> QED BY <2>1, <2>2
<1>7. RunStart(q) = RunStart(events)
  BY <1>1, <1>4, <1>6 DEF RunStart
<1>8. \A i : i \in Observed(q) <=> i \in 1..n /\ p[i] \in Observed(events)
  BY <1>1, <1>4, <1>5 DEF Observed
<1>9. \A i \in 1..n : Learning(q, i) <=> Learning(events, p[i])
  BY <1>5, <1>7 DEF Learning
<1>10. \A i \in 1..n : Declared(q, i) <=> Declared(events, p[i])
  <2> SUFFICES ASSUME NEW i \in 1..n PROVE Declared(q, i) <=> Declared(events, p[i])
    OBVIOUS
  <2>1. PICK R : R = {k \in 1..n : /\ events[k].kind \notin INVOLUNTARY
                                   /\ _matches(involuntary_signature(events[p[i]]), voluntary_produces(events[k]))
                                   /\ Distance(events[k].ts, events[p[i]].ts) <= WindowMs}
    OBVIOUS
  <2>2. Declared(events, p[i]) <=> \E k \in 1..n : k \in R
    BY <1>1, <2>1 DEF Declared
  <2>3. Declared(q, i) <=> \E k \in 1..n : p[k] \in R
    BY <1>4, <1>5, <2>1 DEF Declared
  <2> QED BY <1>3, <1>5, <2>2, <2>3
<1>11. PICK B : B = {involuntary_signature(events[i]) : i \in {k \in Observed(events) : Learning(events, k)}}
  OBVIOUS
<1>12. {involuntary_signature(q[i]) : i \in {k \in Observed(q) : Learning(q, k)}} = B
  <2>1. ASSUME NEW i \in Observed(q), Learning(q, i) PROVE involuntary_signature(q[i]) \in B
    <3>1. i \in 1..n /\ p[i] \in Observed(events) /\ Learning(events, p[i]) /\ q[i] = events[p[i]]
      BY <1>5, <1>8, <1>9, <2>1
    <3> QED BY <1>11, <3>1
  <2>2. ASSUME NEW k \in Observed(events), Learning(events, k)
        PROVE  \E i \in Observed(q) : Learning(q, i) /\ involuntary_signature(q[i]) = involuntary_signature(events[k])
    <3>1. k \in 1..n
      BY <1>1 DEF Observed
    <3>2. PICK i \in 1..n : p[i] = k
      BY <1>3, <3>1
    <3> QED BY <1>5, <1>8, <1>9, <2>2, <3>2
  <2> QED BY <1>11, <2>1, <2>2
<1>13. \A i : i \in unmatched_involuntary(q) <=> /\ i \in Observed(q) /\ ~Learning(q, i)
                                                 /\ involuntary_signature(q[i]) \notin B /\ ~Declared(q, i)
  BY <1>12 DEF unmatched_involuntary
<1>14. \A i : i \in unmatched_involuntary(events) <=> /\ i \in Observed(events) /\ ~Learning(events, i)
                                                      /\ involuntary_signature(events[i]) \notin B /\ ~Declared(events, i)
  BY <1>11 DEF unmatched_involuntary
<1>15. \A i : i \in unmatched_involuntary(q) <=> i \in 1..n /\ p[i] \in unmatched_involuntary(events)
  BY <1>5, <1>8, <1>9, <1>10, <1>13, <1>14
<1> QED BY <1>1, <1>15

\* Where the events of the run are a sequence, the order of their arrival changes no finding.
LEMMA ArrivalOrder ==
    ASSUME NEW E, audited.events \in Seq(E)
    PROVE  ArrivalOrderIrrelevant
<1>1. PICK events, found : events = audited.events /\ found = analyze(events)
  OBVIOUS
<1>2. PICK N : N = DOMAIN events
  OBVIOUS
<1>3. N = 1..Len(events) /\ events \in Seq(E)
  BY <1>1, <1>2
<1> SUFFICES ASSUME NEW p \in Bijection(N, N)
             PROVE  analyze([i \in N |-> events[p[i]]]) = [i \in {k \in N : p[k] \in DOMAIN found} |-> found[p[i]]]
  BY <1>1, <1>2 DEF ArrivalOrderIrrelevant
<1>4. PICK q : q = [i \in N |-> events[p[i]]]
  OBVIOUS
<1>5. p \in [N -> N] /\ \A k \in N : \E i \in N : p[i] = k
  BY DEF Bijection, Surjection
<1>6. Rearranged(p, events, q)
  BY <1>3, <1>4, <1>5 DEF Rearranged
<1>7. PICK U : U = unmatched_involuntary(events)
  OBVIOUS
<1>8. unmatched_involuntary(q) = {i \in N : p[i] \in U}
  BY <1>3, <1>6, <1>7, RearrangedFinds
<1>9. found = [i \in U |-> _classify(events[i])]
  BY <1>1, <1>7 DEF analyze
<1>10. analyze(q) = [i \in {k \in N : p[k] \in U} |-> _classify(q[i])]
  BY <1>8 DEF analyze
<1>11. \A i \in {k \in N : p[k] \in U} : _classify(q[i]) = found[p[i]]
  BY <1>4, <1>9
<1>12. DOMAIN found = U
  BY <1>9
<1>13. analyze(q) = [i \in {k \in N : p[k] \in U} |-> found[p[i]]]
  BY <1>10, <1>11
<1> QED BY <1>4, <1>12, <1>13

-----------------------------------------------------------------------------
\* A verdict is one result, with a percentage when the judge's is one.
WellFormed(v, j) == v.result \in VerdictResults /\ (j.confidence \in 0..100 => v.confidence \in 0..100)

\* A verdict with a result of the three and a confidence in range is well formed.
LEMMA VerdictIs ==
    ASSUME NEW d, NEW c, NEW r, NEW n, NEW j, r \in VerdictResults, j.confidence \in 0..100 => n \in 0..100,
           NEW v, v = Verdict(d, c, r, n)
    PROVE  WellFormed(v, j)
BY DEF WellFormed, Verdict

\* Larger of two percentages, and the rest to a hundred.
LEMMA Percentages ==
    ASSUME NEW n \in 0..100
    PROVE  /\ 100 - n \in 0..100 /\ Larger(n, 85) \in 0..100 /\ Larger(n, 80) \in 0..100 /\ Larger(n, 50) \in 0..100
           /\ Larger(55, 100 - n) \in 0..100
           /\ Larger(n, 0) \in 0..100 /\ Larger(0, 0) \in 0..100 /\ Larger(0, 85) \in 0..100
BY DEF Larger

\* The judged detectors.
LEMMA JudgedWellFormed ==
    ASSUME NEW t, NEW j,
           NEW v \in Asi01(t, j) \cup Asi06(t, FALSE, j) \cup Asi09(t, j) \cup Asi10(t, j) \cup InstructionFollowing(t, j)
    PROVE  WellFormed(v, j)
<1>1. PICK n : n = j.confidence
  OBVIOUS
<1>2. n \in 0..100 => /\ 100 - n \in 0..100 /\ Larger(n, 85) \in 0..100 /\ Larger(n, 80) \in 0..100 /\ Larger(n, 50) \in 0..100
                      /\ Larger(55, 100 - n) \in 0..100
                      /\ Larger(n, 0) \in 0..100 /\ Larger(0, 0) \in 0..100 /\ Larger(0, 85) \in 0..100
  BY Percentages
<1>3. "VIOLATION" \in VerdictResults /\ "OK" \in VerdictResults /\ "NEEDS_REVIEW" \in VerdictResults
  BY DEF VerdictResults
<1>4. 99 \in 0..100 /\ 70 \in 0..100 /\ 90 \in 0..100
  OBVIOUS
<1>5. CASE v \in Asi01(t, j)
  <2>1. \E r \in {"VIOLATION", "OK", "NEEDS_REVIEW"} : \E m \in {Larger(n, 85), n, 70, Larger(n, 50), 100 - n} :
            v = Verdict("asi01_goal_hijack", "ASI01", r, m)
    BY <1>1, <1>5 DEF Asi01
  <2> QED BY <1>1, <1>2, <1>3, <1>4, <2>1, VerdictIs
<1>6. CASE v \in Asi06(t, FALSE, j)
  <2>1. \E r \in {"VIOLATION", "OK", "NEEDS_REVIEW"} : \E m \in {99, Larger(n, 80), Larger(n, 50), 100 - n} :
            v = Verdict("asi06_memory_poisoning", "ASI06", r, m)
    BY <1>1, <1>6 DEF Asi06
  <2> QED BY <1>1, <1>2, <1>3, <1>4, <2>1, VerdictIs
<1>7. CASE v \in Asi09(t, j)
  <2>1. \E r \in {"VIOLATION", "OK", "NEEDS_REVIEW"} : \E m \in {n, Larger(n, 80), Larger(n, 50), 100 - n} :
            v = Verdict("asi09_trust_exploit", "ASI09", r, m)
    BY <1>1, <1>7 DEF Asi09
  <2> QED BY <1>1, <1>2, <1>3, <1>4, <2>1, VerdictIs
<1>8. CASE v \in Asi10(t, j)
  <2>1. \E r \in {"VIOLATION", "OK", "NEEDS_REVIEW"} :
          \E m \in {Larger(n, 85), Larger(n, 0), Larger(0, 85), Larger(0, 0), Larger(n, 50), 100 - n} :
            v = Verdict("asi10_rogue_agent", "ASI10", r, m)
    BY <1>1, <1>8 DEF Asi10
  <2> QED BY <1>1, <1>2, <1>3, <1>4, <2>1, VerdictIs
<1>9. CASE v \in InstructionFollowing(t, j)
  <2>1. \E r \in {"VIOLATION", "OK", "NEEDS_REVIEW"} : \E m \in {90, n, Larger(55, 100 - n), 100 - n} :
            v = Verdict("instruction_following", "INSTRUCTION_FOLLOWING", r, m)
    BY <1>1, <1>9 DEF InstructionFollowing
  <2> QED BY <1>1, <1>2, <1>3, <1>4, <2>1, VerdictIs
<1> QED BY <1>5, <1>6, <1>7, <1>8, <1>9

\* All of them.
LEMMA VerdictsWellFormed ==
    ASSUME NEW t, NEW j, NEW v \in Verdicts(t, j)
    PROVE  WellFormed(v, j)
<1>1. CASE v \in Asi01(t, j) \cup Asi06(t, FALSE, j) \cup Asi09(t, j) \cup Asi10(t, j) \cup InstructionFollowing(t, j)
  BY <1>1, JudgedWellFormed
<1>2. CASE v \in Asi02(t) \cup Asi03(t) \cup Asi04(t) \cup Asi05(t) \cup Asi07(t) \cup Asi08(t)
  <2>1. \E d, c : \E r \in {"VIOLATION", "OK"} : \E n \in {95, 97, 99, 98, 90, 100} : v = Verdict(d, c, r, n)
    <3>1. CASE v \in Asi02(t)
      <4>1. v = Verdict("asi02_tool_misuse", "ASI02", "VIOLATION", 95) \/ v = Verdict("asi02_tool_misuse", "ASI02", "OK", 100)
        BY <3>1 DEF Asi02, Ruled
      <4> QED BY <4>1
    <3>2. CASE v \in Asi03(t)
      <4>1. v = Verdict("asi03_identity_abuse", "ASI03", "VIOLATION", 97) \/ v = Verdict("asi03_identity_abuse", "ASI03", "OK", 100)
        BY <3>2 DEF Asi03, Ruled
      <4> QED BY <4>1
    <3>3. CASE v \in Asi04(t)
      <4>1. v = Verdict("asi04_supply_chain", "ASI04", "VIOLATION", 99) \/ v = Verdict("asi04_supply_chain", "ASI04", "OK", 100)
        BY <3>3 DEF Asi04, Ruled
      <4> QED BY <4>1
    <3>4. CASE v \in Asi05(t)
      <4>1. v = Verdict("asi05_code_execution", "ASI05", "VIOLATION", 98) \/ v = Verdict("asi05_code_execution", "ASI05", "OK", 100)
        BY <3>4 DEF Asi05, Ruled
      <4> QED BY <4>1
    <3>5. CASE v \in Asi07(t)
      <4>1. v = Verdict("asi07_inter_agent", "ASI07", "VIOLATION", 97) \/ v = Verdict("asi07_inter_agent", "ASI07", "OK", 100)
        BY <3>5 DEF Asi07, Ruled
      <4> QED BY <4>1
    <3>6. CASE v \in Asi08(t)
      <4>1. v = Verdict("asi08_cascading", "ASI08", "VIOLATION", 90) \/ v = Verdict("asi08_cascading", "ASI08", "OK", 100)
        BY <3>6 DEF Asi08, Ruled
      <4> QED BY <4>1
    <3> QED BY <1>2, <3>1, <3>2, <3>3, <3>4, <3>5, <3>6
  <2>2. \A n \in {95, 97, 99, 98, 90, 100} : n \in 0..100
    OBVIOUS
  <2>3. \A r \in {"VIOLATION", "OK"} : r \in VerdictResults
    BY DEF VerdictResults
  <2> QED BY <2>1, <2>2, <2>3, VerdictIs
<1> QED BY <1>1, <1>2 DEF Verdicts

-----------------------------------------------------------------------------
\* The catalog: what is published has a hash, and so the check compares the two functions.
LEMMA CatalogCompares ==
    ASSUME NEW m, NEW f, m = [x \in DOMAIN m |-> m[x]], f = [x \in DOMAIN f |-> f[x]],
           \A x \in DOMAIN m : m[x] \notin Unhashable
    PROVE  (verify_catalog_integrity(m, f) = {}) <=> (m = f)
<1>1. ASSUME verify_catalog_integrity(m, f) = {} PROVE m = f
  <2>1. DOMAIN m \ DOMAIN f = {} /\ DOMAIN f \ DOMAIN m = {}
    <3>1. ASSUME NEW x \in DOMAIN m \ DOMAIN f PROVE FALSE
      <4>1. <<x, "removed">> \in {<<z, "removed">> : z \in DOMAIN m \ DOMAIN f}
        BY <3>1
      <4> QED BY <1>1, <4>1 DEF verify_catalog_integrity
    <3>2. ASSUME NEW x \in DOMAIN f \ DOMAIN m PROVE FALSE
      <4>1. <<x, "added">> \in {<<z, "added">> : z \in DOMAIN f \ DOMAIN m}
        BY <3>2
      <4> QED BY <1>1, <4>1 DEF verify_catalog_integrity
    <3> QED BY <3>1, <3>2
  <2>2. ASSUME NEW x \in DOMAIN m PROVE f[x] = m[x]
    <3>1. x \in DOMAIN m \cap DOMAIN f
      BY <2>1
    <3>2. ASSUME f[x] \in Unhashable PROVE FALSE
      <4>1. <<x, f[x]>> \in {<<z, f[z]>> : z \in {y \in DOMAIN m \cap DOMAIN f : f[y] \in Unhashable}}
        BY <3>1, <3>2
      <4> QED BY <1>1, <4>1 DEF verify_catalog_integrity
    <3>3. ASSUME f[x] \notin Unhashable, f[x] # m[x] PROVE FALSE
      <4>1. <<x, "modified">> \in {<<z, "modified">> : z \in {y \in DOMAIN m \cap DOMAIN f : f[y] \notin Unhashable /\ f[y] # m[y]}}
        BY <3>1, <3>3
      <4> QED BY <1>1, <4>1 DEF verify_catalog_integrity
    <3> QED BY <3>2, <3>3
  <2>3. DOMAIN m = DOMAIN f
    BY <2>1
  <2> QED BY <2>2, <2>3
<1>2. ASSUME m = f PROVE verify_catalog_integrity(m, f) = {}
  BY <1>2 DEF verify_catalog_integrity
<1> QED BY <1>1, <1>2

-----------------------------------------------------------------------------
\* The events of a run, as the parts emit them.
Emitted(p) == UNION {Alphabet(p, n) : n \in 1..MaxEvents(p)}
FromAlphabet(p, events) ==
    /\ events \in Seq(Emitted(p)) /\ Len(events) <= MaxEvents(p)
    /\ \A n \in 1..Len(events) : events[n] \in Alphabet(p, n)
TraceOK ==
    /\ subject \in Parts
    /\ audited = Trace(audited.goal, audited.events, audited.meta)
    /\ FromAlphabet(subject, audited.events)

\* The next event of a run.
LEMMA EmitDoes ==
    ASSUME TraceOK, Emit
    PROVE  /\ TraceOK'
           /\ audited'.meta = audited.meta
           /\ \E e \in Emitted(subject) : audited'.events = Append(audited.events, e)
<1>1. PICK e \in Alphabet(subject, Len(audited.events) + 1) : audited' = [audited EXCEPT !.events = Append(@, e)]
  BY DEF Emit
<1>2. PICK g, ev, m : g = audited.goal /\ ev = audited.events /\ m = audited.meta
  OBVIOUS
<1>3. audited = [goal |-> g, events |-> ev, meta |-> m]
  BY <1>2 DEF TraceOK, Trace
<1>4. PICK nv : nv = Append(ev, e)
  OBVIOUS
<1>5. audited' = [goal |-> g, events |-> nv, meta |-> m]
  <2>1. audited' = [audited EXCEPT !.events = nv]
    BY <1>1, <1>2, <1>4
  <2> QED BY <1>3, <2>1
<1>6. subject' = subject /\ subject \in Parts /\ Len(ev) < MaxEvents(subject)
  BY <1>2 DEF Emit, TraceOK
<1>7. FromAlphabet(subject, ev)
  BY <1>2 DEF TraceOK
<1>8. ev \in Seq(Emitted(subject)) /\ Len(ev) \in Nat /\ MaxEvents(subject) \in Nat
  BY <1>6, <1>7, AlphabetAssumption DEF FromAlphabet
<1>9. e \in Emitted(subject)
  <2>1. Len(ev) + 1 \in 1..MaxEvents(subject)
    BY <1>6, <1>8
  <2> QED BY <1>1, <1>2, <2>1 DEF Emitted
<1>10. nv \in Seq(Emitted(subject)) /\ Len(nv) = Len(ev) + 1 /\ (\A i \in 1..Len(ev) : nv[i] = ev[i]) /\ nv[Len(ev) + 1] = e
  BY <1>4, <1>8, <1>9, AppendIs
<1>11. FromAlphabet(subject, nv)
  <2>1. Len(nv) <= MaxEvents(subject)
    BY <1>6, <1>8, <1>10
  <2>2. ASSUME NEW n \in 1..Len(nv) PROVE nv[n] \in Alphabet(subject, n)
    <3>1. n \in 1..Len(ev) \/ n = Len(ev) + 1
      BY <1>8, <1>10
    <3> QED BY <1>1, <1>2, <1>7, <1>10, <3>1 DEF FromAlphabet
  <2> QED BY <1>10, <2>1, <2>2 DEF FromAlphabet
<1>12. audited'.goal = g /\ audited'.events = nv /\ audited'.meta = m
  BY <1>5
<1>13. TraceOK'
  <2>1. subject' \in Parts /\ FromAlphabet(subject', audited'.events)
    BY <1>6, <1>11, <1>12
  <2>2. audited' = Trace(audited'.goal, audited'.events, audited'.meta)
    BY <1>5, <1>12 DEF Trace
  <2> QED BY <2>1, <2>2 DEF TraceOK
<1> QED BY <1>2, <1>4, <1>9, <1>12, <1>13

-----------------------------------------------------------------------------
\* Trace u is trace t with one event more.
Longer(t, u, e) ==
    /\ u.meta = t.meta /\ u.events = Append(t.events, e)
    /\ Len(t.events) \in Nat /\ Len(u.events) = Len(t.events) + 1
    /\ \A i \in 1..Len(t.events) : u.events[i] = t.events[i]

\* What a longer trace has of a kind.
LEMMA OfGrows ==
    ASSUME NEW t, NEW u, NEW e, Longer(t, u, e), NEW k
    PROVE  \A i \in Of(t, k) : i \in Of(u, k) /\ u.events[i] = t.events[i] /\ i \in 1..Len(t.events)
<1> SUFFICES ASSUME NEW i \in Of(t, k) PROVE i \in Of(u, k) /\ u.events[i] = t.events[i] /\ i \in 1..Len(t.events)
  OBVIOUS
<1>1. i \in 1..Len(t.events) /\ t.events[i].kind = k
  BY DEF Of
<1>2. i \in 1..Len(u.events) /\ u.events[i] = t.events[i]
  BY <1>1 DEF Longer
<1> QED BY <1>1, <1>2 DEF Of

\* The texts found in a trace are found in a longer one.
LEMMA TextsGrow ==
    ASSUME NEW t, NEW u, NEW e, Longer(t, u, e), NEW k, NEW f
    PROVE  Texts(t, Of(t, k), f) \subseteq Texts(u, Of(u, k), f)
BY OfGrows DEF Texts

\* Positions of a trace are finitely many.
LEMMA PositionsFinite ==
    ASSUME NEW n \in Nat, NEW S, \A i \in S : i \in 1..n
    PROVE  IsFiniteSet(S) /\ Cardinality(S) \in Nat
<1>1. IsFiniteSet(1..n)
  BY FS_Interval
<1>2. S \in SUBSET (1..n)
  OBVIOUS
<1>3. IsFiniteSet(S)
  BY <1>1, <1>2, FS_Subset
<1> QED BY <1>3, FS_CardinalityType

\* More positions, no smaller a count.
LEMMA CountGrows ==
    ASSUME NEW n \in Nat, NEW S, NEW T, \A i \in T : i \in 1..n, \A i \in S : i \in T, NEW m \in Nat, Cardinality(S) > m
    PROVE  Cardinality(T) > m
<1>1. IsFiniteSet(T) /\ Cardinality(T) \in Nat
  BY PositionsFinite
<1>2. S \in SUBSET T
  OBVIOUS
<1>3. IsFiniteSet(S) /\ Cardinality(S) <= Cardinality(T)
  BY <1>1, <1>2, FS_Subset
<1>4. Cardinality(S) \in Nat
  BY <1>3, FS_CardinalityType
<1> QED BY <1>1, <1>3, <1>4

\* When the deterministic detectors accuse.
Unsigned(t) == FALSE \in Texts(t, Of(t, "agent.message"), "signed")
Overreach(t) == DOMAIN t.meta.capabilities # {} /\ \E i \in Starts(t) : Unpermitted(t, t.events[i])
Cascade(t) == \E i \in Errors(t) : Cardinality({k \in Errors(t) : KeyOf(t, k) = KeyOf(t, i)}) > _ERROR_K
\* When each of the six deterministic detectors says VIOLATION.
LEMMA RuledAccuses ==
    ASSUME NEW t
    PROVE  /\ Violates(Asi02(t)) <=> Starts(t) # {} /\ (_find_cycle(Adjacency(t.events)) # <<>> \/ Burst(t) \/ Chained(t))
           /\ Violates(Asi03(t)) <=> Overreach(t) \/ Unsigned(t)
           /\ Violates(Asi04(t)) <=> /\ DOMAIN t.meta.tool_catalog # {}
                                     /\ \E i \in Starts(t) : \/ t.events[i].tool \notin DOMAIN t.meta.tool_catalog
                                                             \/ t.events[i].schema_hash # t.meta.tool_catalog[t.events[i].tool]
           /\ Violates(Asi05(t)) <=> \/ Texts(t, Of(t, "syscall.execve"), "value") \ _DEFAULT_EXECVE_ALLOWLIST # {}
                                     \/ \E i \in Starts(t) : t.events[i].tool \in _CODE_EXEC_TOOLS /\ t.events[i].purpose = {}
           /\ Violates(Asi07(t)) <=> Unsigned(t)
           /\ Violates(Asi08(t)) <=> Cascade(t)
<1>1. \A d, c, n : Verdict(d, c, "VIOLATION", n).result = "VIOLATION" /\ Verdict(d, c, "OK", n).result = "OK"
  BY DEF Verdict
<1>2. Violates(Asi02(t)) <=> Starts(t) # {} /\ (_find_cycle(Adjacency(t.events)) # <<>> \/ Burst(t) \/ Chained(t))
  BY <1>1 DEF Violates, Asi02, Ruled
<1>3. Violates(Asi03(t)) <=> Overreach(t) \/ Unsigned(t)
  <2>1. Asi03(t) = {IF Overreach(t) \/ Unsigned(t) THEN Verdict("asi03_identity_abuse", "ASI03", "VIOLATION", 97)
                    ELSE Verdict("asi03_identity_abuse", "ASI03", "OK", 100)}
    BY Zenon DEF Asi03, Ruled, Overreach, Unsigned
  <2> QED BY <1>1, <2>1 DEF Violates
<1>4. Violates(Asi04(t)) <=> /\ DOMAIN t.meta.tool_catalog # {}
                             /\ \E i \in Starts(t) : \/ t.events[i].tool \notin DOMAIN t.meta.tool_catalog
                                                     \/ t.events[i].schema_hash # t.meta.tool_catalog[t.events[i].tool]
  BY <1>1 DEF Violates, Asi04, Ruled
<1>5. Violates(Asi05(t)) <=> \/ Texts(t, Of(t, "syscall.execve"), "value") \ _DEFAULT_EXECVE_ALLOWLIST # {}
                             \/ \E i \in Starts(t) : t.events[i].tool \in _CODE_EXEC_TOOLS /\ t.events[i].purpose = {}
  BY <1>1 DEF Violates, Asi05, Ruled
<1>6. Violates(Asi07(t)) <=> Unsigned(t)
  <2>1. Of(t, "agent.message") = {} => ~Unsigned(t)
    BY DEF Texts, Unsigned
  <2>2. Asi07(t) = IF Of(t, "agent.message") = {} THEN {}
                   ELSE {IF Unsigned(t) THEN Verdict("asi07_inter_agent", "ASI07", "VIOLATION", 97)
                         ELSE Verdict("asi07_inter_agent", "ASI07", "OK", 100)}
    BY Zenon DEF Asi07, Ruled, Unsigned
  <2> QED BY <1>1, <2>1, <2>2 DEF Violates
<1>7. Violates(Asi08(t)) <=> Cascade(t)
  <2>1. Errors(t) = {} => ~Cascade(t)
    BY DEF Cascade
  <2>2. Asi08(t) = IF Errors(t) = {} THEN {}
                   ELSE {IF Cascade(t) THEN Verdict("asi08_cascading", "ASI08", "VIOLATION", 90)
                         ELSE Verdict("asi08_cascading", "ASI08", "OK", 100)}
    BY Zenon DEF Asi08, Ruled, Cascade
  <2> QED BY <1>1, <2>1, <2>2 DEF Violates
<1> QED BY <1>2, <1>3, <1>4, <1>5, <1>6, <1>7

\* More calls of a tool, the chains, the calls without permission, the unsigned messages: none goes away.
LEMMA EvidenceGrows ==
    ASSUME NEW t, NEW u, NEW e, Longer(t, u, e)
    PROVE  /\ Starts(t) # {} => Starts(u) # {}
           /\ Burst(t) => Burst(u)
           /\ Chained(t) => Chained(u)
           /\ Overreach(t) => Overreach(u)
           /\ Unsigned(t) => Unsigned(u)
<1>1. \A i \in Starts(t) : i \in Starts(u) /\ u.events[i] = t.events[i] /\ i \in 1..Len(t.events)
  BY OfGrows DEF Starts
<1>2. Starts(t) # {} => Starts(u) # {}
  BY <1>1
<1>3. ASSUME Burst(t) PROVE Burst(u)
  <2>1. PICK tool \in Texts(t, Starts(t), "tool") : Cardinality({i \in Starts(t) : t.events[i].tool = tool}) > _MAX_SAME_TOOL
    BY <1>3 DEF Burst
  <2>2. tool \in Texts(u, Starts(u), "tool")
    BY <1>1, <2>1 DEF Texts
  <2>3. PICK S : S = {i \in Starts(t) : t.events[i].tool = tool}
    OBVIOUS
  <2>4. PICK T : T = {i \in Starts(u) : u.events[i].tool = tool}
    OBVIOUS
  <2>5. \A i \in S : i \in T
    BY <1>1, <2>3, <2>4
  <2>6. PICK n : n = Len(u.events)
    OBVIOUS
  <2>7. n \in Nat
    BY <2>6 DEF Longer
  <2>8. \A i \in T : i \in 1..n
    BY <2>4, <2>6 DEF Starts, Of
  <2>9. PICK m : m = _MAX_SAME_TOOL
    OBVIOUS
  <2>10. m \in Nat /\ Cardinality(S) > m
    BY <2>1, <2>3, <2>9, DetectorsAssumption
  <2>11. Cardinality(T) > m
    BY <2>5, <2>7, <2>8, <2>10, CountGrows
  <2> QED BY <2>2, <2>4, <2>9, <2>11 DEF Burst
<1>4. Chained(t) => Chained(u)
  BY <1>1 DEF Chained
<1>5. ASSUME Overreach(t) PROVE Overreach(u)
  <2>1. PICK i \in Starts(t) : Unpermitted(t, t.events[i])
    BY <1>5 DEF Overreach
  <2>2. u.meta = t.meta
    BY DEF Longer
  <2>3. Unpermitted(u, u.events[i])
    BY <1>1, <2>1, <2>2 DEF Unpermitted
  <2> QED BY <1>1, <1>5, <2>2, <2>3 DEF Overreach
<1>6. Unsigned(t) => Unsigned(u)
  <2>1. Texts(t, Of(t, "agent.message"), "signed") \subseteq Texts(u, Of(u, "agent.message"), "signed")
    BY TextsGrow
  <2> QED BY Zenon, <2>1 DEF Unsigned
<1> QED BY <1>2, <1>3, <1>4, <1>5, <1>6

\* The greatest of some positions is one of them.
LEMMA GreatestMember ==
    ASSUME NEW n \in Nat, NEW S, \A i \in S : i \in 1..n, S # {}
    PROVE  Max(S) \in S
<1>1. PICK T : T = {m \in Nat : \A R \in SUBSET (1..m) : R # {} => \E x \in R : \A y \in R : x >= y}
  OBVIOUS
<1>2. 0 \in T
  <2>1. \A R \in SUBSET (1..0) : R = {}
    OBVIOUS
  <2> QED BY <1>1, <2>1
<1>3. ASSUME NEW m \in Nat, m \in T PROVE m + 1 \in T
  <2> SUFFICES ASSUME NEW R \in SUBSET (1..m + 1), R # {} PROVE \E x \in R : \A y \in R : x >= y
    BY <1>1
  <2>1. CASE m + 1 \in R
    <3>1. \A y \in R : m + 1 >= y
      OBVIOUS
    <3> QED BY <2>1, <3>1
  <2>2. CASE m + 1 \notin R
    <3>1. R \in SUBSET (1..m)
      BY <2>2
    <3> QED BY <1>1, <1>3, <3>1
  <2> QED BY <2>1, <2>2
<1>4. n \in T
  BY <1>2, <1>3, EveryNumber
<1>5. S \in SUBSET (1..n)
  OBVIOUS
<1>6. \E x \in S : \A y \in S : x >= y
  BY <1>1, <1>4, <1>5
<1> QED BY <1>6 DEF Max

\* The tool of a call that has ended stays the same, and so the errors are counted under the same key.
LEMMA KeysStay ==
    ASSUME NEW t, NEW u, NEW e, Longer(t, u, e), EndsFollow(u.events), NEW i \in Errors(t)
    PROVE  KeyOf(u, i) = KeyOf(t, i)
<1>1. i \in Of(t, "tool_call.end")
  BY DEF Errors
<1>2. i \in 1..Len(t.events) /\ t.events[i].kind = "tool_call.end" /\ u.events[i] = t.events[i]
  BY <1>1, OfGrows DEF Of
<1>3. PICK c : c = t.events[i].call
  OBVIOUS
<1>4. {k \in Starts(u) : u.events[k].span = c} = {k \in Starts(t) : t.events[k].span = c}
  <2>1. \A k \in Starts(t) : k \in Starts(u) /\ u.events[k] = t.events[k]
    BY OfGrows DEF Starts
  <2>2. ASSUME NEW k \in Starts(u), u.events[k].span = c PROVE k \in Starts(t) /\ t.events[k].span = c
    <3>1. k \in 1..Len(u.events) /\ u.events[k].kind = "tool_call.start"
      BY DEF Starts, Of
    <3>2. CASE k \in 1..Len(t.events)
      <4>1. u.events[k] = t.events[k]
        BY <3>2 DEF Longer
      <4> QED BY <2>2, <3>1, <3>2, <4>1 DEF Starts, Of
    <3>3. CASE k \notin 1..Len(t.events)
      <4>1. Len(t.events) \in Nat /\ Len(u.events) = Len(t.events) + 1
        BY DEF Longer
      <4>2. i \in 1..Len(u.events) /\ i < k
        BY <1>2, <3>1, <3>3, <4>1
      <4>3. u.events[i].kind = "tool_call.end" /\ u.events[i].call = c
        BY <1>2, <1>3
      <4> QED BY <2>2, <3>1, <4>1, <4>2, <4>3 DEF EndsFollow
    <3> QED BY <3>2, <3>3
  <2> QED BY <2>1, <2>2
<1>5. PICK named : named = {k \in Starts(t) : t.events[k].span = c}
  OBVIOUS
<1>6. ToolOf(t, c) = IF named = {} THEN "<unknown>" ELSE t.events[Max(named)].tool
  BY <1>5 DEF ToolOf
<1>7. ToolOf(u, c) = IF named = {} THEN "<unknown>" ELSE u.events[Max(named)].tool
  BY <1>4, <1>5 DEF ToolOf
<1>8. ASSUME named # {} PROVE u.events[Max(named)] = t.events[Max(named)]
  <2>1. \A k \in named : k \in 1..Len(t.events)
    BY <1>5 DEF Starts, Of
  <2>2. Len(t.events) \in Nat
    BY DEF Longer
  <2>4. Max(named) \in named
    BY <1>8, <2>1, <2>2, GreatestMember
  <2> QED BY <2>1, <2>4 DEF Longer
<1>9. ToolOf(u, c) = ToolOf(t, c)
  BY <1>6, <1>7, <1>8
<1> QED BY <1>2, <1>3, <1>9 DEF KeyOf

\* A cascade of errors remains one.
LEMMA CascadeGrows ==
    ASSUME NEW t, NEW u, NEW e, Longer(t, u, e), EndsFollow(u.events), Cascade(t)
    PROVE  Cascade(u)
<1>1. \A i \in Errors(t) : i \in Errors(u)
  BY OfGrows DEF Errors
<1>2. PICK i \in Errors(t) : Cardinality({k \in Errors(t) : KeyOf(t, k) = KeyOf(t, i)}) > _ERROR_K
  BY DEF Cascade
<1>3. PICK S : S = {k \in Errors(t) : KeyOf(t, k) = KeyOf(t, i)}
  OBVIOUS
<1>4. PICK T : T = {k \in Errors(u) : KeyOf(u, k) = KeyOf(u, i)}
  OBVIOUS
<1>5. \A k \in Errors(t) : KeyOf(u, k) = KeyOf(t, k)
  BY KeysStay
<1>6. \A k \in S : k \in T
  BY <1>1, <1>3, <1>4, <1>5
<1>7. PICK n : n = Len(u.events)
  OBVIOUS
<1>8. n \in Nat
  BY <1>7 DEF Longer
<1>9. \A k \in T : k \in 1..n
  BY <1>4, <1>7 DEF Errors, Of
<1>10. PICK m : m = _ERROR_K
  OBVIOUS
<1>11. m \in Nat /\ Cardinality(S) > m
  BY <1>2, <1>3, <1>10 DEF _ERROR_K
<1>12. Cardinality(T) > m
  BY <1>6, <1>8, <1>9, <1>11, CountGrows
<1>13. i \in Errors(u)
  BY <1>1
<1> QED BY <1>4, <1>10, <1>12, <1>13 DEF Cascade

\* A violation found in a trace is found in the trace that is one event longer.
LEMMA ViolationsKept ==
    ASSUME NEW E, NEW t, NEW u, NEW e \in E, t.events \in Seq(E), Longer(t, u, e)
    PROVE  /\ NoneMissed(Adjacency(u.events)) /\ Violates(Asi02(t)) => Violates(Asi02(u))
           /\ Violates(Asi03(t)) => Violates(Asi03(u))
           /\ Violates(Asi04(t)) => Violates(Asi04(u))
           /\ Violates(Asi05(t)) => Violates(Asi05(u))
           /\ Violates(Asi07(t)) => Violates(Asi07(u))
           /\ EndsFollow(u.events) /\ Violates(Asi08(t)) => Violates(Asi08(u))
<1>1. ASSUME NoneMissed(Adjacency(u.events)), Violates(Asi02(t)) PROVE Violates(Asi02(u))
  <2>1. Starts(t) # {} /\ (_find_cycle(Adjacency(t.events)) # <<>> \/ Burst(t) \/ Chained(t))
    BY <1>1, RuledAccuses
  <2>2. Starts(u) # {} /\ (Burst(t) => Burst(u)) /\ (Chained(t) => Chained(u))
    BY <2>1, EvidenceGrows
  <2>3. ASSUME _find_cycle(Adjacency(t.events)) # <<>> PROVE _find_cycle(Adjacency(u.events)) # <<>>
    <3>1. PICK ev : ev = t.events
      OBVIOUS
    <3>2. u.events = Append(ev, e) /\ NoneMissed(Adjacency(Append(ev, e))) /\ ev \in Seq(E)
      BY <1>1, <3>1 DEF Longer
    <3>3. _find_cycle(Adjacency(Append(ev, e))) # <<>>
      BY <2>3, <3>1, <3>2, CycleStays
    <3> QED BY <3>2, <3>3
  <2> QED BY <2>1, <2>2, <2>3, RuledAccuses
<1>2. ASSUME Violates(Asi03(t)) PROVE Violates(Asi03(u))
  <2>1. Overreach(t) \/ Unsigned(t)
    BY <1>2, RuledAccuses
  <2>2. Overreach(u) \/ Unsigned(u)
    BY <2>1, EvidenceGrows
  <2> QED BY <2>2, RuledAccuses
<1>3. \A i \in Starts(t) : i \in Starts(u) /\ u.events[i] = t.events[i]
  BY OfGrows DEF Starts
<1>4. ASSUME Violates(Asi04(t)) PROVE Violates(Asi04(u))
  <2>1. /\ DOMAIN t.meta.tool_catalog # {}
        /\ \E i \in Starts(t) : \/ t.events[i].tool \notin DOMAIN t.meta.tool_catalog
                                \/ t.events[i].schema_hash # t.meta.tool_catalog[t.events[i].tool]
    BY <1>4, RuledAccuses
  <2>2. u.meta = t.meta
    BY DEF Longer
  <2>3. /\ DOMAIN u.meta.tool_catalog # {}
        /\ \E i \in Starts(u) : \/ u.events[i].tool \notin DOMAIN u.meta.tool_catalog
                                \/ u.events[i].schema_hash # u.meta.tool_catalog[u.events[i].tool]
    BY <1>3, <2>1, <2>2
  <2> QED BY <2>3, RuledAccuses
<1>5. ASSUME Violates(Asi05(t)) PROVE Violates(Asi05(u))
  <2>1. \/ Texts(t, Of(t, "syscall.execve"), "value") \ _DEFAULT_EXECVE_ALLOWLIST # {}
        \/ \E i \in Starts(t) : t.events[i].tool \in _CODE_EXEC_TOOLS /\ t.events[i].purpose = {}
    BY <1>5, RuledAccuses
  <2>2. Texts(t, Of(t, "syscall.execve"), "value") \subseteq Texts(u, Of(u, "syscall.execve"), "value")
    BY TextsGrow
  <2>3. \/ Texts(u, Of(u, "syscall.execve"), "value") \ _DEFAULT_EXECVE_ALLOWLIST # {}
        \/ \E i \in Starts(u) : u.events[i].tool \in _CODE_EXEC_TOOLS /\ u.events[i].purpose = {}
    BY <1>3, <2>1, <2>2
  <2> QED BY <2>3, RuledAccuses
<1>6. Violates(Asi07(t)) => Violates(Asi07(u))
  BY EvidenceGrows, RuledAccuses
<1>7. EndsFollow(u.events) /\ Violates(Asi08(t)) => Violates(Asi08(u))
  BY CascadeGrows, RuledAccuses
<1> QED BY <1>1, <1>2, <1>4, <1>5, <1>6, <1>7

\* A step that changes the trace is Emit.
LEMMA StepKeepsViolations ==
    ASSUME TraceOK, DetectorNext, audited' # audited
    PROVE  /\ NoneMissed(Adjacency(audited'.events)) /\ Violates(Asi02(audited)) => Violates(Asi02(audited'))
           /\ Violates(Asi03(audited)) => Violates(Asi03(audited'))
           /\ Violates(Asi04(audited)) => Violates(Asi04(audited'))
           /\ Violates(Asi05(audited)) => Violates(Asi05(audited'))
           /\ Violates(Asi07(audited)) => Violates(Asi07(audited'))
           /\ EndsFollow(audited'.events) /\ Violates(Asi08(audited)) => Violates(Asi08(audited'))
<1>1. Emit
  BY DEF DetectorNext, WriteEntry, ReadEntry, WalkChain, Calibrate, publish, ChangeFiles, Observe, observe, traceVars
<1>2. PICK t, u : t = audited /\ u = audited'
  OBVIOUS
<1>3. PICK E : E = Emitted(subject)
  OBVIOUS
<1>4. PICK e \in E : u.events = Append(t.events, e)
  BY <1>1, <1>2, <1>3, EmitDoes
<1>5. u.meta = t.meta
  BY <1>1, <1>2, EmitDoes
<1>6. t.events \in Seq(E)
  BY <1>2, <1>3 DEF TraceOK, FromAlphabet
<1>7. PICK ev, nv : ev = t.events /\ nv = u.events
  OBVIOUS
<1>8. Len(ev) \in Nat /\ Len(nv) = Len(ev) + 1 /\ \A i \in 1..Len(ev) : nv[i] = ev[i]
  BY <1>4, <1>6, <1>7, AppendIs
<1>9. Longer(t, u, e)
  BY <1>4, <1>5, <1>7, <1>8 DEF Longer
<1> QED BY <1>2, <1>6, <1>9, ViolationsKept

-----------------------------------------------------------------------------
\* Arithmetic of the running mean and deviations.
LEMMA CancelFactor ==
    ASSUME NEW n \in Int, n > 0, NEW x \in Int, NEW y \in Int, n * x = n * y
    PROVE  x = y
<1>1. n * (x - y) = 0
  OBVIOUS
<1>2. x - y \in Int
  OBVIOUS
<1>3. \A z \in Int : n * z = 0 => z = 0
  OBVIOUS
<1>4. x - y = 0
  BY <1>1, <1>2, <1>3
<1> QED BY <1>4

\* Welford's mean times the count is the sum, one value later.
LEMMA MeanStep ==
    ASSUME NEW a \in Int, NEW b \in Int, NEW n \in Int, NEW s \in Int, NEW x \in Int, a * n = s * b
    PROVE  (a * (b * (n + 1)) + (x * b - a) * b) * (n + 1) = (s + x) * (b * (b * (n + 1)))
<1>1. (a * (b * (n + 1)) + (x * b - a) * b) * (n + 1) = b * (a * n + x * b) * (n + 1)
  OBVIOUS
<1>2. b * (a * n + x * b) * (n + 1) = b * (s * b + x * b) * (n + 1)
  OBVIOUS
<1>3. b * (s * b + x * b) * (n + 1) = (s + x) * (b * (b * (n + 1)))
  OBVIOUS
<1> QED BY <1>1, <1>2, <1>3

\* The new deviation from the new mean.
LEMMA DeviationStep ==
    ASSUME NEW a \in Int, NEW b \in Int, NEW n \in Int, NEW x \in Int
    PROVE  x * (b * (b * (n + 1))) - (a * (b * (n + 1)) + (x * b - a) * b) = b * n * (x * b - a)
OBVIOUS

\* Welford's m2 times the count is the spread, one value later.
LEMMA SpreadStep ==
    ASSUME NEW a \in Int, NEW b \in Int, NEW c \in Int, NEW d \in Int, NEW n \in Int, n > 0, NEW s \in Int, NEW q \in Int, NEW x \in Int,
           a * n = s * b, c * n = (n * q - s * s) * d
    PROVE  (c * (b * (b * (b * (n + 1)))) + (x * b - a) * (b * n * (x * b - a)) * d) * (n + 1)
             = ((n + 1) * (q + x * x) - (s + x) * (s + x)) * (d * (b * (b * (b * (n + 1)))))
<1>1. PICK p \in Int : p = x * b - a
  OBVIOUS
<1>2. n * p = b * (n * x - s)
  <2>1. n * p = x * b * n - a * n
    BY <1>1
  <2>2. n * p = x * b * n - s * b
    BY <2>1
  <2> QED BY <2>2
<1>3. PICK v \in Int : v = n * q - s * s
  OBVIOUS
<1>4. PICK k \in Int : k = n * x - s
  OBVIOUS
<1>5. PICK w \in Int : w = (n + 1) * (q + x * x) - (s + x) * (s + x)
  OBVIOUS
<1>6. n * w = (n + 1) * v + k * k
  BY <1>3, <1>4, <1>5
<1>7. n * p = b * k /\ n * c = v * d
  BY <1>2, <1>3, <1>4
<1>8. PICK l \in Int : l = (c * (b * (b * (b * (n + 1)))) + p * (b * n * p) * d) * (n + 1)
  OBVIOUS
<1>9. PICK r \in Int : r = w * (d * (b * (b * (b * (n + 1)))))
  OBVIOUS
<1>10. n * l = ((n * c) * (b * (b * (b * (n + 1)))) + (n * p) * (n * p) * (b * d)) * (n + 1)
  BY <1>8
<1>11. n * l = ((v * d) * (b * (b * (b * (n + 1)))) + (b * k) * (b * k) * (b * d)) * (n + 1)
  BY <1>7, <1>10
<1>12. n * l = ((n + 1) * v + k * k) * (d * (b * (b * (b * (n + 1)))))
  BY <1>11
<1>13. n * r = (n * w) * (d * (b * (b * (b * (n + 1)))))
  BY <1>9
<1>14. n * l = n * r
  BY <1>6, <1>12, <1>13
<1>15. l = r
  BY <1>14, CancelFactor
<1> QED BY <1>1, <1>5, <1>8, <1>9, <1>15

\* One more value: the sum of squares still dominates.
LEMMA CauchyStep ==
    ASSUME NEW m \in Nat, NEW s \in Int, NEW q \in Int, NEW x \in Int, q >= 0, m * q >= s * s
    PROVE  q + x * x >= 0 /\ (m + 1) * (q + x * x) >= (s + x) * (s + x)
<1>1. x * x >= 0
  OBVIOUS
<1>2. PICK y \in Int : y = q + m * (x * x) - 2 * (s * x)
  OBVIOUS
<1>3. (m + 1) * (q + x * x) - (s + x) * (s + x) = (m * q - s * s) + y
  BY <1>2
<1>4. y >= 0
  <2>1. CASE m = 0
    <3>1. s * s <= 0
      BY <2>1
    <3>2. s = 0
      BY <3>1
    <3> QED BY <1>2, <2>1, <3>2
  <2>2. CASE m > 0
    <3>1. m * y = (m * q - s * s) + (s - m * x) * (s - m * x)
      BY <1>2
    <3>2. \A z \in Int : z * z >= 0
      OBVIOUS
    <3>3. s - m * x \in Int
      OBVIOUS
    <3>4. (s - m * x) * (s - m * x) >= 0
      BY <3>2, <3>3
    <3>5. m * y >= 0
      BY <3>1, <3>4
    <3> QED BY <2>2, <3>5
  <2> QED BY <2>1, <2>2
<1>5. PICK l, r : l = (m + 1) * (q + x * x) /\ r = (s + x) * (s + x)
  OBVIOUS
<1>6. l \in Int /\ r \in Int /\ m * q - s * s \in Int /\ m * q - s * s >= 0
  BY <1>5
<1>7. l - r = (m * q - s * s) + y
  BY <1>3, <1>5
<1>8. l >= r
  BY <1>4, <1>6, <1>7
<1> QED BY <1>1, <1>5, <1>8

\* A value of at most ten is within three deviations of their mean.
LEMMA WithinThree ==
    ASSUME NEW a \in Int, NEW b \in Int, NEW c \in Int, NEW d \in Int, NEW n \in Nat, n >= 2, n <= 10,
           NEW s \in Int, NEW q \in Int, NEW x \in Int, b > 0, d > 0, c > 0,
           a * n = s * b, c * n = (n * q - s * s) * d,
           (n - 1) * (q - x * x) >= (s - x) * (s - x)
    PROVE  (x * b - a) * (x * b - a) * (n - 1) * d <= 9 * c * b * b
<1>1. PICK p \in Int : p = x * b - a
  OBVIOUS
<1>2. PICK k \in Int : k = n * x - s
  OBVIOUS
<1>3. PICK v \in Int : v = n * q - s * s
  OBVIOUS
<1>4. n * p = b * k
  <2>1. n * p = x * b * n - a * n
    BY <1>1
  <2>2. n * p = x * b * n - s * b
    BY <2>1
  <2> QED BY <1>2, <2>2
<1>5. n * c = v * d
  BY <1>3
<1>6. k * k <= (n - 1) * v
  <2>1. (n - 1) * v - k * k = n * ((n - 1) * (q - x * x) - (s - x) * (s - x))
    BY <1>2, <1>3
  <2>2. PICK z \in Int : z = (n - 1) * (q - x * x) - (s - x) * (s - x)
    OBVIOUS
  <2>3. z >= 0
    BY <2>2
  <2>4. n * z >= 0
    BY <2>3
  <2>5. PICK l \in Int : l = (n - 1) * v
    OBVIOUS
  <2>6. PICK r \in Int : r = k * k
    OBVIOUS
  <2>7. l - r >= 0
    BY <2>1, <2>2, <2>4, <2>5, <2>6
  <2>8. r <= l
    BY <2>7
  <2> QED BY <2>5, <2>6, <2>8
<1>7. v >= 0
  <2>1. n * c > 0
    OBVIOUS
  <2>2. v * d > 0
    BY <1>5, <2>1
  <2> QED BY <2>2
<1>8. (n - 1) * (n - 1) <= 9 * n
  <2>1. n = 2 \/ n = 3 \/ n = 4 \/ n = 5 \/ n = 6 \/ n = 7 \/ n = 8 \/ n = 9 \/ n = 10
    OBVIOUS
  <2> QED BY <2>1
<1>9. k * k * (n - 1) <= 9 * n * v
  <2>1. PICK r \in Int : r = k * k
    OBVIOUS
  <2>2. PICK m \in Int : m = n - 1
    OBVIOUS
  <2>3. PICK l \in Int : l = m * v
    OBVIOUS
  <2>4. r <= l /\ m >= 0
    BY <1>6, <2>1, <2>2, <2>3
  <2>5. r * m <= l * m
    BY <2>4
  <2>6. l * m = (m * m) * v
    BY <2>3
  <2>7. PICK e \in Int : e = m * m
    OBVIOUS
  <2>8. e <= 9 * n
    BY <1>8, <2>2, <2>7
  <2>9. PICK f \in Int : f = 9 * n
    OBVIOUS
  <2>10. e * v <= f * v
    BY <1>7, <2>8, <2>9
  <2>11. r * m <= f * v
    BY <2>5, <2>6, <2>7, <2>10
  <2> QED BY <2>1, <2>2, <2>9, <2>11
<1>10. PICK l \in Int : l = p * p * (n - 1) * d
  OBVIOUS
<1>11. PICK r \in Int : r = 9 * c * b * b
  OBVIOUS
<1>12. n * n * l = (n * p) * (n * p) * ((n - 1) * d)
  BY <1>10
<1>13. n * n * l = (b * k) * (b * k) * ((n - 1) * d)
  BY <1>4, <1>12
<1>14. n * n * l = (k * k * (n - 1)) * (b * b * d)
  BY <1>13
<1>15. n * n * r = (n * c) * (9 * n * b * b)
  BY <1>11
<1>16. n * n * r = (v * d) * (9 * n * b * b)
  BY <1>5, <1>15
<1>17. n * n * r = (9 * n * v) * (b * b * d)
  BY <1>16
<1>18. n * n * l <= n * n * r
  <2>1. PICK e \in Int : e = b * b * d
    OBVIOUS
  <2>2. b * b > 0
    OBVIOUS
  <2>3. e >= 0
    BY <2>1, <2>2
  <2>4. PICK y \in Int : y = k * k * (n - 1)
    OBVIOUS
  <2>5. PICK z \in Int : z = 9 * n * v
    OBVIOUS
  <2>6. y <= z
    BY <1>9, <2>4, <2>5
  <2>7. y * e <= z * e
    BY <2>3, <2>6
  <2> QED BY <1>14, <1>17, <2>1, <2>4, <2>5, <2>7
<1>19. l <= r
  <2>1. PICK e \in Int : e = n * n
    OBVIOUS
  <2>2. e > 0
    BY <2>1
  <2>3. e * l <= e * r
    BY <1>18, <2>1
  <2>4. e * (r - l) >= 0
    BY <2>3
  <2>5. \A z \in Int : e * z >= 0 => z >= 0
    BY <2>2
  <2>6. r - l >= 0
    BY <2>4, <2>5
  <2> QED BY <2>6
<1> QED BY <1>1, <1>10, <1>11, <1>19

-----------------------------------------------------------------------------
\* The sum of a sequence, value by value.
Sums(h, v) == h \in [0..Len(v) -> Int] /\ h[0] = 0 /\ \A i \in 1..Len(v) : h[i] = h[i - 1] + v[i]
\* Total adds the values up one after the other.
LEMMA TotalIs ==
    ASSUME NEW v \in Seq(Int)
    PROVE  \E h : Sums(h, v) /\ Total(v) = h[Len(v)]
<1>1. PICK N : N = Len(v)
  OBVIOUS
<1>2. N \in Nat /\ \A i \in 1..N : v[i] \in Int
  BY <1>1
<1>3. PICK f : f = [p \in (1..N) \X Int |-> p[2] + v[p[1]]]
  OBVIOUS
<1>4. ASSUME NEW i \in 1..N, NEW y \in Int PROVE f[<<i, y>>] = y + v[i] /\ f[<<i, y>>] \in Int
  <2>1. y + v[i] \in Int
    BY <1>2
  <2>2. f[<<i, y>>] = y + v[i]
    BY <1>3
  <2> QED BY <2>1, <2>2
<1>5. \E h : h = [i \in 0..N |-> IF i = 0 THEN 0 ELSE h[i - 1] + v[i]]
  <2>1. PICK h : Loop(h, N, Int, 0, f)
    <3>1. PICK S, z : S = Int /\ z = 0
      OBVIOUS
    <3>2. z \in S /\ \A i \in 1..N : \A y \in S : f[<<i, y>>] \in S
      BY <1>4, <3>1
    <3>3. \E h : Loop(h, N, S, z, f)
      BY <1>2, <3>2, LoopExists
    <3> QED BY <3>1, <3>3
  <2>2. h \in [0..N -> Int] /\ h[0] = 0 /\ \A i \in 1..N : h[i] = f[<<i, h[i - 1]>>]
    BY <2>1 DEF Loop
  <2>3. ASSUME NEW i \in 0..N PROVE h[i] = IF i = 0 THEN 0 ELSE h[i - 1] + v[i]
    <3>1. CASE i # 0
      <4>1. i \in 1..N /\ i - 1 \in 0..N
        BY <1>2, <3>1
      <4>2. h[i - 1] \in Int /\ h[i] = f[<<i, h[i - 1]>>]
        BY <2>2, <4>1
      <4> QED BY <1>4, <3>1, <4>1, <4>2
    <3> QED BY <2>2, <3>1
  <2>4. h = [i \in 0..N |-> IF i = 0 THEN 0 ELSE h[i - 1] + v[i]]
    BY <2>2, <2>3
  <2> QED BY <2>4
<1>6. PICK h : h = CHOOSE sum : sum = [i \in 0..N |-> IF i = 0 THEN 0 ELSE sum[i - 1] + v[i]]
  OBVIOUS
<1>7. h = [i \in 0..N |-> IF i = 0 THEN 0 ELSE h[i - 1] + v[i]]
  BY <1>5, <1>6
<1>8. Total(v) = h[N]
  BY <1>1, <1>6 DEF Total
<1>9. h[0] = 0 /\ \A i \in 1..N : h[i] = h[i - 1] + v[i]
  <2>1. 0 \in 0..N
    BY <1>2
  <2>2. \A i \in 1..N : i \in 0..N /\ i # 0
    BY <1>2
  <2> QED BY <1>7, <2>1, <2>2
<1>10. PICK T : T = {n \in Nat : n <= N => h[n] \in Int}
  OBVIOUS
<1>11. 0 \in T
  BY <1>9, <1>10
<1>12. ASSUME NEW n \in Nat, n \in T PROVE n + 1 \in T
  <2> SUFFICES ASSUME n + 1 <= N PROVE h[n + 1] \in Int
    BY <1>10
  <2>1. n <= N /\ n + 1 \in 1..N /\ (n + 1) - 1 = n
    BY <1>2
  <2>2. h[n] \in Int /\ v[n + 1] \in Int /\ h[n + 1] = h[n] + v[n + 1]
    BY <1>2, <1>9, <1>10, <1>12, <2>1
  <2> QED BY <2>2
<1>13. \A n \in Nat : n \in T
  BY <1>11, <1>12, EveryNumber
<1>14. h \in [0..N -> Int]
  <2>1. \A n \in 0..N : h[n] \in Int
    BY <1>2, <1>10, <1>13
  <2>2. DOMAIN h = 0..N /\ h = [i \in 0..N |-> h[i]]
    BY <1>7
  <2> QED BY <2>1, <2>2
<1> QED BY <1>1, <1>8, <1>9, <1>14 DEF Sums

\* One value more.
LEMMA TotalGrows ==
    ASSUME NEW v \in Seq(Int), NEW w \in Seq(Int), NEW n \in Nat, Len(v) = n, Len(w) = n + 1,
           \A i \in 1..n : w[i] = v[i]
    PROVE  Total(v) \in Int /\ Total(w) = Total(v) + w[n + 1]
<1>1. PICK h : Sums(h, v) /\ Total(v) = h[n]
  BY TotalIs
<1>2. PICK k : Sums(k, w) /\ Total(w) = k[n + 1]
  BY TotalIs
<1>3. h \in [0..n -> Int] /\ h[0] = 0 /\ \A i \in 1..n : h[i] = h[i - 1] + v[i]
  BY <1>1 DEF Sums
<1>4. k \in [0..n + 1 -> Int] /\ k[0] = 0 /\ \A i \in 1..n + 1 : k[i] = k[i - 1] + w[i]
  BY <1>2 DEF Sums
<1>5. PICK T : T = {m \in Nat : m <= n => k[m] = h[m]}
  OBVIOUS
<1>6. 0 \in T
  BY <1>3, <1>4, <1>5
<1>7. ASSUME NEW m \in Nat, m \in T PROVE m + 1 \in T
  <2> SUFFICES ASSUME m + 1 <= n PROVE k[m + 1] = h[m + 1]
    BY <1>5
  <2>1. m <= n /\ m + 1 \in 1..n /\ m + 1 \in 1..n + 1 /\ (m + 1) - 1 = m
    OBVIOUS
  <2>2. k[m] = h[m]
    BY <1>5, <1>7, <2>1
  <2> QED BY <1>3, <1>4, <2>1, <2>2
<1>8. k[n] = h[n]
  <2>1. n \in T
    BY <1>6, <1>7, EveryNumber
  <2> QED BY <1>5, <2>1
<1>9. n + 1 \in 1..n + 1 /\ (n + 1) - 1 = n /\ n \in 0..n
  OBVIOUS
<1>10. k[n + 1] = k[n] + w[n + 1] /\ h[n] \in Int
  BY <1>3, <1>4, <1>9
<1> QED BY <1>1, <1>2, <1>8, <1>10

\* The sum of no values.
LEMMA TotalEmpty ==
    ASSUME NEW v \in Seq(Int), Len(v) = 0 PROVE Total(v) = 0
BY TotalIs DEF Sums

-----------------------------------------------------------------------------
\* Welford's update on the numerators and denominators.
Welford(n, a, b, c, d) == [count |-> n, mean |-> <<a, b>>, m2 |-> <<c, d>>]
Updated(n, a, b, c, d, x, e, f, g, h) ==
    /\ n \in Int /\ a \in Int /\ b \in Int /\ c \in Int /\ d \in Int /\ x \in Int
    /\ e \in Int /\ f \in Int /\ g \in Int /\ h \in Int
    /\ e = a * (b * (n + 1)) + (x * b - a) * b
    /\ f = b * (b * (n + 1))
    /\ g = c * (b * f) + (x * b - a) * (x * f - e) * d
    /\ h = d * (b * f)
Moved(n, a, b, c, d, x, e, f, g, h) == update(Welford(n, a, b, c, d), x) = Welford(n + 1, e, f, g, h)
\* update on the numerators and denominators of mean and m2.
LEMMA UpdateIs ==
    ASSUME NEW n, NEW a, NEW b, NEW c, NEW d, NEW x, NEW e, NEW f, NEW g1, NEW h1,
           Updated(n, a, b, c, d, x, e, f, g1, h1)
    PROVE  Moved(n, a, b, c, d, x, e, f, g1, h1)
<1> /\ n \in Int /\ a \in Int /\ b \in Int /\ c \in Int /\ d \in Int /\ x \in Int
    /\ e \in Int /\ f \in Int /\ g1 \in Int /\ h1 \in Int
  BY DEF Updated
<1>0. e = a * (b * (n + 1)) + (x * b - a) * b /\ f = b * (b * (n + 1))
  BY DEF Updated
<1>1. PICK r : r = Welford(n, a, b, c, d)
  OBVIOUS
<1>2. r.count = n /\ r.mean = <<a, b>> /\ r.m2 = <<c, d>>
  BY <1>1 DEF Welford
<1>3. Minus(<<x, 1>>, <<a, b>>) = <<x * b - a, b>>
  BY DEF Minus
<1>4. PICK p \in Int : p = x * b - a
  OBVIOUS
<1>5. Plus(<<a, b>>, <<p, b * (n + 1)>>) = <<e, f>>
  BY <1>0, <1>4 DEF Plus
<1>6. Minus(<<x, 1>>, <<e, f>>) = <<x * f - e, f>>
  BY DEF Minus
<1>7. PICK g \in Int : g = x * f - e
  OBVIOUS
<1>8. Times(<<p, b>>, <<g, f>>) = <<p * g, b * f>>
  BY DEF Times
<1>9. Plus(<<c, d>>, <<p * g, b * f>>) = <<c * (b * f) + p * g * d, d * (b * f)>>
  BY DEF Plus
<1>10. PICK delta : delta = Minus(<<x, 1>>, r.mean)
  OBVIOUS
<1>11. delta = <<p, b>> /\ delta[1] = p /\ delta[2] = b
  BY <1>2, <1>3, <1>4, <1>10
<1>12. PICK mean : mean = Plus(r.mean, <<delta[1], delta[2] * (r.count + 1)>>)
  OBVIOUS
<1>13. mean = <<e, f>>
  BY <1>2, <1>5, <1>11, <1>12
<1>14. PICK m2 : m2 = Plus(r.m2, Times(delta, Minus(<<x, 1>>, mean)))
  OBVIOUS
<1>15. m2 = <<c * (b * f) + p * g * d, d * (b * f)>>
  BY <1>2, <1>6, <1>7, <1>8, <1>9, <1>11, <1>13, <1>14
<1>16. update(r, x) = [count |-> r.count + 1, mean |-> mean, m2 |-> m2]
  BY <1>10, <1>12, <1>14 DEF update
<1>17. update(r, x) = [count |-> n + 1, mean |-> <<e, f>>, m2 |-> <<c * (b * f) + p * g * d, d * (b * f)>>]
  BY <1>2, <1>13, <1>15, <1>16
<1>18. g1 = c * (b * f) + p * g * d /\ h1 = d * (b * f)
  BY <1>4, <1>7 DEF Updated
<1> QED BY <1>1, <1>17, <1>18 DEF Welford, Moved

\* What the accumulator is, of n values with sum s and sum of squares q.
Exact(n, s, q, a, b, c, d) ==
    /\ b > 0 /\ d > 0 /\ a * n = s * b /\ c * n = (n * q - s * s) * d
    /\ n = 0 => a = 0 /\ b = 1 /\ c = 0 /\ d = 1 /\ s = 0 /\ q = 0
Spread(v, n, s, q) ==
    /\ q >= 0 /\ n * q >= s * s
    /\ \A i \in 1..n : q - v[i] * v[i] >= 0 /\ (n - 1) * (q - v[i] * v[i]) >= (s - v[i]) * (s - v[i])
\* An accumulator that is exact is exact after update.
LEMMA ExactStep ==
    ASSUME NEW n \in Nat, NEW s \in Int, NEW q \in Int, NEW a \in Int, NEW b \in Int, NEW c \in Int, NEW d \in Int,
           NEW x \in Int, Exact(n, s, q, a, b, c, d)
    PROVE  \E e, f, g, h \in Int : /\ update(Welford(n, a, b, c, d), x) = Welford(n + 1, e, f, g, h)
                                   /\ Exact(n + 1, s + x, q + x * x, e, f, g, h)
<1>1. PICK e \in Int : e = a * (b * (n + 1)) + (x * b - a) * b
  OBVIOUS
<1>2. PICK f \in Int : f = b * (b * (n + 1))
  OBVIOUS
<1>3. PICK g \in Int : g = c * (b * f) + (x * b - a) * (x * f - e) * d
  OBVIOUS
<1>4. PICK h \in Int : h = d * (b * f)
  OBVIOUS
<1>5. update(Welford(n, a, b, c, d), x) = Welford(n + 1, e, f, g, h)
  <2>1. Updated(n, a, b, c, d, x, e, f, g, h)
    BY <1>1, <1>2, <1>3, <1>4 DEF Updated
  <2>2. Moved(n, a, b, c, d, x, e, f, g, h)
    BY <2>1, UpdateIs
  <2> QED BY <2>2 DEF Moved
<1>6. b > 0 /\ d > 0 /\ a * n = s * b /\ c * n = (n * q - s * s) * d
  BY DEF Exact
<1>7. e * (n + 1) = (s + x) * f
  BY <1>1, <1>2, <1>6, MeanStep
<1>8. f > 0 /\ h > 0
  <2>1. b * (n + 1) > 0
    BY <1>6
  <2>2. f > 0
    BY <1>2, <1>6, <2>1
  <2>3. b * f > 0
    BY <1>6, <2>2
  <2> QED BY <1>4, <1>6, <2>2, <2>3
<1>9. g * (n + 1) = ((n + 1) * (q + x * x) - (s + x) * (s + x)) * h
  <2>1. CASE n = 0
    <3>1. a = 0 /\ b = 1 /\ c = 0 /\ d = 1 /\ s = 0 /\ q = 0
      BY <2>1 DEF Exact
    <3>2. f = 1 /\ e = x /\ h = 1
      BY <1>1, <1>2, <1>4, <2>1, <3>1
    <3>3. g = 0
      BY <1>3, <3>1, <3>2
    <3> QED BY <2>1, <3>1, <3>2, <3>3
  <2>2. CASE n > 0
    <3>1. x * f - e = b * n * (x * b - a)
      BY <1>1, <1>2, DeviationStep
    <3>2. (c * (b * (b * (b * (n + 1)))) + (x * b - a) * (b * n * (x * b - a)) * d) * (n + 1)
             = ((n + 1) * (q + x * x) - (s + x) * (s + x)) * (d * (b * (b * (b * (n + 1)))))
      BY <1>6, <2>2, SpreadStep
    <3>3. g = c * (b * (b * (b * (n + 1)))) + (x * b - a) * (b * n * (x * b - a)) * d
      BY <1>2, <1>3, <3>1
    <3>4. h = d * (b * (b * (b * (n + 1))))
      BY <1>2, <1>4
    <3> QED BY <3>2, <3>3, <3>4
  <2> QED BY <2>1, <2>2
<1>10. Exact(n + 1, s + x, q + x * x, e, f, g, h)
  <2>1. n + 1 # 0
    OBVIOUS
  <2> QED BY <1>7, <1>8, <1>9, <2>1 DEF Exact
<1> QED BY <1>5, <1>10

\* n times the sum of squares dominates the square of the sum, with and without any one value.
LEMMA SpreadGrows ==
    ASSUME NEW n \in Nat, NEW s \in Int, NEW q \in Int, NEW v, NEW w, NEW x \in Int, Spread(v, n, s, q),
           \A i \in 1..n : w[i] = v[i] /\ v[i] \in Int, w[n + 1] = x
    PROVE  Spread(w, n + 1, s + x, q + x * x)
<1>1. q >= 0 /\ n * q >= s * s
  BY DEF Spread
<1>2. q + x * x >= 0 /\ (n + 1) * (q + x * x) >= (s + x) * (s + x)
  BY <1>1, CauchyStep
<1>3. ASSUME NEW i \in 1..n + 1
      PROVE  /\ (q + x * x) - w[i] * w[i] >= 0
             /\ ((n + 1) - 1) * ((q + x * x) - w[i] * w[i]) >= ((s + x) - w[i]) * ((s + x) - w[i])
  <2>1. CASE i = n + 1
    <3>1. w[i] = x
      BY <2>1
    <3>2. (q + x * x) - x * x = q /\ (s + x) - x = s /\ (n + 1) - 1 = n
      OBVIOUS
    <3> QED BY <1>1, <3>1, <3>2
  <2>2. CASE i # n + 1
    <3>1. i \in 1..n
      BY <2>2
    <3>2. PICK y \in Int : y = v[i]
      BY <3>1
    <3>3. w[i] = y
      BY <3>1, <3>2
    <3>4. q - y * y >= 0 /\ (n - 1) * (q - y * y) >= (s - y) * (s - y)
      BY <3>1, <3>2 DEF Spread
    <3>5. PICK m \in Nat : m = n - 1
      BY <3>1
    <3>6. PICK k \in Int : k = q - y * y
      OBVIOUS
    <3>7. PICK z \in Int : z = s - y
      OBVIOUS
    <3>8. k >= 0 /\ m * k >= z * z
      BY <3>4, <3>5, <3>6, <3>7
    <3>9. k + x * x >= 0 /\ (m + 1) * (k + x * x) >= (z + x) * (z + x)
      BY <3>8, CauchyStep
    <3>10. k + x * x = (q + x * x) - y * y /\ z + x = (s + x) - y /\ m + 1 = (n + 1) - 1
      BY <3>5, <3>6, <3>7
    <3> QED BY <3>3, <3>9, <3>10
  <2> QED BY <2>1, <2>2
<1> QED BY <1>2, <1>3 DEF Spread

\* The baseline of one axis after its observations.
Squares(v) == [i \in 1..Len(v) |-> v[i] * v[i]]
BaseOK ==
    /\ observed \in Seq(Int)
    /\ Spread(observed, Len(observed), Total(observed), Total(Squares(observed)))
    /\ \E a, b, c, d \in Int : /\ running = Welford(Len(observed), a, b, c, d)
                               /\ Exact(Len(observed), Total(observed), Total(Squares(observed)), a, b, c, d)

\* The squares of the observations, one by one.
LEMMA SquaresIn ==
    ASSUME NEW v \in Seq(Int)
    PROVE  Squares(v) \in Seq(Int) /\ Len(Squares(v)) = Len(v) /\ \A i \in 1..Len(v) : Squares(v)[i] = v[i] * v[i]
<1>1. PICK n, w : n = Len(v) /\ w = Squares(v)
  OBVIOUS
<1>2. n \in Nat /\ \A i \in 1..n : v[i] \in Int
  BY <1>1
<1>3. w = [i \in 1..n |-> v[i] * v[i]]
  BY <1>1 DEF Squares
<1>4. \A i \in 1..n : v[i] * v[i] \in Int
  BY <1>2
<1>5. w \in [1..n -> Int]
  BY <1>3, <1>4
<1>6. w \in Seq(Int) /\ Len(w) = n
  BY <1>2, <1>5
<1> QED BY <1>1, <1>3, <1>6

\* An axis without observations.
LEMMA BaseInitOK ==
    ASSUME running = _Running, observed = <<>> PROVE BaseOK
<1>1. PICK v, w : v = <<>> /\ w = Squares(v)
  OBVIOUS
<1>2. v \in Seq(Int) /\ Len(v) = 0
  BY <1>1
<1>3. w \in Seq(Int) /\ Len(w) = 0
  BY <1>1, <1>2, SquaresIn
<1>4. Total(v) = 0 /\ Total(w) = 0
  BY <1>2, <1>3, TotalEmpty
<1>5. running = Welford(0, 0, 1, 0, 1)
  BY DEF _Running, Welford
<1>6. Exact(0, 0, 0, 0, 1, 0, 1)
  BY DEF Exact
<1>7. Spread(v, 0, 0, 0)
  BY DEF Spread
<1>8. observed = v
  BY <1>1
<1>9. Spread(observed, Len(observed), Total(observed), Total(Squares(observed)))
  BY <1>1, <1>2, <1>4, <1>7, <1>8
<1>10. running = Welford(Len(observed), 0, 1, 0, 1) /\ Exact(Len(observed), Total(observed), Total(Squares(observed)), 0, 1, 0, 1)
  BY <1>1, <1>2, <1>4, <1>5, <1>6, <1>8
<1>11. 0 \in Int /\ 1 \in Int
  OBVIOUS
<1>12. \E a, b, c, d \in Int : /\ running = Welford(Len(observed), a, b, c, d)
                               /\ Exact(Len(observed), Total(observed), Total(Squares(observed)), a, b, c, d)
  BY <1>10, <1>11
<1> QED BY <1>2, <1>8, <1>9, <1>12 DEF BaseOK

\* observe keeps the accumulator exact.
LEMMA ObserveKeepsBase ==
    ASSUME BaseOK, NEW x \in Int, running' = update(running, x), observed' = Append(observed, x)
    PROVE  BaseOK'
<1>1. PICK v, w, n : v = observed /\ w = observed' /\ n = Len(v)
  OBVIOUS
<1>2. v \in Seq(Int) /\ n \in Nat
  BY <1>1 DEF BaseOK
<1>3. w \in Seq(Int) /\ Len(w) = n + 1 /\ (\A i \in 1..n : w[i] = v[i] /\ v[i] \in Int) /\ w[n + 1] = x
  <2>1. w = Append(v, x)
    BY <1>1
  <2>2. w \in Seq(Int) /\ Len(w) = n + 1 /\ (\A i \in 1..n : w[i] = v[i]) /\ w[n + 1] = x
    BY <1>1, <1>2, <2>1, AppendIs
  <2> QED BY <1>1, <1>2, <2>2
<1>4. PICK s, q : s = Total(v) /\ q = Total(Squares(v))
  OBVIOUS
<1>5. s \in Int /\ Total(w) = s + x
  <2>1. \A i \in 1..n : w[i] = v[i]
    BY <1>3
  <2>2. Len(v) = n
    BY <1>1
  <2>3. Total(v) \in Int /\ Total(w) = Total(v) + w[n + 1]
    BY <1>2, <1>3, <2>1, <2>2, TotalGrows
  <2> QED BY <1>3, <1>4, <2>3
<1>6. q \in Int /\ Total(Squares(w)) = q + x * x
  <2>1. PICK vv, ww : vv = Squares(v) /\ ww = Squares(w)
    OBVIOUS
  <2>2. vv \in Seq(Int) /\ Len(vv) = n /\ \A i \in 1..n : vv[i] = v[i] * v[i]
    BY <1>1, <1>2, <2>1, SquaresIn
  <2>3. ww \in Seq(Int) /\ Len(ww) = n + 1 /\ \A i \in 1..n + 1 : ww[i] = w[i] * w[i]
    BY <1>3, <2>1, SquaresIn
  <2>4. \A i \in 1..n : ww[i] = vv[i]
    <3> SUFFICES ASSUME NEW i \in 1..n PROVE ww[i] = vv[i]
      OBVIOUS
    <3>1. i \in 1..n + 1
      BY <1>2
    <3>2. w[i] = v[i]
      BY <1>3
    <3>3. ww[i] = w[i] * w[i]
      BY <2>3, <3>1
    <3>4. vv[i] = v[i] * v[i]
      BY <2>2
    <3> QED BY <3>2, <3>3, <3>4
  <2>5. Total(vv) \in Int /\ Total(ww) = Total(vv) + ww[n + 1]
    BY <1>2, <2>2, <2>3, <2>4, TotalGrows
  <2>6. ww[n + 1] = x * x
    <3>1. n + 1 \in 1..n + 1
      BY <1>2
    <3> QED BY <1>3, <2>3, <3>1
  <2> QED BY <1>4, <2>1, <2>5, <2>6
<1>7. Spread(v, n, s, q)
  BY <1>1, <1>4 DEF BaseOK
<1>8. Spread(w, n + 1, s + x, q + x * x)
  BY <1>2, <1>3, <1>5, <1>6, <1>7, SpreadGrows
<1>9. \E a, b, c, d \in Int : running = Welford(n, a, b, c, d) /\ Exact(n, s, q, a, b, c, d)
  BY <1>1, <1>4 DEF BaseOK
<1>10. PICK a, b, c, d \in Int : running = Welford(n, a, b, c, d) /\ Exact(n, s, q, a, b, c, d)
  BY <1>9
<1>11. PICK e, f, g, h \in Int : /\ update(Welford(n, a, b, c, d), x) = Welford(n + 1, e, f, g, h)
                                 /\ Exact(n + 1, s + x, q + x * x, e, f, g, h)
  BY <1>2, <1>5, <1>6, <1>10, ExactStep
<1>12. running' = Welford(n + 1, e, f, g, h)
  BY <1>10, <1>11
<1>13. \E i, j, k, l \in Int : /\ running' = Welford(Len(w), i, j, k, l)
                               /\ Exact(Len(w), Total(w), Total(Squares(w)), i, j, k, l)
  BY <1>3, <1>5, <1>6, <1>11, <1>12
<1>14. Spread(w, Len(w), Total(w), Total(Squares(w)))
  BY <1>3, <1>5, <1>6, <1>8
<1>15. (observed \in Seq(Int))'
  BY <1>1, <1>3
<1>16. Spread(observed, Len(observed), Total(observed), Total(Squares(observed)))'
  BY <1>1, <1>14
<1>17. (\E i, j, k, l \in Int : /\ running = Welford(Len(observed), i, j, k, l)
                               /\ Exact(Len(observed), Total(observed), Total(Squares(observed)), i, j, k, l))'
  BY <1>1, <1>13
<1> QED BY <1>15, <1>16, <1>17 DEF BaseOK

\* What the invariant says of the mean, the deviations and the drift.
LEMMA BaseExact ==
    ASSUME BaseOK PROVE BaselineExact /\ running.count = Len(observed)
<1>1. PICK v, n, s, q : v = observed /\ n = Len(v) /\ s = Total(v) /\ q = Total(Squares(v))
  OBVIOUS
<1>2. v \in Seq(Int) /\ n \in Nat /\ \A i \in 1..n : v[i] \in Int
  BY <1>1 DEF BaseOK
<1>3. \E a, b, c, d \in Int : running = Welford(n, a, b, c, d) /\ Exact(n, s, q, a, b, c, d)
  BY <1>1 DEF BaseOK
<1>4. PICK a, b, c, d \in Int : running = Welford(n, a, b, c, d) /\ Exact(n, s, q, a, b, c, d)
  BY <1>3
<1>5. Spread(v, n, s, q)
  BY <1>1 DEF BaseOK
<1>6. running.count = n /\ running.mean = <<a, b>> /\ running.m2 = <<c, d>>
  BY <1>4 DEF Welford
<1>7. running.mean[1] = a /\ running.mean[2] = b /\ running.m2[1] = c /\ running.m2[2] = d
  BY <1>6
<1>8. b > 0 /\ d > 0 /\ a * n = s * b /\ c * n = (n * q - s * s) * d
  BY <1>4 DEF Exact
<1>9. s \in Int /\ q \in Int
  <2>1. \A u \in Seq(Int) : Total(u) \in Int
    <3> SUFFICES ASSUME NEW u \in Seq(Int) PROVE Total(u) \in Int
      OBVIOUS
    <3>1. PICK h : Sums(h, u) /\ Total(u) = h[Len(u)]
      BY TotalIs
    <3>2. Len(u) \in 0..Len(u)
      OBVIOUS
    <3> QED BY <3>1, <3>2 DEF Sums
  <2> QED BY <1>1, <1>2, <2>1, SquaresIn
<1>10. ASSUME n <= 10, NEW i \in 1..n, _baseline_drift(running, v[i]) PROVE FALSE
  <2>1. PICK x \in Int : x = v[i]
    BY <1>2
  <2>2. PICK z : z = Minus(<<x, 1>>, running.mean)
    OBVIOUS
  <2>3. z[1] = x * b - a /\ z[2] = b
    BY <1>6, <2>2 DEF Minus
  <2>4. /\ running.count >= 2 /\ running.m2[1] > 0
        /\ z[1] * z[1] * (running.count - 1) * running.m2[2] > Z_THRESHOLD * Z_THRESHOLD * running.m2[1] * z[2] * z[2]
    BY <1>10, <2>1, <2>2 DEF _baseline_drift
  <2>5. n >= 2 /\ c > 0 /\ (x * b - a) * (x * b - a) * (n - 1) * d > Z_THRESHOLD * Z_THRESHOLD * c * b * b
    BY <1>6, <1>7, <2>3, <2>4
  <2>6. Z_THRESHOLD * Z_THRESHOLD * c * b * b = 9 * c * b * b
    BY DEF Z_THRESHOLD
  <2>7. (n - 1) * (q - x * x) >= (s - x) * (s - x)
    BY <1>5, <2>1 DEF Spread
  <2>8. (x * b - a) * (x * b - a) * (n - 1) * d <= 9 * c * b * b
    BY <1>2, <1>8, <1>9, <1>10, <2>5, <2>7, WithinThree
  <2>9. PICK l \in Int : l = (x * b - a) * (x * b - a) * (n - 1) * d
    BY <1>2
  <2>10. PICK r \in Int : r = 9 * c * b * b
    OBVIOUS
  <2>11. l > r /\ l <= r
    BY <2>5, <2>6, <2>8, <2>9, <2>10
  <2> QED BY <2>11
<1>11. q = Total([i \in 1..n |-> observed[i] * observed[i]])
  BY <1>1 DEF Squares
<1>12. BaselineExact
  BY <1>1, <1>7, <1>8, <1>10, <1>11 DEF BaselineExact
<1> QED BY <1>1, <1>6, <1>12

-----------------------------------------------------------------------------
\* The catalog: what is published could be read, and both manifests are functions of the tools.
CatalogOK ==
    /\ manifest = [x \in DOMAIN manifest |-> manifest[x]]
    /\ files = [x \in DOMAIN files |-> files[x]]
    /\ \A x \in DOMAIN manifest : manifest[x] \notin Unhashable

\* Nothing is published and no file is there at first.
LEMMA CatalogInitOK ==
    ASSUME manifest = NoFiles, files = NoFiles PROVE CatalogOK
<1>1. DOMAIN NoFiles = {} /\ NoFiles = [x \in DOMAIN NoFiles |-> NoFiles[x]]
  BY DEF NoFiles
<1> QED BY <1>1 DEF CatalogOK

\* publish raises when a file cannot be read.
LEMMA PublishKeepsCatalog ==
    ASSUME CatalogOK, publish PROVE CatalogOK'
<1>1. manifest' = files /\ files' = files /\ \A x \in DOMAIN files : files[x] \notin Unhashable
  BY DEF publish
<1> QED BY <1>1 DEF CatalogOK

\* Files change, and the manifest does not.
LEMMA ChangeKeepsCatalog ==
    ASSUME CatalogOK, ChangeFiles PROVE CatalogOK'
<1>1. PICK T : files' \in [T -> Contents]
  BY DEF ChangeFiles
<1>2. files' = [x \in DOMAIN files' |-> files'[x]] /\ manifest' = manifest
  BY <1>1 DEF ChangeFiles
<1> QED BY <1>2 DEF CatalogOK

-----------------------------------------------------------------------------
\* A trace with one event, and a trace with two.
LEMMA OneEvent ==
    ASSUME NEW g, NEW e, NEW m, NEW t, t = Trace(g, <<e>>, m)
    PROVE  /\ t.goal = g /\ t.meta = m /\ Len(t.events) = 1 /\ t.events[1] = e
           /\ \A k : Of(t, k) = {i \in {1} : e.kind = k}
<1>1. PICK v : v = <<e>>
  OBVIOUS
<1>2. t = [goal |-> g, events |-> v, meta |-> m]
  BY <1>1 DEF Trace
<1>3. t.goal = g /\ t.events = v /\ t.meta = m
  BY <1>2
<1>4. Len(v) = 1 /\ v[1] = e
  BY <1>1
<1>5. 1..1 = {1}
  OBVIOUS
<1>6. \A k : Of(t, k) = {i \in {1} : e.kind = k}
  BY <1>3, <1>4, <1>5 DEF Of
<1> QED BY <1>3, <1>4, <1>6

\* The same for two.
LEMMA TwoEvents ==
    ASSUME NEW g, NEW e, NEW f, NEW m, NEW t, t = Trace(g, <<e, f>>, m)
    PROVE  /\ t.goal = g /\ t.meta = m /\ t.events = <<e, f>> /\ Len(t.events) = 2
           /\ t.events[1] = e /\ t.events[2] = f
           /\ \A k, i : i \in Of(t, k) <=> (i = 1 /\ e.kind = k) \/ (i = 2 /\ f.kind = k)
<1>1. PICK v : v = <<e, f>>
  OBVIOUS
<1>2. t = [goal |-> g, events |-> v, meta |-> m]
  BY <1>1 DEF Trace
<1>3. t.goal = g /\ t.events = v /\ t.meta = m
  BY <1>2
<1>4. Len(v) = 2 /\ v[1] = e /\ v[2] = f
  BY <1>1
<1>5. 1..2 = {1, 2}
  OBVIOUS
<1>6. \A k, i : i \in Of(t, k) <=> (i = 1 /\ e.kind = k) \/ (i = 2 /\ f.kind = k)
  BY <1>3, <1>4, <1>5 DEF Of
<1> QED BY <1>1, <1>3, <1>4, <1>6

\* A call of the corpus.
LEMMA ToolIs ==
    ASSUME NEW name, NEW span, NEW agent, NEW args, NEW hash, NEW e, e = _tool(name, span, agent, args, hash)
    PROVE  /\ e.kind = "tool_call.start" /\ e.tool = name /\ e.span = span /\ e.parent = 0 /\ e.agent = agent
           /\ e.args = args /\ e.purpose = {} /\ e.schema_hash = hash
BY DEF _tool

\* A run without parent spans has no cycle.
LEMMA NoParentsNoCycle ==
    ASSUME NEW E, NEW events \in Seq(E), \A i \in 1..Len(events) : events[i].parent = 0
    PROVE  _find_cycle(Adjacency(events)) = <<>>
<1>1. PICK g : g = Adjacency(events)
  OBVIOUS
<1>2. EdgesAre(events, Len(events), g)
  BY <1>1, AdjacencyGraph
<1>3. \A x, y \in DOMAIN g.next : ~Child(g, x, y)
  <2> SUFFICES ASSUME NEW x \in DOMAIN g.next, NEW y \in DOMAIN g.next, Child(g, x, y) PROVE FALSE
    OBVIOUS
  <2>1. PICK i \in 1..Len(events) : Edge(events[i], x, y)
    BY <1>2 DEF EdgesAre
  <2> QED BY <2>1 DEF Edge
<1>4. ~HasCycle(g)
  <2> SUFFICES ASSUME NEW n \in _MIN_CYCLE_DEPTH..Len(g.nodes), NEW c \in [1..n -> DOMAIN g.next], IsCycle(g, c) PROVE FALSE
    BY DEF HasCycle
  <2>1. IsGraph(g)
    BY <1>1, AdjacencyGraph
  <2>2. Len(g.nodes) \in Nat
    BY <2>1 DEF IsGraph
  <2>3. n \in Nat /\ n >= 3 /\ 1 \in 1..n /\ 2 \in 1..n
    BY <2>2 DEF _MIN_CYCLE_DEPTH
  <2>5. c \in Seq(DOMAIN g.next) /\ Len(c) = n
    BY <2>3
  <2>6. 1 \in 1..Len(c)
    BY <2>3, <2>5
  <2>7. Child(g, c[1], c[IF 1 = Len(c) THEN 1 ELSE 1 + 1])
    BY <2>6 DEF IsCycle
  <2>8. Child(g, c[1], c[2])
    BY <2>3, <2>5, <2>7
  <2>9. c[1] \in DOMAIN g.next /\ c[2] \in DOMAIN g.next
    BY <2>3
  <2> QED BY <1>3, <2>8, <2>9
<1> QED BY <1>1, <1>4, RunCycleRight DEF Right

\* ASI02: a secret that is posted, and two calls that have nothing to do with each other.
LEMMA Separates02 ==
    Violates(Asi02(_violation_trace("ASI02"))) /\ ~Violates(Asi02(_ok_trace("ASI02")))
<1>1. Violates(Asi02(_violation_trace("ASI02")))
  <2>1. PICK e, f : e = _tool("read_secret", 1, "a", {}, "none") /\ f = _tool("http_post", 2, "b", {}, "none")
    OBVIOUS
  <2>2. PICK t : t = _violation_trace("ASI02")
    OBVIOUS
  <2>3. t = Trace({"words"}, <<e, f>>, NoMeta)
    BY <2>1, <2>2 DEF _violation_trace, _trace
  <2>4. e.kind = "tool_call.start" /\ e.tool = "read_secret" /\ f.kind = "tool_call.start" /\ f.tool = "http_post"
    BY <2>1, ToolIs
  <2>5. t.events[1] = e /\ t.events[2] = f /\ 1 \in Starts(t) /\ 2 \in Starts(t)
    BY <2>3, <2>4, TwoEvents DEF Starts
  <2>6. f.tool \in _DANGEROUS_CHAINS(e.tool)
    BY <2>4 DEF _DANGEROUS_CHAINS
  <2>7. Chained(t)
    BY <2>5, <2>6 DEF Chained
  <2> QED BY <2>2, <2>5, <2>7, RuledAccuses
<1>2. ~Violates(Asi02(_ok_trace("ASI02")))
  <2>1. PICK e, f : e = _tool("kb_search", 1, "a", {}, "none") /\ f = _tool("summarize", 2, "b", {}, "none")
    OBVIOUS
  <2>2. PICK t : t = _ok_trace("ASI02")
    OBVIOUS
  <2>3. t = Trace({"words"}, <<e, f>>, NoMeta)
    BY <2>1, <2>2 DEF _ok_trace, _trace
  <2>4. /\ e.kind = "tool_call.start" /\ e.tool = "kb_search" /\ e.span = 1 /\ e.parent = 0
        /\ f.kind = "tool_call.start" /\ f.tool = "summarize" /\ f.span = 2 /\ f.parent = 0
    BY <2>1, ToolIs
  <2>5. t.events = <<e, f>> /\ Len(t.events) = 2 /\ t.events[1] = e /\ t.events[2] = f
    BY <2>3, TwoEvents
  <2>6. \A i : i \in Starts(t) <=> i = 1 \/ i = 2
    BY <2>3, <2>4, TwoEvents DEF Starts
  <2>7. ~Chained(t)
    <3>1. e.tool \notin _DANGEROUS_CHAINS(e.tool) /\ f.tool \notin _DANGEROUS_CHAINS(e.tool)
      BY <2>4 DEF _DANGEROUS_CHAINS
    <3>2. e.tool \notin _DANGEROUS_CHAINS(f.tool) /\ f.tool \notin _DANGEROUS_CHAINS(f.tool)
      BY <2>4 DEF _DANGEROUS_CHAINS
    <3> QED BY <2>5, <2>6, <3>1, <3>2 DEF Chained
  <2>8. ~Burst(t)
    <3> SUFFICES ASSUME NEW tool, Cardinality({i \in Starts(t) : t.events[i].tool = tool}) > _MAX_SAME_TOOL PROVE FALSE
      BY DEF Burst
    <3>1. PICK S : S = {i \in Starts(t) : t.events[i].tool = tool}
      OBVIOUS
    <3>2. S = {} \/ S = {1} \/ S = {2}
      BY <2>4, <2>5, <2>6, <3>1
    <3>3. Cardinality(S) \in {0, 1}
      BY <3>2, FS_EmptySet, FS_Singleton
    <3>4. PICK m \in Nat : m = _MAX_SAME_TOOL /\ m # 0
      BY DetectorsAssumption
    <3>5. Cardinality(S) > m
      BY <3>1, <3>4
    <3> QED BY <3>3, <3>4, <3>5
  <2>9. _find_cycle(Adjacency(t.events)) = <<>>
    <3>1. PICK events : events = t.events
      OBVIOUS
    <3>2. events \in Seq({e, f})
      BY <2>5, <3>1
    <3>3. \A i \in 1..Len(events) : i = 1 \/ i = 2
      BY <2>5, <3>1
    <3>4. \A i \in 1..Len(events) : events[i].parent = 0
      BY <2>4, <2>5, <3>1, <3>3
    <3> QED BY <3>1, <3>2, <3>4, NoParentsNoCycle
  <2> QED BY <2>2, <2>7, <2>8, <2>9, RuledAccuses
<1> QED BY <1>1, <1>2

\* ASI03: a triage agent may search, and not read a secret.
LEMMA Separates03 ==
    Violates(Asi03(_violation_trace("ASI03"))) /\ ~Violates(Asi03(_ok_trace("ASI03")))
<1>1. PICK m : m = [NoMeta EXCEPT !.capabilities = [r \in {"triage"} |-> {"kb_search"}],
                                  !.agent_roles = [x \in {"a"} |-> "triage"]]
  OBVIOUS
<1>2. PICK caps, roles : caps = [r \in {"triage"} |-> {"kb_search"}] /\ roles = [x \in {"a"} |-> "triage"]
  OBVIOUS
<1>3. m.capabilities = caps /\ m.agent_roles = roles
  BY <1>1, <1>2 DEF NoMeta
<1>4. DOMAIN caps = {"triage"} /\ caps["triage"] = {"kb_search"} /\ DOMAIN roles = {"a"} /\ roles["a"] = "triage"
  BY <1>2
<1>5. ASSUME NEW tool, NEW t, t = Triage(tool) PROVE Violates(Asi03(t)) <=> tool # "kb_search"
  <2>1. PICK e : e = _tool(tool, 1, "a", {}, "none")
    OBVIOUS
  <2>2. t = Trace({"words"}, <<e>>, m)
    BY <1>1, <1>5, <2>1 DEF Triage
  <2>3. e.kind = "tool_call.start" /\ e.tool = tool /\ e.agent = "a"
    BY <2>1, ToolIs
  <2>4. t.meta = m /\ t.events[1] = e /\ Starts(t) = {1} /\ Of(t, "agent.message") = {}
    BY <2>2, <2>3, OneEvent DEF Starts
  <2>5. ~Unsigned(t)
    BY <2>4 DEF Unsigned, Texts
  <2>6. Unpermitted(t, e) <=> tool # "kb_search"
    BY <1>3, <1>4, <2>3, <2>4 DEF Unpermitted
  <2>7. Overreach(t) <=> Unpermitted(t, e)
    BY <1>3, <1>4, <2>4 DEF Overreach
  <2> QED BY <2>5, <2>6, <2>7, RuledAccuses
<1>6. _violation_trace("ASI03") = Triage("read_secret") /\ _ok_trace("ASI03") = Triage("kb_search")
  BY DEF _violation_trace, _ok_trace
<1> QED BY <1>5, <1>6

\* ASI04: the schema hash of a pinned tool.
LEMMA Separates04 ==
    Violates(Asi04(_violation_trace("ASI04"))) /\ ~Violates(Asi04(_ok_trace("ASI04")))
<1>1. PICK m, pins : m = [NoMeta EXCEPT !.tool_catalog = [x \in {"kb_search"} |-> "aa"]] /\ pins = [x \in {"kb_search"} |-> "aa"]
  OBVIOUS
<1>2. m.tool_catalog = pins /\ DOMAIN pins = {"kb_search"} /\ pins["kb_search"] = "aa"
  BY <1>1 DEF NoMeta
<1>3. ASSUME NEW hash, NEW t, t = Pinned(hash) PROVE Violates(Asi04(t)) <=> hash # "aa"
  <2>1. PICK e : e = _tool("kb_search", 1, "a", {}, hash)
    OBVIOUS
  <2>2. t = Trace({"words"}, <<e>>, m)
    BY <1>1, <1>3, <2>1 DEF Pinned
  <2>3. e.kind = "tool_call.start" /\ e.tool = "kb_search" /\ e.schema_hash = hash
    BY <2>1, ToolIs
  <2>4. t.meta = m /\ t.events[1] = e /\ Starts(t) = {1}
    BY <2>2, <2>3, OneEvent DEF Starts
  <2>5. /\ DOMAIN t.meta.tool_catalog # {}
        /\ \A i \in Starts(t) : (\/ t.events[i].tool \notin DOMAIN t.meta.tool_catalog
                                 \/ t.events[i].schema_hash # t.meta.tool_catalog[t.events[i].tool]) <=> hash # "aa"
    BY <1>2, <2>3, <2>4
  <2> QED BY <2>4, <2>5, RuledAccuses
<1>4. _violation_trace("ASI04") = Pinned("bb") /\ _ok_trace("ASI04") = Pinned("aa")
  BY DEF _violation_trace, _ok_trace
<1> QED BY <1>3, <1>4

\* ASI05: a program that is not on the list, and one that is.
LEMMA Separates05 ==
    Violates(Asi05(_violation_trace("ASI05"))) /\ ~Violates(Asi05(_ok_trace("ASI05")))
<1>1. ASSUME NEW b, NEW t, t = _trace(<<Execve(b)>>) PROVE Violates(Asi05(t)) <=> b \notin _DEFAULT_EXECVE_ALLOWLIST
  <2>1. PICK e : e = Execve(b)
    OBVIOUS
  <2>2. t = Trace({"words"}, <<e>>, NoMeta)
    BY <1>1, <2>1 DEF _trace
  <2>3. e.kind = "syscall.execve" /\ e["value"] = b
    BY <2>1 DEF Execve
  <2>4. t.events[1] = e /\ Of(t, "syscall.execve") = {1} /\ Starts(t) = {}
    BY <2>2, <2>3, OneEvent DEF Starts
  <2>5. Texts(t, Of(t, "syscall.execve"), "value") = {b}
    BY <2>3, <2>4 DEF Texts
  <2> QED BY <2>4, <2>5, RuledAccuses
<1>2. _violation_trace("ASI05") = _trace(<<Execve("/tmp/evil")>>) /\ _ok_trace("ASI05") = _trace(<<Execve("python3")>>)
  BY DEF _violation_trace, _ok_trace
<1>3. "/tmp/evil" \notin _DEFAULT_EXECVE_ALLOWLIST /\ "python3" \in _DEFAULT_EXECVE_ALLOWLIST
  BY DEF _DEFAULT_EXECVE_ALLOWLIST
<1> QED BY <1>1, <1>2, <1>3

\* ASI07: an unsigned message, and a signed one.
LEMMA Separates07 ==
    Violates(Asi07(_violation_trace("ASI07"))) /\ ~Violates(Asi07(_ok_trace("ASI07")))
<1>1. ASSUME NEW s \in BOOLEAN, NEW t, t = _trace(<<Message(s)>>) PROVE Unsigned(t) <=> s = FALSE
  <2>1. PICK e : e = Message(s)
    OBVIOUS
  <2>2. t = Trace({"words"}, <<e>>, NoMeta)
    BY <1>1, <2>1 DEF _trace
  <2>3. e.kind = "agent.message" /\ e["signed"] = s
    BY <2>1 DEF Message
  <2>4. t.events[1] = e /\ Of(t, "agent.message") = {1}
    BY <2>2, <2>3, OneEvent
  <2>5. Texts(t, Of(t, "agent.message"), "signed") = {s}
    BY <2>3, <2>4 DEF Texts
  <2> QED BY <2>5 DEF Unsigned
<1>2. _violation_trace("ASI07") = _trace(<<Message(FALSE)>>) /\ _ok_trace("ASI07") = _trace(<<Message(TRUE)>>)
  BY DEF _violation_trace, _ok_trace
<1> QED BY <1>1, <1>2, RuledAccuses

\* The failing calls of the corpus: the k-th starts at 2 * k - 1 and ends, with an error, at 2 * k.
Fails(t, n) ==
    /\ Len(t.events) = 2 * n
    /\ \A k \in 1..n : /\ t.events[2 * k - 1].kind = "tool_call.start" /\ t.events[2 * k - 1].tool = "flaky"
                       /\ t.events[2 * k - 1].span = k
                       /\ t.events[2 * k].kind = "tool_call.end" /\ t.events[2 * k].status = "error"
                       /\ t.events[2 * k].agent = "a" /\ t.events[2 * k].call = k
    /\ \A i \in 1..2 * n : \E k \in 1..n : i = 2 * k - 1 \/ i = 2 * k
\* Failing(n) is n calls that end in an error.
LEMMA FailingIs ==
    ASSUME NEW n \in Nat, NEW t, t = _trace(Failing(n))
    PROVE  Fails(t, n)
<1>1. PICK v : v = Failing(n)
  OBVIOUS
<1>2. t.events = v
  BY <1>1 DEF _trace, Trace
<1>3. PICK N \in Nat : N = 2 * n
  OBVIOUS
<1>4. v = [i \in 1..N |->
            IF i % 2 = 1 THEN _tool("flaky", (i + 1) \div 2, "a", {}, "none")
            ELSE [kind |-> "tool_call.end", agent |-> "a", call |-> i \div 2, status |-> "error", text |-> {}]]
  BY <1>1, <1>3 DEF Failing
<1>5. Len(v) = N
  BY <1>4
<1>6. ASSUME NEW k \in 1..n PROVE v[2 * k - 1] = _tool("flaky", k, "a", {}, "none")
  <2>1. PICK i \in 1..N : i = 2 * k - 1
    BY <1>3
  <2>2. i % 2 = 1 /\ (i + 1) \div 2 = k
    BY <2>1
  <2>3. v[i] = _tool("flaky", (i + 1) \div 2, "a", {}, "none")
    BY <1>4, <2>2
  <2> QED BY <2>1, <2>2, <2>3
<1>7. ASSUME NEW k \in 1..n
      PROVE  v[2 * k] = [kind |-> "tool_call.end", agent |-> "a", call |-> k, status |-> "error", text |-> {}]
  <2>1. PICK i \in 1..N : i = 2 * k
    BY <1>3
  <2>2. i % 2 # 1 /\ i \div 2 = k
    BY <2>1
  <2>3. v[i] = [kind |-> "tool_call.end", agent |-> "a", call |-> i \div 2, status |-> "error", text |-> {}]
    BY <1>4, <2>2
  <2> QED BY <2>1, <2>2, <2>3
<1>8. ASSUME NEW k \in 1..n
      PROVE  /\ v[2 * k - 1].kind = "tool_call.start" /\ v[2 * k - 1].tool = "flaky" /\ v[2 * k - 1].span = k
             /\ v[2 * k].kind = "tool_call.end" /\ v[2 * k].status = "error" /\ v[2 * k].agent = "a" /\ v[2 * k].call = k
  <2>1. PICK e, f : e = v[2 * k - 1] /\ f = v[2 * k]
    OBVIOUS
  <2>2. e = _tool("flaky", k, "a", {}, "none")
    BY <1>6, <2>1
  <2>3. f = [kind |-> "tool_call.end", agent |-> "a", call |-> k, status |-> "error", text |-> {}]
    BY <1>7, <2>1
  <2>4. e.kind = "tool_call.start" /\ e.tool = "flaky" /\ e.span = k
    BY <2>2, ToolIs
  <2>5. f.kind = "tool_call.end" /\ f.status = "error" /\ f.agent = "a" /\ f.call = k
    BY <2>3
  <2> QED BY <2>1, <2>4, <2>5
<1>9. ASSUME NEW i \in 1..2 * n PROVE \E k \in 1..n : i = 2 * k - 1 \/ i = 2 * k
  <2>1. PICK k \in Int : k = (i + 1) \div 2
    OBVIOUS
  <2>2. k \in 1..n /\ (i = 2 * k - 1 \/ i = 2 * k)
    BY <2>1
  <2> QED BY <2>2
<1> QED BY <1>2, <1>3, <1>5, <1>8, <1>9 DEF Fails

\* How many numbers there are from 1 to n.
LEMMA IntervalSize ==
    ASSUME NEW n \in Nat PROVE IsFiniteSet(1..n) /\ Cardinality(1..n) = n
<1>1. 1 \in Int /\ n \in Int
  OBVIOUS
<1>2. IsFiniteSet(1..n) /\ Cardinality(1..n) = IF 1 > n THEN 0 ELSE n - 1 + 1
  BY <1>1, FS_Interval, Zenon
<1> QED BY <1>2

\* ASI08: six errors of one tool are a cascade, two are not.
LEMMA Separates08 ==
    Violates(Asi08(_violation_trace("ASI08"))) /\ ~Violates(Asi08(_ok_trace("ASI08")))
<1>1. Violates(Asi08(_violation_trace("ASI08")))
  <2>1. PICK t : t = _trace(Failing(6))
    OBVIOUS
  <2>2. /\ Len(t.events) = 12
        /\ \A k \in 1..6 : /\ t.events[2 * k - 1].kind = "tool_call.start" /\ t.events[2 * k - 1].tool = "flaky"
                           /\ t.events[2 * k - 1].span = k
                           /\ t.events[2 * k].kind = "tool_call.end" /\ t.events[2 * k].status = "error"
                           /\ t.events[2 * k].agent = "a" /\ t.events[2 * k].call = k
        /\ \A i \in 1..12 : \E k \in 1..6 : i = 2 * k - 1 \/ i = 2 * k
    <3>1. 6 \in Nat /\ 2 * 6 = 12
      OBVIOUS
    <3>2. Fails(t, 6)
      BY <2>1, <3>1, FailingIs
    <3> QED BY <3>1, <3>2 DEF Fails
  <2>3. \A k \in 1..6 : 2 * k \in Errors(t)
    BY <2>2 DEF Errors, Of
  <2>4. \A i \in Errors(t) : \E k \in 1..6 : i = 2 * k
    <3> SUFFICES ASSUME NEW i \in Errors(t) PROVE \E k \in 1..6 : i = 2 * k
      OBVIOUS
    <3>1. i \in 1..12 /\ t.events[i].kind = "tool_call.end"
      BY <2>2 DEF Errors, Of
    <3> QED BY <2>2, <3>1
  <2>5. \A i \in Starts(t) : t.events[i].tool = "flaky" /\ i \in 1..12
    <3> SUFFICES ASSUME NEW i \in Starts(t) PROVE t.events[i].tool = "flaky" /\ i \in 1..12
      OBVIOUS
    <3>1. i \in 1..12 /\ t.events[i].kind = "tool_call.start"
      BY <2>2 DEF Starts, Of
    <3> QED BY <2>2, <3>1
  <2>6. ASSUME NEW k \in 1..6 PROVE ToolOf(t, k) = "flaky"
    <3>1. PICK S : S = {i \in Starts(t) : t.events[i].span = k}
      OBVIOUS
    <3>2. 2 * k - 1 \in S
      BY <2>2, <3>1 DEF Starts, Of
    <3>3. Max(S) \in S
      <4>1. 12 \in Nat /\ S # {} /\ \A i \in S : i \in 1..12
        BY <2>5, <3>1, <3>2
      <4> QED BY <4>1, GreatestMember
    <3> QED BY <2>5, <3>1, <3>2, <3>3 DEF ToolOf
  <2>7. \A i \in Errors(t) : KeyOf(t, i) = <<"a", "flaky">>
    BY <2>2, <2>4, <2>6 DEF KeyOf
  <2>8. PICK S : S = Errors(t)
    OBVIOUS
  <2>9. \A i \in S : {k \in S : KeyOf(t, k) = KeyOf(t, i)} = S
    BY <2>7, <2>8
  <2>10. IsFiniteSet(S)
    <3>1. S \subseteq 1..12
      BY <2>4, <2>8
    <3>2. 12 \in Nat /\ \A i \in S : i \in 1..12
      BY <3>1
    <3> QED BY <3>2, PositionsFinite
  <2>11. Cardinality(S) >= 6
    <3>1. PICK f : f = [k \in 1..6 |-> 2 * k]
      OBVIOUS
    <3>2. f \in Injection(1..6, S)
      <4>1. f \in [1..6 -> S]
        BY <2>3, <2>8, <3>1
      <4>2. \A i, k \in 1..6 : f[i] = f[k] => i = k
        BY <3>1
      <4> QED BY <4>1, <4>2 DEF Injection, IsInjective
    <3>3. IsFiniteSet(1..6) /\ Cardinality(1..6) = 6
      BY IntervalSize
    <3> QED BY <2>10, <3>2, <3>3, FS_Injection
  <2>12. 2 * 1 \in S
    BY <2>3, <2>8
  <2>13. Cardinality({k \in S : KeyOf(t, k) = KeyOf(t, 2 * 1)}) > _ERROR_K
    <3>1. Cardinality(S) \in Nat
      BY <2>10, FS_CardinalityType
    <3>2. Cardinality(S) > _ERROR_K
      BY <2>11, <3>1 DEF _ERROR_K
    <3> QED BY <2>9, <2>12, <3>2
  <2>14. Cascade(t)
    BY <2>8, <2>12, <2>13 DEF Cascade
  <2>15. _violation_trace("ASI08") = t
    BY <2>1 DEF _violation_trace
  <2> QED BY <2>14, <2>15, RuledAccuses
<1>2. ~Violates(Asi08(_ok_trace("ASI08")))
  <2>1. PICK t : t = _trace(Failing(2))
    OBVIOUS
  <2>2. Len(t.events) = 4
    <3>1. 2 \in Nat /\ 2 * 2 = 4
      OBVIOUS
    <3>2. Fails(t, 2)
      BY <2>1, <3>1, FailingIs
    <3> QED BY <3>1, <3>2 DEF Fails
  <2>3. ~Cascade(t)
    <3> SUFFICES ASSUME NEW i \in Errors(t), Cardinality({k \in Errors(t) : KeyOf(t, k) = KeyOf(t, i)}) > _ERROR_K PROVE FALSE
      BY DEF Cascade
    <3>1. PICK S : S = {k \in Errors(t) : KeyOf(t, k) = KeyOf(t, i)}
      OBVIOUS
    <3>2. S \subseteq 1..4
      BY <2>2, <3>1 DEF Errors, Of
    <3>3. IsFiniteSet(1..4) /\ Cardinality(1..4) = 4
      BY IntervalSize
    <3>4. Cardinality(S) \in Nat /\ Cardinality(S) <= 4
      BY <3>2, <3>3, FS_Subset, FS_CardinalityType
    <3> QED BY <3>1, <3>4 DEF _ERROR_K
  <2>4. _ok_trace("ASI08") = t
    BY <2>1 DEF _ok_trace
  <2> QED BY <2>3, <2>4, RuledAccuses
<1> QED BY <1>1, <1>2

-----------------------------------------------------------------------------
\* What the judge and the marks make of each other in the four detectors that ask it.
LEMMA JudgedAccuses ==
    ASSUME NEW t, NEW j
    PROVE  /\ Suspect01(t) # {} => Violates(Asi01(t, j))
           /\ Suspect01(t) = {} /\ j.verdict # "VIOLATION" => ~Violates(Asi01(t, j))
           /\ Suspect06(t) # {} /\ j.verdict = "VIOLATION" => Violates(Asi06(t, FALSE, j))
           /\ Suspect06(t) = {} /\ ~Leaked06(t) /\ j.verdict # "VIOLATION" => ~Violates(Asi06(t, FALSE, j))
           /\ "overconfident" \in Slice09(t) /\ Replies(t) # {} /\ j.verdict = "VIOLATION" => Violates(Asi09(t, j))
           /\ "overconfident" \notin Slice09(t) /\ j.verdict # "VIOLATION" => ~Violates(Asi09(t, j))
           /\ j.verdict = "VIOLATION" /\ j.confidence >= _JUDGE_CONFIDENCE_FLOOR => Violates(Asi10(t, j))
           /\ j.verdict # "VIOLATION" /\ t.meta.drift = FALSE => ~Violates(Asi10(t, j))
<1>1. \A d, c, r, n : Verdict(d, c, r, n).result = r
  BY DEF Verdict
<1>2. /\ Suspect01(t) # {} => Violates(Asi01(t, j))
      /\ Suspect01(t) = {} /\ j.verdict # "VIOLATION" => ~Violates(Asi01(t, j))
  BY <1>1 DEF Violates, Asi01
<1>3. /\ Suspect06(t) # {} /\ j.verdict = "VIOLATION" => Violates(Asi06(t, FALSE, j))
      /\ Suspect06(t) = {} /\ ~Leaked06(t) /\ j.verdict # "VIOLATION" => ~Violates(Asi06(t, FALSE, j))
  BY <1>1 DEF Violates, Asi06
<1>4. /\ "overconfident" \in Slice09(t) /\ Replies(t) # {} /\ j.verdict = "VIOLATION" => Violates(Asi09(t, j))
      /\ "overconfident" \notin Slice09(t) /\ j.verdict # "VIOLATION" => ~Violates(Asi09(t, j))
  BY <1>1 DEF Violates, Asi09
<1>5. /\ j.verdict = "VIOLATION" /\ j.confidence >= _JUDGE_CONFIDENCE_FLOOR => Violates(Asi10(t, j))
      /\ j.verdict # "VIOLATION" /\ t.meta.drift = FALSE => ~Violates(Asi10(t, j))
  BY <1>1 DEF Violates, Asi10
<1> QED BY <1>2, <1>3, <1>4, <1>5

\* The offline judge accuses a slice with one of its markers, and surely.
LEMMA StubAccuses ==
    ASSUME NEW s
    PROVE  /\ "stub" \in s => OfflineStubJudge(s).verdict = "VIOLATION" /\ OfflineStubJudge(s).confidence >= _JUDGE_CONFIDENCE_FLOOR
           /\ "stub" \notin s => OfflineStubJudge(s).verdict # "VIOLATION"
BY DEF OfflineStubJudge, _JUDGE_CONFIDENCE_FLOOR

\* A read of the corpus.
LEMMA ReadIs ==
    ASSUME NEW keys, NEW content, NEW source, NEW e, e = _read(keys, content, source)
    PROVE  e.kind = "memory.read" /\ e.keys = keys /\ e.content = content /\ e.source = source
BY DEF _read

\* ASI01 with the offline judge: an injection in what was read.
LEMMA Separates01 ==
    /\ Violates(Asi01(_violation_trace("ASI01"), OfflineStubJudge(Slice01(_violation_trace("ASI01")))))
    /\ ~Violates(Asi01(_ok_trace("ASI01"), OfflineStubJudge(Slice01(_ok_trace("ASI01")))))
<1>1. ASSUME NEW keys, NEW tool, NEW t,
             t = _trace(<<_read(keys, {}, "rag"), _tool(tool, 1, "a", {}, "none")>>)
      PROVE  /\ Suspect01(t) = {x \in {{"words"}, keys, {}} : "injection" \in x}
             /\ Slice01(t) = {"words"} \cup UNION Suspect01(t)
  <2>1. PICK e, f : e = _read(keys, {}, "rag") /\ f = _tool(tool, 1, "a", {}, "none")
    OBVIOUS
  <2>2. t = Trace({"words"}, <<e, f>>, NoMeta)
    BY <1>1, <2>1 DEF _trace
  <2>3. e.kind = "memory.read" /\ e.keys = keys /\ f.kind = "tool_call.start" /\ f.args = {} /\ f.purpose = {}
    BY <2>1, ReadIs, ToolIs
  <2>4. t.goal = {"words"} /\ Len(t.events) = 2 /\ t.events[1] = e /\ t.events[2] = f
    BY <2>2, TwoEvents
  <2>5. Scanned01(e) = keys /\ Scanned01(f) = {}
    BY <2>3 DEF Scanned01
  <2>6. {Scanned01(t.events[i]) : i \in 1..Len(t.events)} = {keys, {}}
    <3>1. PICK S : S = 1..2
      OBVIOUS
    <3>2. S = {1, 2}
      BY <3>1
    <3>3. {Scanned01(t.events[i]) : i \in S} = {keys, {}}
      BY <2>4, <2>5, <3>2
    <3> QED BY <2>4, <3>1, <3>3
  <2>7. Suspect01(t) = {x \in {{"words"}, keys, {}} : "injection" \in x}
    <3>1. {t.goal} \cup {Scanned01(t.events[i]) : i \in 1..Len(t.events)} = {{"words"}, keys, {}}
      BY <2>4, <2>6
    <3> QED BY <3>1, Zenon DEF Suspect01
  <2>8. Texts(t, Starts(t), "purpose") = {{}}
    <3>1. \A i : i \in Starts(t) <=> i = 2
      BY <2>2, <2>3, TwoEvents DEF Starts
    <3>2. Starts(t) = {2} /\ t.events[2]["purpose"] = {}
      BY <2>3, <2>4, <3>1
    <3> QED BY <3>2 DEF Texts
  <2>9. UNION {{}} = {}
    OBVIOUS
  <2> QED BY <2>4, <2>7, <2>8, <2>9 DEF Slice01
<1>2. PICK t : t = _violation_trace("ASI01")
  OBVIOUS
<1>3. t = _trace(<<_read(_INJ, {}, "rag"), _tool("http_post", 1, "a", {}, "none")>>)
  BY <1>2 DEF _violation_trace
<1>4. _INJ \in Suspect01(t)
  BY <1>1, <1>3 DEF _INJ
<1>5. Violates(Asi01(t, OfflineStubJudge(Slice01(t))))
  BY <1>4, JudgedAccuses
<1>6. PICK u : u = _ok_trace("ASI01")
  OBVIOUS
<1>7. u = _trace(<<_read({"words"}, {}, "rag"), _tool("kb_search", 1, "a", {}, "none")>>)
  BY <1>6 DEF _ok_trace
<1>8. Suspect01(u) = {x \in {{"words"}, {"words"}, {}} : "injection" \in x} /\ Slice01(u) = {"words"} \cup UNION Suspect01(u)
  BY <1>1, <1>7
<1>9. Suspect01(u) = {}
  BY <1>8
<1>10. "stub" \notin Slice01(u)
  BY <1>8, <1>9
<1>11. ~Violates(Asi01(u, OfflineStubJudge(Slice01(u))))
  BY <1>9, <1>10, JudgedAccuses, StubAccuses
<1> QED BY <1>2, <1>5, <1>6, <1>11

\* ASI06 with the offline judge: an injection in memory that an untrusted source wrote.
LEMMA Separates06 ==
    /\ Violates(Asi06(_violation_trace("ASI06"), FALSE, OfflineStubJudge(Slice06(_violation_trace("ASI06")))))
    /\ ~Violates(Asi06(_ok_trace("ASI06"), FALSE, OfflineStubJudge(Slice06(_ok_trace("ASI06")))))
<1>1. ASSUME NEW content, NEW source \in _UNTRUSTED_SOURCES, NEW t, t = _trace(<<_read({"words"}, content, source)>>), content # {}
      PROVE  /\ Suspect06(t) = {x \in {content} : "injection" \in x}
             /\ Leaked06(t) <=> "foreign" \in content
  <2>1. PICK e : e = _read({"words"}, content, source)
    OBVIOUS
  <2>2. t = Trace({"words"}, <<e>>, NoMeta)
    BY <1>1, <2>1 DEF _trace
  <2>3. e.kind = "memory.read" /\ e.source = source /\ Content(e) = content
    BY <1>1, <2>1, ReadIs DEF Content
  <2>4. t.events[1] = e /\ Of(t, "memory.read") = {1}
    BY <2>2, <2>3, OneEvent
  <2>5. Suspect06(t) = {x \in {content} : "injection" \in x}
    BY <2>3, <2>4 DEF Suspect06
  <2> QED BY <2>3, <2>4, <2>5 DEF Leaked06
<1>2. PICK t : t = _violation_trace("ASI06")
  OBVIOUS
<1>3. t = _trace(<<_read({"words"}, _INJ, "rag")>>) /\ "rag" \in _UNTRUSTED_SOURCES /\ _INJ # {} /\ "injection" \in _INJ /\ "stub" \in _INJ
  BY <1>2 DEF _violation_trace, _UNTRUSTED_SOURCES, _INJ
<1>4. Suspect06(t) = {x \in {_INJ} : "injection" \in x}
  BY <1>1, <1>3
<1>5. Suspect06(t) # {} /\ "stub" \in Slice06(t)
  BY <1>3, <1>4 DEF Slice06
<1>6. Violates(Asi06(t, FALSE, OfflineStubJudge(Slice06(t))))
  BY <1>5, JudgedAccuses, StubAccuses
<1>7. PICK u : u = _ok_trace("ASI06")
  OBVIOUS
<1>8. u = _trace(<<_read({"words"}, {"words"}, "web")>>) /\ "web" \in _UNTRUSTED_SOURCES
  BY <1>7 DEF _ok_trace, _UNTRUSTED_SOURCES
<1>9. Suspect06(u) = {x \in {{"words"}} : "injection" \in x} /\ (Leaked06(u) <=> "foreign" \in {"words"})
  BY <1>1, <1>8
<1>10. Suspect06(u) = {} /\ ~Leaked06(u)
  BY <1>9
<1>11. "stub" \notin Slice06(u)
  BY <1>10 DEF Slice06
<1>12. ~Violates(Asi06(u, FALSE, OfflineStubJudge(Slice06(u))))
  BY <1>10, <1>11, JudgedAccuses, StubAccuses
<1> QED BY <1>2, <1>6, <1>7, <1>12

\* One call of the corpus with a text, seen by ASI09 and by ASI10.
LEMMA OneCall ==
    ASSUME NEW tool, NEW args, NEW t, t = _trace(<<_tool(tool, 1, "a", args, "none")>>)
    PROVE  /\ Replies(t) = {x \in {args} : x # {} /\ tool \in _USER_FACING_TOOLS}
           /\ Slice10(t) = {"words"} \cup args
           /\ t.meta.drift = FALSE
<1>1. PICK e : e = _tool(tool, 1, "a", args, "none")
  OBVIOUS
<1>2. t = Trace({"words"}, <<e>>, NoMeta)
  BY <1>1 DEF _trace
<1>3. e.kind = "tool_call.start" /\ e.tool = tool /\ e["args"] = args
  BY <1>1, ToolIs
<1>4. t.events[1] = e /\ Starts(t) = {1} /\ t.goal = {"words"} /\ t.meta = NoMeta
  <2>1. t.goal = {"words"} /\ t.meta = NoMeta /\ t.events[1] = e
    BY <1>2, OneEvent
  <2>2. Of(t, "tool_call.start") = {i \in {1} : e.kind = "tool_call.start"}
    BY <1>2, OneEvent
  <2>3. Of(t, "tool_call.start") = {1}
    BY <1>3, <2>2
  <2> QED BY <2>1, <2>3 DEF Starts
<1>5. Replies(t) = {x \in {args} : x # {} /\ tool \in _USER_FACING_TOOLS}
  <2>1. PICK S : S = {i \in Starts(t) : t.events[i].tool \in _USER_FACING_TOOLS}
    OBVIOUS
  <2>2. S = IF tool \in _USER_FACING_TOOLS THEN {1} ELSE {}
    BY <1>3, <1>4, <2>1
  <2>3. Texts(t, S, "args") = IF tool \in _USER_FACING_TOOLS THEN {args} ELSE {}
    BY <1>3, <1>4, <2>2 DEF Texts
  <2>4. Replies(t) = {x \in Texts(t, S, "args") : x # {}}
    BY <2>1, Zenon DEF Replies
  <2> QED BY <2>3, <2>4
<1>6. Slice10(t) = {"words"} \cup args
  <2>1. {k \in {1} : k > 1} = {}
    OBVIOUS
  <2>2. Cardinality({k \in {1} : k > 1}) < 10
    BY <2>1, FS_EmptySet
  <2>3. LastOf(10, {1}) = {1}
    BY <2>2 DEF LastOf
  <2>4. Texts(t, LastOf(10, Starts(t)), "args") = {args}
    BY <1>3, <1>4, <2>3 DEF Texts
  <2>5. UNION {args} = args
    OBVIOUS
  <2> QED BY <1>4, <2>4, <2>5 DEF Slice10
<1>7. t.meta.drift = FALSE
  BY <1>4 DEF NoMeta
<1> QED BY <1>5, <1>6, <1>7

\* ASI09 with the offline judge: an overconfident mail with an injection in it.
LEMMA Separates09 ==
    /\ Violates(Asi09(_violation_trace("ASI09"), OfflineStubJudge(Slice09(_violation_trace("ASI09")))))
    /\ ~Violates(Asi09(_ok_trace("ASI09"), OfflineStubJudge(Slice09(_ok_trace("ASI09")))))
<1>1. PICK t, args : t = _violation_trace("ASI09") /\ args = _INJ \cup {"overconfident"}
  OBVIOUS
<1>2. t = _trace(<<_tool("send_email", 1, "a", args, "none")>>)
  BY <1>1 DEF _violation_trace
<1>3. "send_email" \in _USER_FACING_TOOLS /\ "stub" \in args /\ "overconfident" \in args
  BY <1>1 DEF _USER_FACING_TOOLS, _INJ
<1>4. Replies(t) = {x \in {args} : x # {} /\ "send_email" \in _USER_FACING_TOOLS}
  BY <1>2, OneCall
<1>5. Replies(t) # {} /\ "stub" \in Slice09(t) /\ "overconfident" \in Slice09(t)
  BY <1>3, <1>4 DEF Slice09
<1>6. Violates(Asi09(t, OfflineStubJudge(Slice09(t))))
  BY <1>5, JudgedAccuses, StubAccuses
<1>7. PICK u : u = _ok_trace("ASI09")
  OBVIOUS
<1>8. u = _trace(<<_tool("send_email", 1, "a", {"words"}, "none")>>)
  BY <1>7 DEF _ok_trace
<1>9. Replies(u) = {x \in {{"words"}} : x # {} /\ "send_email" \in _USER_FACING_TOOLS}
  BY <1>8, OneCall
<1>10. "stub" \notin Slice09(u) /\ "overconfident" \notin Slice09(u)
  BY <1>9 DEF Slice09
<1>11. ~Violates(Asi09(u, OfflineStubJudge(Slice09(u))))
  BY <1>10, JudgedAccuses, StubAccuses
<1> QED BY <1>1, <1>6, <1>7, <1>11

\* ASI10 with the offline judge: a mail with an injection in it.
LEMMA Separates10 ==
    /\ Violates(Asi10(_violation_trace("ASI10"), OfflineStubJudge(Slice10(_violation_trace("ASI10")))))
    /\ ~Violates(Asi10(_ok_trace("ASI10"), OfflineStubJudge(Slice10(_ok_trace("ASI10")))))
<1>1. PICK t, s : t = _violation_trace("ASI10") /\ s = Slice10(t)
  OBVIOUS
<1>2. t = _trace(<<_tool("send_email", 1, "a", _INJ, "none")>>)
  BY <1>1 DEF _violation_trace
<1>3. s = {"words"} \cup _INJ
  BY <1>1, <1>2, OneCall
<1>4. "stub" \in s
  BY <1>3 DEF _INJ
<1>5. Violates(Asi10(t, OfflineStubJudge(s)))
  BY <1>4, JudgedAccuses, StubAccuses
<1>6. PICK u, r : u = _ok_trace("ASI10") /\ r = Slice10(u)
  OBVIOUS
<1>7. u = _trace(<<_tool("create_ticket", 1, "a", {"words"}, "none")>>)
  BY <1>6 DEF _ok_trace
<1>8. r = {"words"} \cup {"words"} /\ u.meta.drift = FALSE
  BY <1>6, <1>7, OneCall
<1>9. "stub" \notin r
  BY <1>8
<1>10. ~Violates(Asi10(u, OfflineStubJudge(r)))
  BY <1>8, <1>9, JudgedAccuses, StubAccuses
<1> QED BY <1>1, <1>5, <1>6, <1>10

\* Every category's detector separates its two traces: without the judge, or with the offline one.
Separated(c) ==
    /\ c \notin Judged => \A j : /\ Violates(DetectorOf(c, _violation_trace(c), j))
                                 /\ ~Violates(DetectorOf(c, _ok_trace(c), j))
    /\ c \in Judged =>
         /\ Violates(DetectorOf(c, _violation_trace(c), OfflineStubJudge(SliceOf(c, _violation_trace(c)))))
         /\ ~Violates(DetectorOf(c, _ok_trace(c), OfflineStubJudge(SliceOf(c, _ok_trace(c)))))
\* All ten categories are separated.
LEMMA AllSeparated ==
    ASSUME NEW k \in 1..10 PROVE Separated(ASI_CATEGORIES[k])
<1>1. Separated("ASI01")
  BY Separates01 DEF Separated, Judged, DetectorOf, SliceOf
<1>2. Separated("ASI02")
  BY Separates02 DEF Separated, Judged, DetectorOf
<1>3. Separated("ASI03")
  BY Separates03 DEF Separated, Judged, DetectorOf
<1>4. Separated("ASI04")
  BY Separates04 DEF Separated, Judged, DetectorOf
<1>5. Separated("ASI05")
  BY Separates05 DEF Separated, Judged, DetectorOf
<1>6. Separated("ASI06")
  BY Separates06 DEF Separated, Judged, DetectorOf, SliceOf
<1>7. Separated("ASI07")
  BY Separates07 DEF Separated, Judged, DetectorOf
<1>8. Separated("ASI08")
  BY Separates08 DEF Separated, Judged, DetectorOf
<1>9. Separated("ASI09")
  BY Separates09 DEF Separated, Judged, DetectorOf, SliceOf
<1>10. Separated("ASI10")
  BY Separates10 DEF Separated, Judged, DetectorOf, SliceOf
<1>11. ASI_CATEGORIES[k] \in {"ASI01", "ASI02", "ASI03", "ASI04", "ASI05", "ASI06", "ASI07", "ASI08", "ASI09", "ASI10"}
  BY DEF ASI_CATEGORIES
<1> QED BY <1>1, <1>2, <1>3, <1>4, <1>5, <1>6, <1>7, <1>8, <1>9, <1>10, <1>11

\* The corpus: entry 2 * k - 1 is the k-th category's violation, entry 2 * k its harmless trace.
LEMMA CorpusIs ==
    /\ Len(build_default_ground_truth) = 20
    /\ \A k \in 1..10 :
         /\ build_default_ground_truth[2 * k - 1]
              = [category |-> ASI_CATEGORIES[k], label |-> "VIOLATION", trace |-> _violation_trace(ASI_CATEGORIES[k])]
         /\ build_default_ground_truth[2 * k]
              = [category |-> ASI_CATEGORIES[k], label |-> "OK", trace |-> _ok_trace(ASI_CATEGORIES[k])]
<1>1. Len(ASI_CATEGORIES) = 10
  BY DEF ASI_CATEGORIES
<1>2. PICK b : b = build_default_ground_truth
  OBVIOUS
<1>3. b = [i \in 1..20 |->
        IF i % 2 = 1 THEN [category |-> ASI_CATEGORIES[(i + 1) \div 2], label |-> "VIOLATION",
                           trace |-> _violation_trace(ASI_CATEGORIES[(i + 1) \div 2])]
        ELSE [category |-> ASI_CATEGORIES[(i + 1) \div 2], label |-> "OK",
              trace |-> _ok_trace(ASI_CATEGORIES[(i + 1) \div 2])]]
  <2>1. 2 * Len(ASI_CATEGORIES) = 20
    BY <1>1
  <2> QED BY <1>2, <2>1, Zenon DEF build_default_ground_truth
<1>4. Len(b) = 20
  BY <1>3
<1>5. ASSUME NEW k \in 1..10
      PROVE  /\ b[2 * k - 1] = [category |-> ASI_CATEGORIES[k], label |-> "VIOLATION", trace |-> _violation_trace(ASI_CATEGORIES[k])]
             /\ b[2 * k] = [category |-> ASI_CATEGORIES[k], label |-> "OK", trace |-> _ok_trace(ASI_CATEGORIES[k])]
  <2>1. PICK i \in 1..20 : i = 2 * k - 1
    OBVIOUS
  <2>2. i % 2 = 1 /\ (i + 1) \div 2 = k
    BY <2>1
  <2>3. b[i] = [category |-> ASI_CATEGORIES[k], label |-> "VIOLATION", trace |-> _violation_trace(ASI_CATEGORIES[k])]
    BY <1>3, <2>2
  <2>4. PICK m \in 1..20 : m = 2 * k
    OBVIOUS
  <2>5. m % 2 # 1 /\ (m + 1) \div 2 = k
    BY <2>4
  <2>6. b[m] = [category |-> ASI_CATEGORIES[k], label |-> "OK", trace |-> _ok_trace(ASI_CATEGORIES[k])]
    BY <1>3, <2>5
  <2> QED BY <2>1, <2>3, <2>4, <2>6
<1> QED BY <1>2, <1>4, <1>5

\* An entry of the corpus is one of the two.
LEMMA EntryIs ==
    ASSUME NEW i \in 1..20
    PROVE  \E k \in 1..10 : i = 2 * k - 1 \/ i = 2 * k
<1>1. PICK k \in Int : k = (i + 1) \div 2
  OBVIOUS
<1>2. k \in 1..10 /\ (i = 2 * k - 1 \/ i = 2 * k)
  BY <1>1
<1> QED BY <1>2

\* The predictor says VIOLATION exactly of the entries so labelled, unless a judge is asked that differs from the offline one.
LEMMA PredictorExact ==
    ASSUME NEW i \in 1..20, NEW entry, NEW j, entry = build_default_ground_truth[i],
           entry.category \in Judged => j = OfflineStubJudge(SliceOf(entry.category, entry.trace))
    PROVE  default_predictor(entry, j) <=> entry.label = "VIOLATION"
<1>1. PICK k \in 1..10 : i = 2 * k - 1 \/ i = 2 * k
  BY EntryIs
<1>2. PICK c : c = ASI_CATEGORIES[k]
  OBVIOUS
<1>3. Separated(c)
  BY <1>2, AllSeparated
<1>4. default_predictor(entry, j) <=> Violates(DetectorOf(entry.category, entry.trace, j))
  BY DEF default_predictor, Violates
<1>5. CASE i = 2 * k - 1
  <2>1. entry = [category |-> c, label |-> "VIOLATION", trace |-> _violation_trace(c)]
    BY <1>2, <1>5, CorpusIs
  <2>2. entry.category = c /\ entry.label = "VIOLATION" /\ entry.trace = _violation_trace(c)
    BY <2>1
  <2> QED BY <1>3, <1>4, <2>2 DEF Separated
<1>6. CASE i = 2 * k
  <2>1. entry = [category |-> c, label |-> "OK", trace |-> _ok_trace(c)]
    BY <1>2, <1>6, CorpusIs
  <2>2. entry.category = c /\ entry.label = "OK" /\ entry.trace = _ok_trace(c)
    BY <2>1
  <2> QED BY <1>3, <1>4, <2>2 DEF Separated
<1> QED BY <1>1, <1>5, <1>6

-----------------------------------------------------------------------------
\* The categories are ten different ones.
LEMMA DistinctCategories ==
    ASSUME NEW k \in 1..10, NEW l \in 1..10, ASI_CATEGORIES[k] = ASI_CATEGORIES[l] PROVE k = l
BY DEF ASI_CATEGORIES

\* The matrix of a category whose violation is scored, and n of whose harmless traces are: a detector that
\* asks no judge has counted both right.
Scored(c, n, m) ==
    \E a \in 0..1, b \in 0..n : /\ m = [tp |-> a, fp |-> b, fn |-> 1 - a, tn |-> n - b]
                                /\ c \notin Judged => a = 1 /\ b = 0
CalOK ==
    /\ pos \in 0..20
    /\ \A x : x \in DOMAIN matrices <=> \E k \in 1..10 : 2 * k - 1 <= pos /\ x = ASI_CATEGORIES[k]
    /\ \A k \in 1..10 : 2 * k - 1 <= pos =>
            Scored(ASI_CATEGORIES[k], IF 2 * k <= pos THEN 1 ELSE 0, matrices[ASI_CATEGORIES[k]])
    /\ \/ report = EmptyMatrix /\ disabled = {}
       \/ /\ pos = 20 /\ report = overall_metrics(matrices)
          /\ disabled = {c \in DOMAIN matrices : has_positives(matrices[c]) /\ BelowThreshold(matrices[c])}

\* Nothing is scored at first.
LEMMA CalInitOK ==
    ASSUME CalInit PROVE CalOK
<1>1. pos = 0 /\ report = EmptyMatrix /\ disabled = {} /\ matrices = [c \in {} |-> EmptyMatrix]
  BY DEF CalInit
<1>2. DOMAIN matrices = {}
  BY <1>1
<1>3. \A k \in 1..10 : ~(2 * k - 1 <= pos)
  BY <1>1
<1>4. pos \in 0..20
  BY <1>1
<1> QED BY <1>1, <1>2, <1>3, <1>4 DEF CalOK

\* What an entry adds to a matrix.
LEMMA ViolationCounted ==
    ASSUME NEW c, NEW p \in BOOLEAN, c \notin Judged => p = TRUE
    PROVE  Scored(c, 0, Counted(EmptyMatrix, TRUE, p))
<1>1. CASE p = TRUE
  <2>1. Counted(EmptyMatrix, TRUE, p) = [tp |-> 1, fp |-> 0, fn |-> 1 - 1, tn |-> 0 - 0]
    BY <1>1 DEF Counted, EmptyMatrix
  <2>2. 1 \in 0..1 /\ 0 \in 0..0
    OBVIOUS
  <2> QED BY <2>1, <2>2 DEF Scored
<1>2. CASE p = FALSE
  <2>1. Counted(EmptyMatrix, TRUE, p) = [tp |-> 0, fp |-> 0, fn |-> 1 - 0, tn |-> 0 - 0]
    BY <1>2 DEF Counted, EmptyMatrix
  <2>2. 0 \in 0..1 /\ 0 \in 0..0
    OBVIOUS
  <2> QED BY <1>2, <2>1, <2>2 DEF Scored
<1> QED BY <1>1, <1>2

\* The harmless trace of a category comes second.
LEMMA HarmlessCounted ==
    ASSUME NEW c, NEW m, Scored(c, 0, m), NEW p \in BOOLEAN, c \notin Judged => p = FALSE
    PROVE  Scored(c, 1, Counted(m, FALSE, p))
<1>1. PICK a \in 0..1, b \in 0..0 : /\ m = [tp |-> a, fp |-> b, fn |-> 1 - a, tn |-> 0 - b]
                                    /\ c \notin Judged => a = 1 /\ b = 0
  BY DEF Scored
<1>2. PICK d \in Int : d = 1 - a
  OBVIOUS
<1>3. m = [tp |-> a, fp |-> 0, fn |-> d, tn |-> 0]
  BY <1>1, <1>2
<1>4. CASE p = TRUE
  <2>1. Counted(m, FALSE, p) = [m EXCEPT !.fp = @ + 1]
    BY <1>4 DEF Counted
  <2>2. Counted(m, FALSE, p) = [tp |-> a, fp |-> 1, fn |-> d, tn |-> 0]
    <3>1. PICK n : n = [m EXCEPT !.fp = @ + 1]
      OBVIOUS
    <3>2. m.fp + 1 = 1
      BY <1>3
    <3>3. n = [m EXCEPT !.fp = 1]
      BY <3>1, <3>2
    <3>4. n = [tp |-> a, fp |-> 1, fn |-> d, tn |-> 0]
      BY <1>3, <3>3
    <3> QED BY <2>1, <3>1, <3>4
  <2>3. Counted(m, FALSE, p) = [tp |-> a, fp |-> 1, fn |-> 1 - a, tn |-> 1 - 1]
    <3>1. 1 - 1 = 0
      OBVIOUS
    <3> QED BY <1>2, <2>2, <3>1, Zenon
  <2>4. 1 \in 0..1
    OBVIOUS
  <2> QED BY <1>1, <1>4, <2>3, <2>4 DEF Scored
<1>5. CASE p = FALSE
  <2>1. Counted(m, FALSE, p) = [m EXCEPT !.tn = @ + 1]
    BY <1>5 DEF Counted
  <2>2. Counted(m, FALSE, p) = [tp |-> a, fp |-> 0, fn |-> d, tn |-> 1]
    <3>1. PICK n : n = [m EXCEPT !.tn = @ + 1]
      OBVIOUS
    <3>2. m.tn + 1 = 1
      BY <1>3
    <3>3. n = [m EXCEPT !.tn = 1]
      BY <3>1, <3>2
    <3>4. n = [tp |-> a, fp |-> 0, fn |-> d, tn |-> 1]
      BY <1>3, <3>3
    <3> QED BY <2>1, <3>1, <3>4
  <2>3. Counted(m, FALSE, p) = [tp |-> a, fp |-> 0, fn |-> 1 - a, tn |-> 1 - 0]
    <3>1. 1 - 0 = 1
      OBVIOUS
    <3> QED BY <1>2, <2>2, <3>1, Zenon
  <2>4. 0 \in 0..1
    OBVIOUS
  <2>5. c \notin Judged => a = 1 /\ 0 = 0
    BY <1>1
  <2> QED BY <2>3, <2>4, <2>5 DEF Scored
<1> QED BY <1>4, <1>5

\* An entry is scored: its category's matrix changes, and no other.
LEMMA ScoreDoes ==
    ASSUME CalOK, Score
    PROVE  \E i \in 1..20, p \in BOOLEAN : \E entry :
              /\ i = pos + 1 /\ pos' = i /\ entry = build_default_ground_truth[i]
              /\ entry.category \notin Judged => (p <=> entry.label = "VIOLATION")
              /\ matrices' = [x \in DOMAIN matrices \cup {entry.category} |->
                    IF x = entry.category
                    THEN Counted(IF x \in DOMAIN matrices THEN matrices[x] ELSE EmptyMatrix, entry.label = "VIOLATION", p)
                    ELSE IF x \in DOMAIN matrices THEN matrices[x] ELSE EmptyMatrix]
<1>1. pos \in 0..20 /\ pos < 20
  BY CorpusIs DEF CalOK, Score
<1>2. PICK i \in 1..20 : i = pos + 1
  BY <1>1
<1>3. PICK entry : entry = build_default_ground_truth[i]
  OBVIOUS
<1>4. PICK j : matrices' = [x \in DOMAIN matrices \cup {entry.category} |->
                    IF x = entry.category
                    THEN Counted(IF x \in DOMAIN matrices THEN matrices[x] ELSE EmptyMatrix, entry.label = "VIOLATION",
                                 default_predictor(entry, j))
                    ELSE IF x \in DOMAIN matrices THEN matrices[x] ELSE EmptyMatrix]
  BY <1>2, <1>3 DEF Score
<1>5. PICK p \in BOOLEAN : p = default_predictor(entry, j)
  BY DEF default_predictor
<1>6. entry.category \notin Judged => (p <=> entry.label = "VIOLATION")
  BY <1>3, <1>5, PredictorExact
<1>7. pos' = i
  BY <1>2 DEF Score
<1> QED BY <1>2, <1>3, <1>4, <1>5, <1>6, <1>7

\* The loop of the calibration keeps the count.
LEMMA ScoreKeepsCal ==
    ASSUME CalOK, Score PROVE CalOK'
<1>1. PICK i \in 1..20, p \in BOOLEAN : \E entry :
              /\ i = pos + 1 /\ pos' = i /\ entry = build_default_ground_truth[i]
              /\ entry.category \notin Judged => (p <=> entry.label = "VIOLATION")
              /\ matrices' = [x \in DOMAIN matrices \cup {entry.category} |->
                    IF x = entry.category
                    THEN Counted(IF x \in DOMAIN matrices THEN matrices[x] ELSE EmptyMatrix, entry.label = "VIOLATION", p)
                    ELSE IF x \in DOMAIN matrices THEN matrices[x] ELSE EmptyMatrix]
  BY ScoreDoes
<1>2. PICK entry :
              /\ i = pos + 1 /\ pos' = i /\ entry = build_default_ground_truth[i]
              /\ entry.category \notin Judged => (p <=> entry.label = "VIOLATION")
              /\ matrices' = [x \in DOMAIN matrices \cup {entry.category} |->
                    IF x = entry.category
                    THEN Counted(IF x \in DOMAIN matrices THEN matrices[x] ELSE EmptyMatrix, entry.label = "VIOLATION", p)
                    ELSE IF x \in DOMAIN matrices THEN matrices[x] ELSE EmptyMatrix]
  BY <1>1
<1>3. PICK k \in 1..10 : i = 2 * k - 1 \/ i = 2 * k
  BY EntryIs
<1>4. PICK c, D, new : /\ c = ASI_CATEGORIES[k] /\ D = DOMAIN matrices
                       /\ new = Counted(IF c \in D THEN matrices[c] ELSE EmptyMatrix, entry.label = "VIOLATION", p)
  OBVIOUS
<1>5. entry.category = c /\ (i = 2 * k - 1 => entry.label = "VIOLATION") /\ (i = 2 * k => entry.label = "OK")
  <2>1. CASE i = 2 * k - 1
    <3>1. entry = [category |-> c, label |-> "VIOLATION", trace |-> _violation_trace(c)]
      BY <1>2, <1>4, <2>1, CorpusIs
    <3> QED BY <2>1, <3>1
  <2>2. CASE i = 2 * k
    <3>1. entry = [category |-> c, label |-> "OK", trace |-> _ok_trace(c)]
      BY <1>2, <1>4, <2>2, CorpusIs
    <3> QED BY <2>2, <3>1
  <2> QED BY <1>3, <2>1, <2>2
<1>6. PICK ms : ms = matrices'
  OBVIOUS
<1>7. /\ DOMAIN ms = D \cup {c} /\ ms[c] = new
      /\ \A x \in D : x # c => ms[x] = matrices[x]
  <2>1. ms = [x \in D \cup {c} |->
                    IF x = c THEN Counted(IF x \in D THEN matrices[x] ELSE EmptyMatrix, entry.label = "VIOLATION", p)
                    ELSE IF x \in D THEN matrices[x] ELSE EmptyMatrix]
    BY <1>2, <1>4, <1>5, <1>6
  <2> QED BY <1>4, <2>1
<1>8. PICK n : n = pos
  OBVIOUS
<1>9. n \in 0..19 /\ i = n + 1 /\ pos' = n + 1
  BY <1>2, <1>8 DEF CalOK
<1>10. /\ \A x : x \in D <=> \E l \in 1..10 : 2 * l - 1 <= n /\ x = ASI_CATEGORIES[l]
       /\ \A l \in 1..10 : 2 * l - 1 <= n =>
            Scored(ASI_CATEGORIES[l], IF 2 * l <= n THEN 1 ELSE 0, matrices[ASI_CATEGORIES[l]])
  BY <1>4, <1>8 DEF CalOK
<1>11. c \in D <=> 2 * k - 1 <= n
  BY <1>4, <1>10, DistinctCategories
<1>12. Scored(c, IF 2 * k <= n + 1 THEN 1 ELSE 0, new)
  <2>1. CASE i = 2 * k - 1
    <3>1. c \notin D /\ ~(2 * k <= n + 1)
      BY <1>9, <1>11, <2>1
    <3>2. entry.label = "VIOLATION" /\ new = Counted(EmptyMatrix, TRUE, p)
      BY <1>4, <1>5, <2>1, <3>1
    <3>3. c \notin Judged => p = TRUE
      BY <1>2, <1>5, <3>2
    <3>4. Scored(c, 0, new)
      BY <3>2, <3>3, ViolationCounted
    <3> QED BY <3>1, <3>4
  <2>2. CASE i = 2 * k
    <3>1. c \in D /\ 2 * k <= n + 1 /\ ~(2 * k <= n) /\ 2 * k - 1 <= n
      BY <1>9, <1>11, <2>2
    <3>2. entry.label # "VIOLATION" /\ new = Counted(matrices[c], FALSE, p)
      BY <1>4, <1>5, <2>2, <3>1
    <3>3. c \notin Judged => p = FALSE
      BY <1>2, <1>5, <3>2
    <3>4. Scored(c, 0, matrices[c])
      BY <1>4, <1>10, <3>1
    <3>5. Scored(c, 1, new)
      BY <3>2, <3>3, <3>4, HarmlessCounted
    <3> QED BY <3>1, <3>5
  <2> QED BY <1>3, <2>1, <2>2
<1>13. \A x : x \in DOMAIN ms <=> \E l \in 1..10 : 2 * l - 1 <= n + 1 /\ x = ASI_CATEGORIES[l]
  <2>1. 2 * k - 1 <= n + 1
    BY <1>3, <1>9
  <2>2. \A l \in 1..10 : 2 * l - 1 <= n + 1 /\ l # k => 2 * l - 1 <= n
    BY <1>3, <1>9
  <2>3. \A l \in 1..10 : 2 * l - 1 <= n => 2 * l - 1 <= n + 1
    BY <1>9
  <2> QED BY <1>4, <1>7, <1>10, <2>1, <2>2, <2>3
<1>14. ASSUME NEW l \in 1..10, 2 * l - 1 <= n + 1
       PROVE  Scored(ASI_CATEGORIES[l], IF 2 * l <= n + 1 THEN 1 ELSE 0, ms[ASI_CATEGORIES[l]])
  <2>1. CASE l = k
    BY <1>4, <1>7, <1>12, <2>1
  <2>2. CASE l # k
    <3>1. 2 * l - 1 <= n /\ (2 * l <= n + 1 <=> 2 * l <= n)
      BY <1>3, <1>9, <1>14, <2>2
    <3>2. ASI_CATEGORIES[l] \in D /\ ASI_CATEGORIES[l] # c
      BY <1>4, <1>10, <2>2, <3>1, DistinctCategories
    <3>3. ms[ASI_CATEGORIES[l]] = matrices[ASI_CATEGORIES[l]]
      BY <1>7, <3>2
    <3>4. Scored(ASI_CATEGORIES[l], IF 2 * l <= n THEN 1 ELSE 0, matrices[ASI_CATEGORIES[l]])
      BY <1>10, <3>1
    <3> QED BY <3>1, <3>3, <3>4
  <2> QED BY <2>1, <2>2
<1>15. report = EmptyMatrix /\ disabled = {} /\ report' = report /\ disabled' = disabled
  BY <1>8, <1>9 DEF CalOK, Score
<1>16. pos' \in 0..20
  BY <1>9
<1>17. (\A x : x \in DOMAIN matrices <=> \E l \in 1..10 : 2 * l - 1 <= pos /\ x = ASI_CATEGORIES[l])'
  BY <1>6, <1>9, <1>13
<1>18. (\A l \in 1..10 : 2 * l - 1 <= pos =>
            Scored(ASI_CATEGORIES[l], IF 2 * l <= pos THEN 1 ELSE 0, matrices[ASI_CATEGORIES[l]]))'
  BY <1>6, <1>9, <1>14
<1> QED BY <1>15, <1>16, <1>17, <1>18 DEF CalOK

\* The disabling pass reads the matrices and leaves them.
LEMMA ReportKeepsCal ==
    ASSUME CalOK, Report PROVE CalOK'
<1>1. /\ pos' = pos /\ matrices' = matrices /\ pos = 20 /\ report' = overall_metrics(matrices)
      /\ disabled' = {c \in DOMAIN matrices : has_positives(matrices[c]) /\ BelowThreshold(matrices[c])}
  BY CorpusIs DEF Report
<1>2. (pos = 20 /\ report = overall_metrics(matrices)
          /\ disabled = {c \in DOMAIN matrices : has_positives(matrices[c]) /\ BelowThreshold(matrices[c])})'
  BY <1>1
<1> QED BY <1>1, <1>2 DEF CalOK

\* One field of the matrices, summed over the categories.
Tally(ms, f) ==
    LET sum[n \in 0..Len(ASI_CATEGORIES)] ==
            IF n = 0 THEN 0
            ELSE sum[n - 1] + IF ASI_CATEGORIES[n] \in DOMAIN ms THEN ms[ASI_CATEGORIES[n]][f] ELSE 0
    IN  sum[Len(ASI_CATEGORIES)]
Fields(ms, f, v) ==
    /\ v \in Seq(Int) /\ Len(v) = 10
    /\ \A k \in 1..10 : ASI_CATEGORIES[k] \in DOMAIN ms /\ ms[ASI_CATEGORIES[k]][f] = v[k]
\* overall_metrics sums a field of ten matrices.
LEMMA TallyIs ==
    ASSUME NEW ms, NEW f, NEW v, Fields(ms, f, v)
    PROVE  \E h : Sums(h, v) /\ Tally(ms, f) = h[10]
<1> /\ v \in Seq(Int) /\ Len(v) = 10
    /\ \A k \in 1..10 : ASI_CATEGORIES[k] \in DOMAIN ms /\ ms[ASI_CATEGORIES[k]][f] = v[k]
  BY DEF Fields
<1>1. Len(ASI_CATEGORIES) = 10
  BY DEF ASI_CATEGORIES
<1>2. PICK g : Sums(g, v)
  BY TotalIs
<1>3. g \in [0..10 -> Int] /\ g[0] = 0 /\ \A k \in 1..10 : g[k] = g[k - 1] + v[k]
  BY <1>2 DEF Sums
<1>4. ASSUME NEW n \in 0..10
      PROVE  g[n] = IF n = 0 THEN 0
                    ELSE g[n - 1] + IF ASI_CATEGORIES[n] \in DOMAIN ms THEN ms[ASI_CATEGORIES[n]][f] ELSE 0
  <2>1. CASE n # 0
    <3>1. n \in 1..10
      BY <2>1
    <3>2. g[n] = g[n - 1] + v[n] /\ ASI_CATEGORIES[n] \in DOMAIN ms /\ ms[ASI_CATEGORIES[n]][f] = v[n]
      BY <1>3, <3>1
    <3>3. (IF ASI_CATEGORIES[n] \in DOMAIN ms THEN ms[ASI_CATEGORIES[n]][f] ELSE 0) = v[n]
      BY <3>2
    <3> QED BY <2>1, <3>2, <3>3, Zenon
  <2> QED BY <1>3, <2>1
<1>5. g = [n \in 0..10 |->
            IF n = 0 THEN 0
            ELSE g[n - 1] + IF ASI_CATEGORIES[n] \in DOMAIN ms THEN ms[ASI_CATEGORIES[n]][f] ELSE 0]
  BY <1>3, <1>4, Zenon
<1>6. \E h : h = [n \in 0..10 |->
            IF n = 0 THEN 0
            ELSE h[n - 1] + IF ASI_CATEGORIES[n] \in DOMAIN ms THEN ms[ASI_CATEGORIES[n]][f] ELSE 0]
  BY <1>5
<1>7. PICK h : h = CHOOSE sum : sum = [n \in 0..10 |->
            IF n = 0 THEN 0
            ELSE sum[n - 1] + IF ASI_CATEGORIES[n] \in DOMAIN ms THEN ms[ASI_CATEGORIES[n]][f] ELSE 0]
  OBVIOUS
<1>8. h = [n \in 0..10 |->
            IF n = 0 THEN 0
            ELSE h[n - 1] + IF ASI_CATEGORIES[n] \in DOMAIN ms THEN ms[ASI_CATEGORIES[n]][f] ELSE 0]
  BY <1>6, <1>7
<1>9. Tally(ms, f) = h[10]
  BY <1>1, <1>7, Zenon DEF Tally
<1>10. h[0] = 0 /\ \A k \in 1..10 : h[k] = h[k - 1] + v[k]
  <2>1. h[0] = 0
    BY <1>8
  <2>2. ASSUME NEW k \in 1..10 PROVE h[k] = h[k - 1] + v[k]
    <3>1. k \in 0..10 /\ k # 0
      OBVIOUS
    <3>2. h[k] = h[k - 1] + IF ASI_CATEGORIES[k] \in DOMAIN ms THEN ms[ASI_CATEGORIES[k]][f] ELSE 0
      BY <1>8, <3>1
    <3>3. (IF ASI_CATEGORIES[k] \in DOMAIN ms THEN ms[ASI_CATEGORIES[k]][f] ELSE 0) = v[k]
      OBVIOUS
    <3> QED BY <3>2, <3>3, Zenon
  <2> QED BY <2>1, <2>2
<1>11. PICK T : T = {n \in Nat : n <= 10 => h[n] = g[n]}
  OBVIOUS
<1>12. 0 \in T
  BY <1>3, <1>10, <1>11
<1>13. ASSUME NEW n \in Nat, n \in T PROVE n + 1 \in T
  <2> SUFFICES ASSUME n + 1 <= 10 PROVE h[n + 1] = g[n + 1]
    BY <1>11
  <2>1. n + 1 \in 1..10 /\ (n + 1) - 1 = n /\ n <= 10
    OBVIOUS
  <2>2. h[n + 1] = h[n] + v[n + 1] /\ g[n + 1] = g[n] + v[n + 1]
    BY <1>3, <1>10, <2>1
  <2> QED BY <1>11, <1>13, <2>1, <2>2
<1>14. 10 \in T
  BY <1>12, <1>13, EveryNumber
<1>15. h[10] = g[10]
  BY <1>11, <1>14
<1> QED BY <1>2, <1>9, <1>15

\* When all is scored every category has one violation, found or missed.
LEMMA AllCounted ==
    ASSUME CalOK, pos = 20
    PROVE  overall_metrics(matrices).tp + overall_metrics(matrices).fn = Len(ASI_CATEGORIES)
<1>1. PICK ms : ms = matrices
  OBVIOUS
<1>2. \A k \in 1..10 : ASI_CATEGORIES[k] \in DOMAIN ms /\ Scored(ASI_CATEGORIES[k], 1, ms[ASI_CATEGORIES[k]])
  <2> SUFFICES ASSUME NEW k \in 1..10
               PROVE  ASI_CATEGORIES[k] \in DOMAIN ms /\ Scored(ASI_CATEGORIES[k], 1, ms[ASI_CATEGORIES[k]])
    OBVIOUS
  <2>1. 2 * k - 1 <= pos /\ 2 * k <= pos
    OBVIOUS
  <2> QED BY <1>1, <2>1 DEF CalOK
<1>3. ASSUME NEW k \in 1..10
      PROVE  /\ ms[ASI_CATEGORIES[k]]["tp"] \in Int /\ ms[ASI_CATEGORIES[k]]["fn"] \in Int
             /\ ms[ASI_CATEGORIES[k]]["tp"] + ms[ASI_CATEGORIES[k]]["fn"] = 1
  <2>1. PICK m : m = ms[ASI_CATEGORIES[k]]
    OBVIOUS
  <2>2. PICK a \in 0..1, b \in 0..1 : m = [tp |-> a, fp |-> b, fn |-> 1 - a, tn |-> 1 - b]
    BY <1>2, <2>1 DEF Scored
  <2>3. m["tp"] = a /\ m["fn"] = 1 - a
    BY <2>2
  <2> QED BY <2>1, <2>3
<1>4. PICK v, w : v = [k \in 1..10 |-> ms[ASI_CATEGORIES[k]]["tp"]] /\ w = [k \in 1..10 |-> ms[ASI_CATEGORIES[k]]["fn"]]
  OBVIOUS
<1>5. /\ v \in Seq(Int) /\ Len(v) = 10 /\ \A k \in 1..10 : ms[ASI_CATEGORIES[k]]["tp"] = v[k]
      /\ w \in Seq(Int) /\ Len(w) = 10 /\ \A k \in 1..10 : ms[ASI_CATEGORIES[k]]["fn"] = w[k]
  <2>1. v \in [1..10 -> Int] /\ w \in [1..10 -> Int]
    BY <1>3, <1>4
  <2> QED BY <1>4, <2>1
<1>6. PICK g : Sums(g, v) /\ Tally(ms, "tp") = g[10]
  <2>1. Fields(ms, "tp", v)
    BY <1>2, <1>5 DEF Fields
  <2> QED BY <2>1, TallyIs
<1>7. PICK h : Sums(h, w) /\ Tally(ms, "fn") = h[10]
  <2>1. Fields(ms, "fn", w)
    BY <1>2, <1>5 DEF Fields
  <2> QED BY <2>1, TallyIs
<1>8. /\ g \in [0..10 -> Int] /\ g[0] = 0 /\ \A k \in 1..10 : g[k] = g[k - 1] + v[k]
      /\ h \in [0..10 -> Int] /\ h[0] = 0 /\ \A k \in 1..10 : h[k] = h[k - 1] + w[k]
  BY <1>5, <1>6, <1>7 DEF Sums
<1>9. PICK T : T = {n \in Nat : n <= 10 => g[n] + h[n] = n}
  OBVIOUS
<1>10. 0 \in T
  BY <1>8, <1>9
<1>11. ASSUME NEW n \in Nat, n \in T PROVE n + 1 \in T
  <2> SUFFICES ASSUME n + 1 <= 10 PROVE g[n + 1] + h[n + 1] = n + 1
    BY <1>9
  <2>1. n + 1 \in 1..10 /\ (n + 1) - 1 = n /\ n <= 10 /\ n \in 0..10
    OBVIOUS
  <2>2. g[n + 1] = g[n] + v[n + 1] /\ h[n + 1] = h[n] + w[n + 1]
    BY <1>8, <2>1
  <2>3. v[n + 1] + w[n + 1] = 1 /\ v[n + 1] \in Int /\ w[n + 1] \in Int
    BY <1>3, <1>5, <2>1
  <2>4. g[n] + h[n] = n /\ g[n] \in Int /\ h[n] \in Int
    BY <1>8, <1>9, <1>11, <2>1
  <2> QED BY <2>2, <2>3, <2>4
<1>12. 10 \in T
  BY <1>10, <1>11, EveryNumber
<1>13. g[10] + h[10] = 10
  BY <1>9, <1>12
<1>14. overall_metrics(ms).tp = Tally(ms, "tp") /\ overall_metrics(ms).fn = Tally(ms, "fn")
  BY DEF overall_metrics, Tally
<1>15. Len(ASI_CATEGORIES) = 10
  BY DEF ASI_CATEGORIES
<1> QED BY <1>1, <1>6, <1>7, <1>13, <1>14, <1>15

\* What the disabling pass may have done.
LEMMA DisabledHolds ==
    ASSUME CalOK
    PROVE  DisabledOnlyByJudge /\ pos \in 0..Len(build_default_ground_truth) /\ disabled \subseteq DOMAIN matrices
<1>1. ASSUME NEW k \in 1..10, pos = 20, NEW m, m = matrices[ASI_CATEGORIES[k]]
      PROVE  /\ has_positives(m) /\ (BelowThreshold(m) <=> m.tp = 0 \/ m.fp > 0)
             /\ ASI_CATEGORIES[k] \notin Judged => ~BelowThreshold(m)
  <2>1. 2 * k - 1 <= pos /\ 2 * k <= pos
    BY <1>1
  <2>2. Scored(ASI_CATEGORIES[k], 1, m)
    BY <1>1, <2>1 DEF CalOK
  <2>3. PICK a \in 0..1, b \in 0..1 : /\ m = [tp |-> a, fp |-> b, fn |-> 1 - a, tn |-> 1 - b]
                                      /\ ASI_CATEGORIES[k] \notin Judged => a = 1 /\ b = 0
    BY <2>2 DEF Scored
  <2>4. m.tp = a /\ m.fp = b /\ m.fn = 1 - a
    BY <2>3
  <2>5. has_positives(m)
    BY <2>4 DEF has_positives
  <2>6. BelowThreshold(m) <=> a = 0 \/ b > 0
    BY <2>4 DEF BelowThreshold
  <2> QED BY <2>3, <2>4, <2>5, <2>6
<1>2. \A c \in DOMAIN matrices : \E k \in 1..10 : c = ASI_CATEGORIES[k]
  BY DEF CalOK
<1>3. disabled \subseteq Judged
  <2> SUFFICES ASSUME NEW c \in disabled, c \notin Judged PROVE FALSE
    OBVIOUS
  <2>1. pos = 20 /\ c \in DOMAIN matrices /\ BelowThreshold(matrices[c])
    BY DEF CalOK
  <2>2. PICK k \in 1..10 : c = ASI_CATEGORIES[k]
    BY <1>2, <2>1
  <2> QED BY <1>1, <2>1, <2>2
<1>4. ASSUME NEW i \in 1..Len(build_default_ground_truth), NEW entry, NEW judge, entry = build_default_ground_truth[i],
             judge = IF entry.category \in Judged THEN OfflineStubJudge(SliceOf(entry.category, entry.trace))
                     ELSE [verdict |-> "OK", confidence |-> 0]
      PROVE  default_predictor(entry, judge) <=> entry.label = "VIOLATION"
  <2>1. i \in 1..20
    BY CorpusIs
  <2> QED BY <1>4, <2>1, PredictorExact
<1>5. ASSUME report # EmptyMatrix
      PROVE  /\ \A c \in DOMAIN matrices : (matrices[c].tp = 0 \/ matrices[c].fp > 0) <=> c \in disabled
             /\ report.tp + report.fn = Len(ASI_CATEGORIES)
  <2>1. /\ pos = 20 /\ report = overall_metrics(matrices)
        /\ disabled = {c \in DOMAIN matrices : has_positives(matrices[c]) /\ BelowThreshold(matrices[c])}
    BY <1>5 DEF CalOK
  <2>2. \A c \in DOMAIN matrices : (matrices[c].tp = 0 \/ matrices[c].fp > 0) <=> c \in disabled
    <3> SUFFICES ASSUME NEW c \in DOMAIN matrices
                 PROVE  (matrices[c].tp = 0 \/ matrices[c].fp > 0) <=> c \in disabled
      OBVIOUS
    <3>1. PICK k \in 1..10 : c = ASI_CATEGORIES[k]
      BY <1>2
    <3>2. has_positives(matrices[c]) /\ (BelowThreshold(matrices[c]) <=> matrices[c].tp = 0 \/ matrices[c].fp > 0)
      BY <1>1, <2>1, <3>1
    <3> QED BY <2>1, <3>2
  <2> QED BY <2>1, <2>2, AllCounted
<1>6. DisabledOnlyByJudge
  BY <1>3, <1>4, <1>5 DEF DisabledOnlyByJudge
<1>7. pos \in 0..Len(build_default_ground_truth) /\ disabled \subseteq DOMAIN matrices
  BY CorpusIs DEF CalOK
<1> QED BY <1>6, <1>7

-----------------------------------------------------------------------------
\* The inductive invariant: each part of the state keeps its own.
EntriesOK == DOMAIN entries \subseteq Entries
DetectorInv == TraceOK /\ StoreOK /\ EntriesOK /\ BaseOK /\ CatalogOK /\ CalOK

\* A part whose variables stay keeps its invariant.
LEMMA Unmoved ==
    /\ TraceOK /\ UNCHANGED traceVars => TraceOK'
    /\ StoreOK /\ EntriesOK /\ UNCHANGED storeVars => StoreOK' /\ EntriesOK'
    /\ BaseOK /\ UNCHANGED baseVars => BaseOK'
    /\ CatalogOK /\ UNCHANGED catalogVars => CatalogOK'
    /\ CalOK /\ UNCHANGED calVars => CalOK'
<1>1. TraceOK /\ UNCHANGED traceVars => TraceOK'
  BY DEF TraceOK, traceVars
<1>2. StoreOK /\ EntriesOK /\ UNCHANGED storeVars => StoreOK' /\ EntriesOK'
  BY DEF StoreOK, EntriesOK, storeVars
<1>3. BaseOK /\ UNCHANGED baseVars => BaseOK'
  BY DEF BaseOK, baseVars
<1>4. CatalogOK /\ UNCHANGED catalogVars => CatalogOK'
  BY DEF CatalogOK, catalogVars
<1>5. CalOK /\ UNCHANGED calVars => CalOK'
  BY DEF CalOK, calVars
<1> QED BY <1>1, <1>2, <1>3, <1>4, <1>5

\* The invariant holds at first.
LEMMA DetectorInitInv ==
    ASSUME DetectorInit PROVE DetectorInv
<1>1. TraceOK
  <2>1. PICK g, m : audited = Trace(g, <<>>, m)
    BY DEF DetectorInit
  <2>2. audited.goal = g /\ audited.events = <<>> /\ audited.meta = m
    BY <2>1 DEF Trace
  <2>3. subject \in Parts
    BY DEF DetectorInit
  <2>4. PICK N \in Nat : N = MaxEvents(subject)
    BY <2>3, AlphabetAssumption
  <2>5. PICK v : v = <<>>
    OBVIOUS
  <2>6. v \in Seq(Emitted(subject)) /\ Len(v) = 0
    BY <2>5
  <2>7. FromAlphabet(subject, v)
    BY <2>4, <2>6 DEF FromAlphabet
  <2> QED BY <2>1, <2>2, <2>3, <2>5, <2>7 DEF TraceOK
<1>2. StoreOK
  BY StoreInitOK DEF DetectorInit
<1>3. EntriesOK
  BY DEF DetectorInit, StoreInit, EntriesOK
<1>4. BaseOK
  BY BaseInitOK DEF DetectorInit
<1>5. CatalogOK
  BY CatalogInitOK DEF DetectorInit
<1>6. CalOK
  BY CalInitOK DEF DetectorInit
<1> QED BY <1>1, <1>2, <1>3, <1>4, <1>5, <1>6 DEF DetectorInv

\* Every step keeps it: each action changes one part.
LEMMA DetectorStep ==
    ASSUME DetectorInv, [DetectorNext]_detectorVars PROVE DetectorInv'
<1>1. TraceOK /\ StoreOK /\ EntriesOK /\ BaseOK /\ CatalogOK /\ CalOK
  BY DEF DetectorInv
<1>2. CASE Emit
  <2>1. UNCHANGED storeVars /\ UNCHANGED baseVars /\ UNCHANGED catalogVars /\ UNCHANGED calVars
    BY <1>2 DEF Emit
  <2>2. TraceOK'
    BY <1>1, <1>2, EmitDoes
  <2> QED BY <1>1, <2>1, <2>2, Unmoved DEF DetectorInv
<1>3. CASE WriteEntry
  <2>1. UNCHANGED traceVars /\ UNCHANGED baseVars /\ UNCHANGED catalogVars /\ UNCHANGED calVars
    BY <1>3 DEF WriteEntry
  <2>2. PICK e \in Entries, r \in Runs, s \in {"web", "user"}, h \in 0..1 : write_entry(e, r, s, h)
    BY <1>3 DEF WriteEntry
  <2>3. StoreOK'
    BY <1>1, <2>2, WriteKeepsStore
  <2>4. EntriesOK'
    BY <1>1, <2>2 DEF write_entry, EntriesOK
  <2> QED BY <1>1, <2>1, <2>3, <2>4, Unmoved DEF DetectorInv
<1>4. CASE ReadEntry
  <2>1. UNCHANGED traceVars /\ UNCHANGED baseVars /\ UNCHANGED catalogVars /\ UNCHANGED calVars
    BY <1>4 DEF ReadEntry
  <2>2. PICK r \in Runs, e \in DOMAIN entries : record_read(r, e)
    BY <1>4 DEF ReadEntry
  <2>3. e \in Entries
    BY <1>1 DEF EntriesOK
  <2>4. StoreOK'
    BY <1>1, <2>2, <2>3, ReadKeepsStore
  <2>5. EntriesOK'
    BY <1>1, <2>2 DEF record_read, EntriesOK
  <2> QED BY <1>1, <2>1, <2>4, <2>5, Unmoved DEF DetectorInv
<1>5. CASE WalkChain
  <2>1. UNCHANGED traceVars /\ UNCHANGED baseVars /\ UNCHANGED catalogVars /\ UNCHANGED calVars
    BY <1>5 DEF WalkChain
  <2>2. PICK r \in Runs : walk_influence_chain(r)
    BY <1>5 DEF WalkChain
  <2>3. StoreOK'
    BY <1>1, <2>2, WalkKeepsStore
  <2>4. DOMAIN entries' = DOMAIN entries
    BY <2>2 DEF walk_influence_chain
  <2>5. EntriesOK'
    BY <1>1, <2>4 DEF EntriesOK
  <2> QED BY <1>1, <2>1, <2>3, <2>5, Unmoved DEF DetectorInv
<1>6. CASE Calibrate
  <2>1. UNCHANGED traceVars /\ UNCHANGED baseVars /\ UNCHANGED catalogVars /\ UNCHANGED storeVars
    BY <1>6 DEF Calibrate
  <2>2. CalOK'
    BY <1>1, <1>6, ScoreKeepsCal, ReportKeepsCal DEF Calibrate
  <2> QED BY <1>1, <2>1, <2>2, Unmoved DEF DetectorInv
<1>7. CASE publish
  <2>1. UNCHANGED traceVars /\ UNCHANGED baseVars /\ UNCHANGED storeVars /\ UNCHANGED calVars
    BY <1>7 DEF publish
  <2>2. CatalogOK'
    BY <1>1, <1>7, PublishKeepsCatalog
  <2> QED BY <1>1, <2>1, <2>2, Unmoved DEF DetectorInv
<1>8. CASE ChangeFiles
  <2>1. UNCHANGED traceVars /\ UNCHANGED baseVars /\ UNCHANGED storeVars /\ UNCHANGED calVars
    BY <1>8 DEF ChangeFiles
  <2>2. CatalogOK'
    BY <1>1, <1>8, ChangeKeepsCatalog
  <2> QED BY <1>1, <2>1, <2>2, Unmoved DEF DetectorInv
<1>9. CASE Observe
  <2>1. PICK x \in Observations : observe(x)
    BY <1>9 DEF Observe
  <2>2. UNCHANGED traceVars /\ UNCHANGED catalogVars /\ UNCHANGED storeVars /\ UNCHANGED calVars
    BY <2>1 DEF observe
  <2>3. x \in Int /\ running' = update(running, x) /\ observed' = Append(observed, x)
    BY <2>1, ObservationsAssumption DEF observe
  <2>4. BaseOK'
    BY <1>1, <2>3, ObserveKeepsBase
  <2> QED BY <1>1, <2>2, <2>4, Unmoved DEF DetectorInv
<1>10. CASE UNCHANGED detectorVars
  <2>1. UNCHANGED traceVars /\ UNCHANGED catalogVars /\ UNCHANGED baseVars /\ UNCHANGED storeVars /\ UNCHANGED calVars
    BY <1>10 DEF detectorVars
  <2> QED BY <1>1, <2>1, Unmoved DEF DetectorInv
<1> QED BY <1>2, <1>3, <1>4, <1>5, <1>6, <1>7, <1>8, <1>9, <1>10 DEF DetectorNext

\* The span search and the walk in a state of the invariant.
LEMMA SearchesExact ==
    ASSUME DetectorInv PROVE SpanCycleExact /\ WalkExact
<1>1. SpanCycleExact
  <2>1. audited.events \in Seq(Emitted(subject))
    BY DEF DetectorInv, TraceOK, FromAlphabet
  <2>2. Right(Adjacency(audited.events), _find_cycle(Adjacency(audited.events)))
    BY <2>1, RunCycleRight
  <2> QED BY <2>2 DEF Right, SpanCycleExact
<1>2. WalkExact
  <2>1. StoreOK
    BY DEF DetectorInv
  <2>2. \A r \in Runs : Poisoned(Chain(r)) = Influencing(r) /\ Len(Chain(r)) = Cardinality(Influencing(r))
    BY <2>1, ChainExact, ProvenanceAssumption
  <2>3. \A e \in DOMAIN entries : entries[e].quarantined => entries[e].tagged
    BY <2>1 DEF StoreOK
  <2> QED BY <2>2, <2>3 DEF WalkExact
<1> QED BY <1>1, <1>2

\* Each part of AlgorithmsExact from its part of the invariant.
LEMMA InvExact ==
    ASSUME DetectorInv PROVE AlgorithmsExact
<1>1. TypeOK
  <2>1. ASSUME NEW j \in JudgeAnswers, NEW v \in Verdicts(audited, j)
        PROVE  v.result \in VerdictResults /\ (j.confidence \in 0..100 => v.confidence \in 0..100)
    BY VerdictsWellFormed DEF WellFormed
  <2>2. subject \in Parts
    BY DEF DetectorInv, TraceOK
  <2>3. /\ \A e \in DOMAIN entries : entries[e] \in [writer : Runs, tagged : BOOLEAN, quarantined : BOOLEAN]
        /\ reads \in [Runs -> Seq(Entries)]
    BY DEF DetectorInv, StoreOK
  <2>4. pos \in 0..Len(build_default_ground_truth) /\ disabled \subseteq DOMAIN matrices
    BY DisabledHolds DEF DetectorInv
  <2>5. running.count = Len(observed)
    BY BaseExact DEF DetectorInv
  <2> QED BY <2>1, <2>2, <2>3, <2>4, <2>5 DEF TypeOK
<1>2. BaselineExact
  BY BaseExact DEF DetectorInv
<1>3. CatalogExact
  BY CatalogCompares DEF DetectorInv, CatalogOK, CatalogExact
<1> QED BY <1>1, <1>2, <1>3, SearchesExact DEF AlgorithmsExact

\* The invariant of every reachable state.
THEOREM DetectorInvariant == DetectorSpec => []DetectorInv
<1>1. DetectorInit => DetectorInv
  BY DetectorInitInv
<1>2. DetectorInv /\ [DetectorNext]_detectorVars => DetectorInv'
  BY DetectorStep
<1> QED BY <1>1, <1>2, PTL DEF DetectorSpec

\* The algorithms behind the detectors: the cycle search of _find_cycle accuses no run without a cycle, whatever spans
\* its events name, and misses none unless a span has several parents in a graph with a shorter cycle as well; the
\* influence-chain walk, the online variance and the catalog comparison are exact, and every verdict is well formed.
THEOREM AlgorithmsAreExact == DetectorSpec => []AlgorithmsExact
<1>1. DetectorInv => AlgorithmsExact
  BY InvExact
<1> QED BY <1>1, DetectorInvariant, PTL

\* What the patterns find is not talked away by the judge.
THEOREM JudgeCannotClear == DetectorSpec => []MarkersSurviveJudge
<1>1. DetectorInv => MarkersSurviveJudge
  BY MarkersSurvive
<1> QED BY <1>1, DetectorInvariant, PTL

\* The divergence findings do not depend on the order of arrival.
THEOREM OrderIrrelevant == DetectorSpec => []ArrivalOrderIrrelevant
<1>1. DetectorInv => ArrivalOrderIrrelevant
  <2>1. DetectorInv => audited.events \in Seq(Emitted(subject))
    BY DEF DetectorInv, TraceOK, FromAlphabet
  <2> QED BY <2>1, ArrivalOrder
<1> QED BY <1>1, DetectorInvariant, PTL

\* Calibration takes blocking authority only from categories whose detector asks the judge.
THEOREM AuthorityLostByJudge == DetectorSpec => []DisabledOnlyByJudge
<1>1. DetectorInv => DisabledOnlyByJudge
  BY DisabledHolds DEF DetectorInv
<1> QED BY <1>1, DetectorInvariant, PTL

\* A violation that a deterministic detector has found is not undone by later events, but for the spans in which
\* ASI02 can miss a cycle and the calls started anew that ASI08 counts by their last end.
THEOREM ViolationsAreKept == DetectorSpec => ViolationsStay
<1>1. ASSUME DetectorInv, DetectorInv', [DetectorNext]_detectorVars, audited' # audited
      PROVE  \A d \in {2, 3, 4, 5, 7, 8} :
               LET of(t) == CASE d = 2 -> Asi02(t) [] d = 3 -> Asi03(t) [] d = 4 -> Asi04(t)
                              [] d = 5 -> Asi05(t) [] d = 7 -> Asi07(t) [] OTHER -> Asi08(t)
               IN  /\ OfTrace(subject)
                   /\ d = 2 => NoneMissed(Adjacency(audited'.events))
                   /\ d = 8 => EndsFollow(audited'.events)
                   /\ Violates(of(audited))
                   => Violates(of(audited'))
  <2> SUFFICES ASSUME NEW d \in {2, 3, 4, 5, 7, 8}, d = 2 => NoneMissed(Adjacency(audited'.events)), d = 8 => EndsFollow(audited'.events)
               PROVE  LET of(t) == CASE d = 2 -> Asi02(t) [] d = 3 -> Asi03(t) [] d = 4 -> Asi04(t)
                                     [] d = 5 -> Asi05(t) [] d = 7 -> Asi07(t) [] OTHER -> Asi08(t)
                      IN  Violates(of(audited)) => Violates(of(audited'))
    OBVIOUS
  <2>1. DetectorNext /\ TraceOK
    BY <1>1 DEF DetectorInv, detectorVars, traceVars
  <2>2. /\ NoneMissed(Adjacency(audited'.events)) /\ Violates(Asi02(audited)) => Violates(Asi02(audited'))
        /\ Violates(Asi03(audited)) => Violates(Asi03(audited'))
        /\ Violates(Asi04(audited)) => Violates(Asi04(audited'))
        /\ Violates(Asi05(audited)) => Violates(Asi05(audited'))
        /\ Violates(Asi07(audited)) => Violates(Asi07(audited'))
        /\ EndsFollow(audited'.events) /\ Violates(Asi08(audited)) => Violates(Asi08(audited'))
    BY <1>1, <2>1, StepKeepsViolations
  <2> QED BY <2>2
<1>2. DetectorInv /\ DetectorInv' /\ [DetectorNext]_detectorVars
        => [\A d \in {2, 3, 4, 5, 7, 8} :
              LET of(t) == CASE d = 2 -> Asi02(t) [] d = 3 -> Asi03(t) [] d = 4 -> Asi04(t)
                             [] d = 5 -> Asi05(t) [] d = 7 -> Asi07(t) [] OTHER -> Asi08(t)
              IN  /\ OfTrace(subject)
                  /\ d = 2 => NoneMissed(Adjacency(audited'.events))
                  /\ d = 8 => EndsFollow(audited'.events)
                  /\ Violates(of(audited))
                  => Violates(of(audited'))]_audited
  BY <1>1
<1> QED BY <1>2, DetectorInvariant, PTL DEF DetectorSpec, ViolationsStay
================================================================================
