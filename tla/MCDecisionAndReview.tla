-------------------------- MODULE MCDecisionAndReview --------------------------
(* The two places where a call or a run is stopped, on a small instance each: *)
(* the decision of the inline gate, for two connections of one run, two tools *)
(* of which one sends content out, and three inputs in a cache that holds     *)
(* two; and the review of flags, for two flags of the same or of two runs and *)
(* two reviewers deciding at the same time.  Nothing that one reads is        *)
(* written by the other, so a behaviour is one of one of them.                *)
EXTENDS GateDecision, HitlReview, TLC

CONSTANTS search, send_email, g1, f1, f2, r1, r2, q1, q2

MCTools == {search, send_email}
MCOutbound == {send_email}

\* OPA has no policy, then one that tells the inputs apart.
MCRego ==
    [pi \in Policies \X Inputs |->
        CASE pi[1] = 0 -> "undefined"
          [] pi[2] = search -> "DENY"
          [] pi[2] = send_email -> "CONFIRM"
          [] OTHER -> "ALLOW"]

MCFlags == {f1, f2}
MCRuns == {r1, r2}
\* Connections of the gate and requests of reviewers share their names: only one of the parts is at work.
MCRequests == {q1, q2}
MCSlots == MCRequests

VARIABLE part
allVars == <<part, vars, hitlVars>>

\* Where the review waits while the gate runs.
ReviewWaits == enforcer = "cgroup"

PartsInit == part \in {"gate", "review"} /\ Init /\ HitlInit /\ (part = "gate" => ReviewWaits)

PartsNext == \/ part = "gate" /\ Next /\ UNCHANGED <<part, hitlVars>>
             \/ part = "review" /\ HitlNext /\ UNCHANGED <<part, vars>>

PartsSpec == PartsInit /\ [][PartsNext]_allVars

\* No action and no invariant names a connection, flag, run under review or request.
Interchangeable == Permutations(MCFlags) \cup Permutations(MCRuns) \cup Permutations(MCRequests)
==============================================================================
