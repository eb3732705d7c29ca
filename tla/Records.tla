------------------------------ MODULE Records ------------------------------
(* What requests and jobs leave in the database, and what they read from it: *)
(* personal data at rest, searches, roles, the lifecycle of detectors, and  *)
(* what reviewers are shown.  The parts share a database and no row, so a   *)
(* behaviour is one of each.                                                *)
EXTENDS Redaction, Search, Access, DetectorLifecycle, ReviewFeed

VARIABLE part
reviewVars == <<feedVars, queueVars, pageVars>>
vars == <<part, restVars, searchVars, accessVars, lifecycleVars, reviewVars>>

\* Where the parts that do not run wait.
RestWaits == process = [backend |-> "regex", redact_at_rest |-> TRUE]
SearchWaits == tables = CHOOSE t \in Tables : TRUE

Init == /\ RestInit /\ SearchInit /\ AccessInit /\ LifecycleInit /\ FeedInit /\ QueueInit /\ PageInit
        /\ part \in {"rest", "search", "access", "lifecycle", "feed", "queue", "pages"}
        /\ part # "rest" => RestWaits
        /\ part # "search" => SearchWaits

ReviewNext == \/ part = "feed" /\ FeedNext /\ UNCHANGED <<queueVars, pageVars>>
              \/ part = "queue" /\ QueueNext /\ UNCHANGED <<feedVars, pageVars>>
              \/ part = "pages" /\ PageNext /\ UNCHANGED <<feedVars, queueVars>>

Next == /\ \/ part = "rest" /\ RestNext /\ UNCHANGED <<searchVars, accessVars, lifecycleVars, reviewVars>>
           \/ part = "search" /\ SearchNext /\ UNCHANGED <<restVars, accessVars, lifecycleVars, reviewVars>>
           \/ part = "access" /\ AccessNext /\ UNCHANGED <<restVars, searchVars, lifecycleVars, reviewVars>>
           \/ part = "lifecycle" /\ LifecycleNext /\ UNCHANGED <<restVars, searchVars, accessVars, reviewVars>>
           \/ ReviewNext /\ UNCHANGED <<restVars, searchVars, accessVars, lifecycleVars>>
        /\ UNCHANGED part

Spec == Init /\ [][Next]_vars
=============================================================================
