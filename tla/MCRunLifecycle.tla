----------------------------- MODULE MCRunLifecycle -----------------------------
(* RunLifecycle on a small instance: one run long enough to be forgotten and    *)
(* seen again by the dispatcher, one that only comes and goes.                  *)
EXTENDS RunLifecycle

CONSTANTS r1, r2

MCRuns == {r1, r2}
MCMaxEvents == [r \in MCRuns |-> IF r = r1 THEN 2 ELSE 1]
==============================================================================
