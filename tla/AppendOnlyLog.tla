---------------------------- MODULE AppendOnlyLog ----------------------------
(***************************************************************************)
(* What the audit log promises its writers and readers: every tenant has   *)
(* one totally ordered history, and the only thing that ever happens to a  *)
(* history is that one entry is added at its end.                          *)
(***************************************************************************)
EXTENDS Sequences

CONSTANTS
    Tenants,    \* tenant ids
    Payloads    \* entry contents (payload and the hashed metadata)

VARIABLE
    log         \* tenant -> the sequence of contents appended so far

Init == log = [t \in Tenants |-> << >>]

AppendEntry(t, p) == log' = [log EXCEPT ![t] = Append(@, p)]

Next == \E t \in Tenants, p \in Payloads : AppendEntry(t, p)

Spec == Init /\ [][Next]_log
==============================================================================
