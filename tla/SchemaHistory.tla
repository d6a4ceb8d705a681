---------------------------- MODULE SchemaHistory ---------------------------
(* What the record of migrations promises about a database: it starts with   *)
(* none applied, one is applied at a time on top of what it needs, and one is *)
(* reverted at a time, while nothing that is applied needs it.               *)
EXTENDS Integers

CONSTANTS Id,     \* the migrations
          Needs   \* pairs <<i, j>>: the statements of i refer to what j creates

VARIABLE applied

Apply(i) ==
    /\ i \notin applied
    /\ \A j \in Id : <<i, j>> \in Needs => j \in applied
    /\ applied' = applied \union {i}

Revert(i) ==
    /\ i \in applied
    /\ \A j \in applied : <<j, i>> \notin Needs
    /\ applied' = applied \ {i}

Init == applied = {}
Next == \E i \in Id : Apply(i) \/ Revert(i)
Spec == Init /\ [][Next]_applied
=============================================================================
