----------------------------- MODULE SaleLedger -----------------------------
(***************************************************************************)
(* What order ingest promises, without requests, tables or interleavings:   *)
(* a paid order line is recorded at most once, a copy is marked sold only    *)
(* for a recorded line of it, and a recorded line is completed (gets its    *)
(* INTERNAL_SALE observation) at most once, after its copy was marked sold.  *)
(***************************************************************************)
EXTENDS Naturals

CONSTANTS Orders, Copies

VARIABLES
    paid,             \* order lines of completed checkouts
    recorded,         \* lines in the books
    sold,             \* copies marked sold
    completions       \* how often each line was completed

vars == <<paid, recorded, sold, completions>>

Lines == Orders \X Copies

Init ==
    /\ paid = {} /\ recorded = {} /\ sold = {}
    /\ completions = [l \in Lines |-> 0]

Pay(lines) ==
    /\ lines \subseteq Lines
    /\ paid' = paid \cup lines
    /\ UNCHANGED <<recorded, sold, completions>>

Record(line) ==
    /\ line \in paid \ recorded
    /\ recorded' = recorded \cup {line}
    /\ UNCHANGED <<paid, sold, completions>>

MarkSold(copy) ==
    /\ \E o \in Orders : <<o, copy>> \in recorded
    /\ sold' = sold \cup {copy}
    /\ UNCHANGED <<paid, recorded, completions>>

Complete(line) ==
    /\ line \in recorded /\ line[2] \in sold
    /\ completions[line] = 0
    /\ completions' = [completions EXCEPT ![line] = 1]
    /\ UNCHANGED <<paid, recorded, sold>>

Next ==
    \/ \E lines \in SUBSET Lines : Pay(lines)
    \/ \E line \in Lines : Record(line) \/ Complete(line)
    \/ \E copy \in Copies : MarkSold(copy)

Spec == Init /\ [][Next]_vars
=============================================================================
