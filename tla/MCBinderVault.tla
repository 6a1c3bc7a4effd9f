---------------------------- MODULE MCBinderVault ----------------------------
(* Small instances of BinderVault for TLC. *)
EXTENDS BinderVault, TLC

CONSTANTS p1, p2, p3, b1, b2, c1, c2, u1, r1, r2

\* Two pages of one binder, and the page that a transfer would make in another.
MCBinderOf == [p \in Pages |-> IF p = p3 THEN b2 ELSE b1]
MCSizeOf == [p \in Pages |-> 1]
MCFirstPocket ==
    [s \in SlotsOf(FirstPages) |->
        IF s[1] = p1 THEN [Empty EXCEPT !.card = c1] ELSE [card |-> u1, owned |-> TRUE, wish |-> FALSE]]

Symmetric == Permutations(Requests)
=============================================================================
