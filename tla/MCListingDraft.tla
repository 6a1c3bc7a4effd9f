---------------------------- MODULE MCListingDraft ----------------------------
(* Small instances of ListingDraft for TLC. *)
EXTENDS ListingDraft, TLC

DraftSymmetry ==
    Permutations(Drafters) \cup Permutations(Holdings)
        \cup Permutations(Lots) \cup Permutations(LotRequests)

-----------------------------------------------------------------------------
(* A view of the state without what no later step and no property reads:    *)
(* the copies a lot was priced for, which disposition a copy has that is    *)
(* not held, and the status of the row a draft was made from.                *)

DraftView(d) ==
    IF DraftAt(d, "inLot") THEN [NoDraft EXCEPT !.pc = "inLot"]
    ELSE [dra[d] EXCEPT !.snap.status = IF @ = "NONE" THEN @ ELSE "ERROR",
                        !.sold = @ /\ ~DraftAt(d, "store")]

LiveState ==
    <<ebayVars, row, path, {h \in Holdings : disp[h] = "HOLD"}, member, req,
      [l \in Lots |-> [lot[l] EXCEPT !.priced = {}]],
      [d \in Drafters |-> DraftView(d)]>>
=============================================================================
