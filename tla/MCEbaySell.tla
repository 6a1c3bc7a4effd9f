------------------------------ MODULE MCEbaySell ------------------------------
(* Small instances of EbaySell for TLC. *)
EXTENDS EbaySell

-----------------------------------------------------------------------------
(* A view of the state without what no later step and no property of        *)
(* EbaySell reads: the history of a publish, and the parts of the row a     *)
(* request read that it will not look at again.                             *)

\* Until the adapter returns, only the ids of the row that was read matter.
PublishView(p) ==
    [pub[p] EXCEPT !.unhindered = TRUE, !.stale = FALSE,
                   !.snap.status = IF pub[p].pc = "store" THEN @ ELSE "NONE"]

\* The line's insertion asks whether there is a row that is not sold; once the
\* row is SOLD the copy that was read is done with.
IngestView(i) ==
    LET c == ing[i]
    IN  CASE c.pc \in {"order", "line", "sold"} ->
               [c EXCEPT !.snap.status = IF @ \in {"NONE", "SOLD"} THEN @ ELSE "ACTIVE"]
          [] OTHER -> [c EXCEPT !.snap = NoRow]

\* The store asks whether there was a row, and keeps its ids.
DraftView(d) ==
    [dra[d] EXCEPT !.snap.status = IF @ = "NONE" THEN @ ELSE "ERROR"]

\* The history of the lots and of the requests on them.
LotView(l) == [lot[l] EXCEPT !.freed = FALSE]

RequestView(r) == [req[r] EXCEPT !.whole = FALSE]

LiveState ==
    <<baseVars, dbOrders, dbLines, observed, member, syn,
      [l \in Lots |-> LotView(l)],
      [r \in LotRequests |-> RequestView(r)],
      [p \in Publishers |-> PublishView(p)],
      [i \in Ingesters |-> IngestView(i)],
      [d \in Drafters |-> DraftView(d)]>>
=============================================================================
