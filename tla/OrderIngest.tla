----------------------------- MODULE OrderIngest -----------------------------
(***************************************************************************)
(* Order ingest: service.ts ingestOrderLines and the store's insertOrder.   *)
(* An ingester is one running call, of the API route or of the order-sync   *)
(* job (a process of its own); each action is one awaited statement, and    *)
(* none of them shares a transaction with another.                          *)
(***************************************************************************)
EXTENDS EbayBase

CONSTANTS
    Ingesters,        \* concurrent ingest calls
    Crashes           \* whether a call may die between two statements

ASSUME CrashesIsBoolean == Crashes \in BOOLEAN

VARIABLES
    dbOrders,         \* marketplace_order: the external order ids
    dbLines,          \* marketplace_order_line
    observed,         \* market_observation: INTERNAL_SALE rows per order line
    ing               \* the calls in progress

ledgerVars == <<dbOrders, dbLines, observed>>
vars == <<baseVars, ledgerVars, ing>>

IngestPcs == {"idle", "next", "find", "order", "line", "sold", "observe", "path", "hold"}

Call == [pc: IngestPcs, todo: SUBSET Lines, line: Lines \cup {None},
         snap: Row, mine: BOOLEAN]

Idle == [pc |-> "idle", todo |-> {}, line |-> None, snap |-> NoRow, mine |-> FALSE]

TypeOK ==
    /\ BaseTypeOK
    /\ dbOrders \subseteq Orders
    /\ dbLines \subseteq Lines
    /\ observed \in [Lines -> Nat]
    /\ ing \in [Ingesters -> Call]
    /\ \A i \in Ingesters : ing[i].pc \notin {"idle", "next"} => ing[i].line \in Lines

\* Every copy is live on eBay, once.  Its row says so, or a publish died before
\* it could store what it had done.
LiveRows ==
    {[status |-> "PUBLISHED", offerId |-> TRUE, listingId |-> 1],
     [NoRow EXCEPT !.status = "READY_FOR_REVIEW"]}

Init ==
    /\ MaxListings > 0
    /\ offer = [h \in Holdings |-> "published"]
    /\ issued = [h \in Holdings |-> 1]
    /\ paid = {}
    /\ row \in [Holdings -> LiveRows]
    /\ path = [h \in Holdings |-> "listed_single"]
    /\ disp = [h \in Holdings |-> "SINGLE"]
    /\ dbOrders = {} /\ dbLines = {}
    /\ observed = [l \in Lines |-> 0]
    /\ ing = [i \in Ingesters |-> Idle]

-----------------------------------------------------------------------------

Copy(line) == line[2]
OrderOf(line) == line[1]

Becomes(i, next) == ing' = [ing EXCEPT ![i] = next]

At(i, pc) == ing[i].pc = pc

Goes(i, pc) == Becomes(i, [ing[i] EXCEPT !.pc = pc])

\* On to the next line of the payload, or done.
Continues(i) ==
    Becomes(i, IF ing[i].todo = {} THEN Idle
               ELSE [Idle EXCEPT !.pc = "next", !.todo = ing[i].todo])

\* getOrders: the orders paid so far, or a payload of them that was posted.
Fetch(i) ==
    /\ At(i, "idle") /\ paid # {}
    /\ Becomes(i, [Idle EXCEPT !.pc = "next", !.todo = paid])
    /\ UNCHANGED <<baseVars, ledgerVars>>

\* hasOrderLine: a line already in the books is skipped.
TakeLine(i, line) ==
    /\ At(i, "next") /\ line \in ing[i].todo
    /\ LET rest == ing[i].todo \ {line}
       IN  IF line \in dbLines
           THEN Becomes(i, IF rest = {} THEN Idle ELSE [ing[i] EXCEPT !.todo = rest])
           ELSE Becomes(i, [ing[i] EXCEPT !.pc = "find", !.todo = rest, !.line = line])
    /\ UNCHANGED <<baseVars, ledgerVars>>

\* findListingBySku
FindListing(i) ==
    /\ At(i, "find")
    /\ Becomes(i, [ing[i] EXCEPT !.pc = "order", !.snap = row[Copy(ing[i].line)]])
    /\ UNCHANGED <<baseVars, ledgerVars>>

\* Mutant: on conflict the existing order's id is used.
InsertOrderReturningId(i) ==
    /\ At(i, "order")
    /\ dbOrders' = dbOrders \cup {OrderOf(ing[i].line)}
    /\ Becomes(i, [ing[i] EXCEPT !.pc = "line", !.mine = TRUE])
    /\ UNCHANGED <<baseVars, dbLines, observed>>

\* Mutant: the line's order id is not the one the order was inserted under.
InsertOrderUnderOtherId(i) ==
    /\ At(i, "order")
    /\ dbOrders' = dbOrders \cup {OrderOf(ing[i].line)}
    /\ Becomes(i, [ing[i] EXCEPT !.pc = "line", !.mine = FALSE])
    /\ UNCHANGED <<baseVars, dbLines, observed>>

\* INSERT the order under a fresh id, ON CONFLICT (external id) DO NOTHING: the
\* fresh id is in the table only when there was no conflict.
InsertOrder(i) ==
    LET o == OrderOf(ing[i].line)
    IN  /\ At(i, "order")
        /\ dbOrders' = dbOrders \cup {o}
        /\ Becomes(i, [ing[i] EXCEPT !.pc = "line", !.mine = (o \notin dbOrders)])
        /\ UNCHANGED <<baseVars, dbLines, observed>>

\* Mutant: a refused line is swallowed and the sale completed all the same.
InsertLineSwallowingError(i) ==
    /\ At(i, "line")
    /\ dbLines' = IF ing[i].mine THEN dbLines \cup {ing[i].line} ELSE dbLines
    /\ IF ing[i].snap.status \in {"NONE", "SOLD"} THEN Continues(i) ELSE Goes(i, "sold")
    /\ UNCHANGED <<baseVars, dbOrders, observed>>

\* Mutant: the observation is written without marking the listing.
InsertLineThenObserve(i) ==
    /\ At(i, "line")
    /\ \/ /\ ing[i].mine
          /\ dbLines' = dbLines \cup {ing[i].line}
          /\ IF ing[i].snap.status \in {"NONE", "SOLD"}
             THEN Continues(i) ELSE Goes(i, "observe")
       \/ ~ing[i].mine /\ Becomes(i, Idle) /\ UNCHANGED dbLines
    /\ UNCHANGED <<baseVars, dbOrders, observed>>

\* Mutant: only a row that says PUBLISHED is completed.
InsertLineIfPublished(i) ==
    /\ At(i, "line")
    /\ \/ /\ ing[i].mine
          /\ dbLines' = dbLines \cup {ing[i].line}
          /\ IF ing[i].snap.status = "PUBLISHED" THEN Goes(i, "sold") ELSE Continues(i)
       \/ ~ing[i].mine /\ Becomes(i, Idle) /\ UNCHANGED dbLines
    /\ UNCHANGED <<baseVars, dbOrders, observed>>

\* INSERT the line under the fresh order id.  When that id did not go in, the
\* foreign key refuses the line and the whole call throws.
InsertLine(i) ==
    /\ At(i, "line")
    /\ \/ /\ ing[i].mine
          /\ dbLines' = dbLines \cup {ing[i].line}
          /\ IF ing[i].snap.status \in {"NONE", "SOLD"} THEN Continues(i) ELSE Goes(i, "sold")
       \/ ~ing[i].mine /\ Becomes(i, Idle) /\ UNCHANGED dbLines
    /\ UNCHANGED <<baseVars, dbOrders, observed>>

\* The row as it was found, with status SOLD.
MarkSold(i) ==
    /\ At(i, "sold")
    /\ UpsertListing(Copy(ing[i].line), [ing[i].snap EXCEPT !.status = "SOLD"])
    /\ Goes(i, "observe")
    /\ UNCHANGED <<ebayVars, path, disp, ledgerVars>>

InsertObservation(i) ==
    /\ At(i, "observe")
    /\ observed' = [observed EXCEPT ![ing[i].line] = @ + 1]
    /\ Goes(i, "path")
    /\ UNCHANGED <<baseVars, dbOrders, dbLines>>

\* Without a loaded holding for the SKU no disposition is written.
PatchPath(i) ==
    /\ At(i, "path")
    /\ PatchSalesPath(Copy(ing[i].line), "sold")
    /\ Goes(i, "hold") \/ Continues(i)
    /\ UNCHANGED <<ebayVars, row, disp, ledgerVars>>

\* Mutant: the reason code is stored as the disposition.
HoldWithReasonCode(i) ==
    /\ At(i, "hold")
    /\ disp' = [disp EXCEPT ![Copy(ing[i].line)] = "ALREADY_SOLD"]
    /\ Continues(i)
    /\ UNCHANGED <<ebayVars, row, path, ledgerVars>>

Hold(i) ==
    /\ At(i, "hold")
    /\ disp' = [disp EXCEPT ![Copy(ing[i].line)] = "HOLD"]
    /\ Continues(i)
    /\ UNCHANGED <<ebayVars, row, path, ledgerVars>>

Crash(i) ==
    /\ Crashes /\ ~At(i, "idle")
    /\ Becomes(i, Idle)
    /\ UNCHANGED <<baseVars, ledgerVars>>

Checkout(o, S) == BuyerChecksOut(o, S) /\ UNCHANGED <<ledgerVars, ing>>

\* The statements a call executes once it has begun.
Proceed(i) ==
    \/ \E line \in Lines : TakeLine(i, line)
    \/ FindListing(i) \/ InsertOrder(i) \/ InsertLine(i)
    \/ MarkSold(i) \/ InsertObservation(i) \/ PatchPath(i) \/ Hold(i)

Next ==
    \/ \E i \in Ingesters : Fetch(i) \/ Proceed(i) \/ Crash(i)
    \/ \E o \in Orders, S \in SUBSET Holdings : Checkout(o, S)

Spec == Init /\ [][Next]_vars

\* The job runs every hour, and a call that has begun goes on.
FairSpec == Spec /\ \A i \in Ingesters : WF_vars(Fetch(i)) /\ WF_vars(Proceed(i))

-----------------------------------------------------------------------------
(* Properties                                                              *)

\* The books follow the money: a copy is marked sold, in its row or on its
\* path, only when one of its paid lines was recorded first, and a line is
\* recorded only after the checkout.
SoldIsPaid ==
    /\ dbLines \subseteq paid
    /\ \A h \in Holdings :
          row[h].status = "SOLD" \/ path[h] = "sold" =>
              \E o \in Orders : <<o, h>> \in dbLines

\* Ingesting the same orders again, or twice at once, completes a line once.
OneObservationPerLine ==
    \A l \in Lines : observed[l] <= 1 /\ (observed[l] = 1 => l \in dbLines)

\* Every ingest, whatever its interleaving and crashes, is a run of the ledger.
Ledger ==
    INSTANCE SaleLedger WITH
        Copies <- Holdings, recorded <- dbLines, completions <- observed,
        sold <- {h \in Holdings : row[h].status = "SOLD"}

KeepsLedger == Ledger!Spec

\* Order ingest maps every paid line to its holding: sooner or later each paid
\* line is in the books.
EveryLineRecorded == \A l \in Lines : l \in paid ~> l \in dbLines

\* ... and a recorded sale is carried through: the listing SOLD, the path sold,
\* the INTERNAL_SALE written.
RecordedSaleCompletes ==
    \A l \in Lines :
        l \in dbLines ~>
            /\ row[Copy(l)].status = "SOLD"
            /\ path[Copy(l)] = "sold"
            /\ observed[l] = 1
=============================================================================
