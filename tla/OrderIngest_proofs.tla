-------------------------- MODULE OrderIngest_proofs --------------------------
(***************************************************************************)
(* What order ingest guarantees for any holdings, orders and ingesters:     *)
(* types, the books following the money, one observation per line, and      *)
(* that every ingest is a run of SaleLedger.                                *)
(*                                                                         *)
(* The argument is one inductive invariant.  An order id is inserted by one *)
(* call only, the one that sees no conflict (`mine`); only that call can    *)
(* insert a line of the order, once; so only that call reaches the          *)
(* statements that complete the line, with nothing observed for it yet.     *)
(***************************************************************************)
EXTENDS OrderIngest, TLAPS

\* A call about to insert a line under the order id it put into the table.
Owns(i) == At(i, "line") /\ ing[i].mine

\* A call between a line it inserted and that line's observation.
Completing(i) == ing[i].pc \in {"sold", "observe"}

\* Whatever a call has in hand was paid.
InHandIsPaid ==
    /\ dbLines \subseteq paid
    /\ \A i \in Ingesters :
          /\ ing[i].todo \subseteq paid
          /\ ing[i].pc \notin {"idle", "next"} => ing[i].line \in paid

\* An owner's order is in the table without a line, and has no other owner.
OwnersAreAlone ==
    /\ \A l \in dbLines : OrderOf(l) \in dbOrders
    /\ \A i \in Ingesters : Owns(i) =>
          /\ OrderOf(ing[i].line) \in dbOrders
          /\ \A l \in dbLines : OrderOf(l) # OrderOf(ing[i].line)
          /\ \A j \in Ingesters \ {i} : Owns(j) => OrderOf(ing[j].line) # OrderOf(ing[i].line)

\* A call that completes a line is alone with it, and the first to do so.
CompletersAreAlone ==
    \A i \in Ingesters :
        /\ ing[i].pc \in {"sold", "observe", "path", "hold"} => ing[i].line \in dbLines
        /\ Completing(i) =>
              /\ observed[ing[i].line] = 0
              /\ \A j \in Ingesters \ {i} : Completing(j) => ing[j].line # ing[i].line

\* What no other component can undo.
Books ==
    /\ TypeOK
    /\ InHandIsPaid
    /\ OwnersAreAlone
    /\ CompletersAreAlone
    /\ SoldIsPaid
    /\ OneObservationPerLine

\* The row is marked before the line is observed.
SoldFirst ==
    \A i \in Ingesters : At(i, "observe") => row[Copy(ing[i].line)].status = "SOLD"

IInv == Books /\ SoldFirst

-----------------------------------------------------------------------------
(* Types                                                                   *)

\* Line is a pair of an order and a copy.
LEMMA LineParts ==
    ASSUME NEW l \in Lines
    PROVE  /\ OrderOf(l) \in Orders /\ Copy(l) \in Holdings
           /\ l = <<OrderOf(l), Copy(l)>>
BY DEF Lines, OrderOf, Copy

\* The records a call starts from and ends in, and the row of a sold listing.
LEMMA RecordsTyped ==
    /\ NoRow \in Row
    /\ Idle \in Call
    /\ \A r \in Row : [r EXCEPT !.status = "SOLD"] \in Row
BY BoundsAreNat DEF NoRow, Row, Statuses, ActiveStatuses, Idle, Call, IngestPcs

\* Init puts the system into typed states.
LEMMA InitTyped == Init => TypeOK
<1> SUFFICES ASSUME Init PROVE TypeOK
    OBVIOUS
<1>1. LiveRows \subseteq Row
    <2>1. 0 \in 0..MaxListings /\ 1 \in 0..MaxListings
        BY BoundsAreNat DEF Init
    <2>2. [status |-> "PUBLISHED", offerId |-> TRUE, listingId |-> 1] \in Row
        BY <2>1 DEF Row, Statuses, ActiveStatuses
    <2>3. [NoRow EXCEPT !.status = "READY_FOR_REVIEW"] \in Row
        BY <2>1 DEF NoRow, Row, Statuses
    <2> QED
        BY <2>2, <2>3 DEF LiveRows
<1>2. BaseTypeOK
    BY <1>1, BoundsAreNat
    DEF Init, BaseTypeOK, OfferStates, SalesPaths, Dispositions
<1>3. ing \in [Ingesters -> Call]
    BY RecordsTyped DEF Init
<1>4. \A i \in Ingesters : ing[i].pc = "idle"
    BY DEF Init, Idle
<1> QED
    BY <1>2, <1>3, <1>4 DEF Init, TypeOK

\* eBay and the rows stay typed when a call takes a step that leaves them be.
LEMMA BaseUnchanged ==
    ASSUME BaseTypeOK, UNCHANGED baseVars
    PROVE  BaseTypeOK'
BY DEF BaseTypeOK, baseVars

\* A call that moves to a typed record, with a line in hand when it needs one.
LEMMA MoveTyped ==
    ASSUME ing \in [Ingesters -> Call],
           \A i \in Ingesters : ing[i].pc \notin {"idle", "next"} => ing[i].line \in Lines,
           NEW i \in Ingesters, NEW next \in Call,
           next.pc \notin {"idle", "next"} => next.line \in Lines,
           Becomes(i, next)
    PROVE  /\ ing' \in [Ingesters -> Call]
           /\ \A j \in Ingesters :
                 ing'[j].pc \notin {"idle", "next"} => ing'[j].line \in Lines
BY DEF Becomes

\* A call's own statement keeps the types.
LEMMA ProceedTyped ==
    ASSUME TypeOK, NEW i \in Ingesters, Proceed(i)
    PROVE  TypeOK'
<1> DEFINE me == ing[i]
<1> USE DEF TypeOK, ledgerVars, At
<1>1. me \in Call
    OBVIOUS
<1>2. Idle \in Call /\ NoRow \in Row
    BY RecordsTyped
<1>3. ASSUME NEW l \in Lines, TakeLine(i, l)
      PROVE  TypeOK'
    <2>1. PICK next \in Call :
              /\ Becomes(i, next)
              /\ next.pc \notin {"idle", "next"} => next.line \in Lines
        <3>1. [me EXCEPT !.todo = @ \ {l}] \in Call
            BY <1>1 DEF Call
        <3>2. [me EXCEPT !.pc = "find", !.todo = @ \ {l}, !.line = l] \in Call
            BY <1>1 DEF Call, IngestPcs
        <3> QED
            BY <1>1, <1>2, <1>3, <3>1, <3>2 DEF TakeLine, Idle, Call
    <2> QED
        BY <1>3, <2>1, MoveTyped, BaseUnchanged DEF TakeLine
<1>4. CASE FindListing(i)
    <2>1. me.line \in Lines /\ row[Copy(me.line)] \in Row
        BY <1>4, LineParts DEF FindListing, BaseTypeOK
    <2>2. [me EXCEPT !.pc = "order", !.snap = row[Copy(me.line)]] \in Call
        BY <1>1, <2>1 DEF Call, IngestPcs
    <2> QED
        BY <1>4, <1>1, <2>1, <2>2, MoveTyped, BaseUnchanged DEF FindListing, Call
<1>5. CASE InsertOrder(i)
    <2>1. me.line \in Lines /\ OrderOf(me.line) \in Orders
        BY <1>5, LineParts DEF InsertOrder
    <2>2. [me EXCEPT !.pc = "line", !.mine = (OrderOf(me.line) \notin dbOrders)] \in Call
        BY <1>1 DEF Call, IngestPcs
    <2> QED
        BY <1>5, <1>1, <2>1, <2>2, MoveTyped, BaseUnchanged DEF InsertOrder, Call
<1>6. ASSUME Continues(i)
      PROVE  /\ ing' \in [Ingesters -> Call]
             /\ \A j \in Ingesters :
                   ing'[j].pc \notin {"idle", "next"} => ing'[j].line \in Lines
    <2>1. [Idle EXCEPT !.pc = "next", !.todo = me.todo] \in Call
        BY <1>1, <1>2 DEF Call, IngestPcs
    <2> QED
        BY <1>6, <1>2, <2>1, MoveTyped DEF Continues, Idle, Call
<1>7. ASSUME NEW pc \in IngestPcs, Goes(i, pc), me.line \in Lines
      PROVE  /\ ing' \in [Ingesters -> Call]
             /\ \A j \in Ingesters :
                   ing'[j].pc \notin {"idle", "next"} => ing'[j].line \in Lines
    <2>1. [me EXCEPT !.pc = pc] \in Call
        BY <1>1 DEF Call
    <2> QED
        BY <1>7, <1>1, <2>1, MoveTyped DEF Goes, Call
<1>8. CASE InsertLine(i)
    <2>1. me.line \in Lines
        BY <1>8 DEF InsertLine
    <2>2. dbLines' \subseteq Lines
        BY <1>8, <2>1 DEF InsertLine
    <2>3. /\ ing' \in [Ingesters -> Call]
          /\ \A j \in Ingesters :
                ing'[j].pc \notin {"idle", "next"} => ing'[j].line \in Lines
        <3>1. Continues(i) \/ Goes(i, "sold") \/ Becomes(i, Idle)
            BY <1>8 DEF InsertLine
        <3>2. CASE Becomes(i, Idle)
            BY <1>2, <3>2, MoveTyped DEF Idle
        <3> QED
            BY <1>6, <1>7, <2>1, <3>1, <3>2 DEF IngestPcs
    <2> QED
        BY <1>8, <2>2, <2>3, BaseUnchanged DEF InsertLine
<1>9. CASE MarkSold(i)
    <2>1. me.line \in Lines /\ Copy(me.line) \in Holdings
        BY <1>9, LineParts DEF MarkSold
    <2>2. [me.snap EXCEPT !.status = "SOLD"] \in Row
        BY <1>1, RecordsTyped DEF Call
    <2>3. row' \in [Holdings -> Row]
        BY <1>9, <2>1, <2>2 DEF MarkSold, UpsertListing, BaseTypeOK
    <2>4. BaseTypeOK'
        BY <1>9, <2>3 DEF MarkSold, BaseTypeOK, ebayVars
    <2> QED
        BY <1>9, <1>7, <2>1, <2>4 DEF MarkSold, IngestPcs
<1>10. CASE InsertObservation(i)
    <2>1. me.line \in Lines
        BY <1>10 DEF InsertObservation
    <2>2. observed' \in [Lines -> Nat]
        BY <1>10, <2>1 DEF InsertObservation
    <2> QED
        BY <1>10, <1>7, <2>1, <2>2, BaseUnchanged DEF InsertObservation, IngestPcs
<1>11. CASE PatchPath(i)
    <2>1. me.line \in Lines /\ Copy(me.line) \in Holdings
        BY <1>11, LineParts DEF PatchPath
    <2>2. BaseTypeOK'
        BY <1>11, <2>1 DEF PatchPath, PatchSalesPath, SalesPaths, BaseTypeOK, ebayVars
    <2> QED
        BY <1>11, <1>6, <1>7, <2>1, <2>2 DEF PatchPath, IngestPcs
<1>12. CASE Hold(i)
    <2>1. me.line \in Lines /\ Copy(me.line) \in Holdings
        BY <1>12, LineParts DEF Hold
    <2>2. BaseTypeOK'
        BY <1>12, <2>1 DEF Hold, Dispositions, BaseTypeOK, ebayVars
    <2> QED
        BY <1>12, <1>6, <2>2 DEF Hold
<1> QED
    BY <1>3, <1>4, <1>5, <1>8, <1>9, <1>10, <1>11, <1>12 DEF Proceed

\* A checkout keeps eBay's state typed.
LEMMA CheckoutTyped ==
    ASSUME TypeOK, NEW o \in Orders, NEW S \in SUBSET Holdings, Checkout(o, S)
    PROVE  TypeOK'
<1>1. paid' \subseteq Lines
    BY DEF TypeOK, BaseTypeOK, Checkout, BuyerChecksOut, Lines
<1>2. offer' \in [Holdings -> OfferStates]
    BY DEF TypeOK, BaseTypeOK, Checkout, BuyerChecksOut, OfferStates
<1> QED
    BY <1>1, <1>2 DEF TypeOK, BaseTypeOK, Checkout, BuyerChecksOut, dbVars, ledgerVars

\* Every step keeps the types.
LEMMA NextTyped == TypeOK /\ [Next]_vars => TypeOK'
<1> SUFFICES ASSUME TypeOK, [Next]_vars PROVE TypeOK'
    OBVIOUS
<1>1. ASSUME NEW i \in Ingesters, Fetch(i) PROVE TypeOK'
    <2>1. [Idle EXCEPT !.pc = "next", !.todo = paid] \in Call
        BY RecordsTyped DEF TypeOK, BaseTypeOK, Call, IngestPcs
    <2> QED
        BY <1>1, <2>1, MoveTyped, BaseUnchanged DEF Fetch, TypeOK, ledgerVars, Idle
<1>2. ASSUME NEW i \in Ingesters, Crash(i) PROVE TypeOK'
    BY <1>2, RecordsTyped, MoveTyped, BaseUnchanged DEF Crash, TypeOK, ledgerVars, Idle
<1>3. CASE UNCHANGED vars
    BY <1>3, BaseUnchanged DEF vars, ledgerVars, TypeOK
<1> QED
    BY <1>1, <1>2, <1>3, ProceedTyped, CheckoutTyped DEF Next

\* TypeOK is an invariant: no interleaving of calls leaves a value out of range.
THEOREM TypeCorrect == Spec => []TypeOK
BY InitTyped, NextTyped, PTL DEF Spec

-----------------------------------------------------------------------------
(* The inductive invariant                                                 *)

\* Empty books are right when nothing is marked sold.
LEMMA EmptyBooks ==
    ASSUME BaseTypeOK, dbOrders = {}, dbLines = {}, observed = [l \in Lines |-> 0],
           ing = [i \in Ingesters |-> Idle],
           \A h \in Holdings : row[h].status # "SOLD" /\ path[h] # "sold"
    PROVE  Books
<1>1. \A i \in Ingesters : ing[i].pc = "idle" /\ ing[i].todo = {}
    BY DEF Idle
<1>2. TypeOK
    BY <1>1, RecordsTyped DEF TypeOK
<1>3. InHandIsPaid /\ OwnersAreAlone /\ CompletersAreAlone
    BY <1>1 DEF InHandIsPaid, OwnersAreAlone, CompletersAreAlone, Owns, Completing, At
<1>4. SoldIsPaid /\ OneObservationPerLine
    BY DEF SoldIsPaid, OneObservationPerLine
<1> QED
    BY <1>2, <1>3, <1>4 DEF Books

\* Init establishes the invariant of the books.
LEMMA InitBooks == Init => Books
<1> SUFFICES ASSUME Init PROVE Books
    OBVIOUS
<1>1. \A h \in Holdings : row[h].status # "SOLD" /\ path[h] # "sold"
    BY DEF Init, LiveRows, NoRow
<1> QED
    BY <1>1, InitTyped, EmptyBooks DEF Init, TypeOK

\* What moving one call on does to the others: nothing.
LEMMA Moves ==
    ASSUME TypeOK, NEW i \in Ingesters, NEW next, Becomes(i, next)
    PROVE  ing'[i] = next /\ \A j \in Ingesters \ {i} : ing'[j] = ing[j]
BY DEF TypeOK, Becomes

\* A call that moves, and writes nothing, to a place where it neither owns an
\* order nor completes a line keeps the invariant.
LEMMA QuietMove ==
    ASSUME Books, TypeOK', NEW i \in Ingesters, NEW next, Becomes(i, next),
           UNCHANGED <<paid, row, path, ledgerVars>>,
           next.todo \subseteq paid,
           next.pc \notin {"idle", "next"} => next.line \in paid,
           next.pc \in {"idle", "next", "find", "order"}
    PROVE  Books'
<1>1. ing'[i] = next /\ \A j \in Ingesters \ {i} : ing'[j] = ing[j]
    BY Moves DEF Books
<1>2. InHandIsPaid'
    BY <1>1 DEF Books, InHandIsPaid, ledgerVars
<1>3. OwnersAreAlone'
    BY <1>1 DEF Books, OwnersAreAlone, Owns, At, ledgerVars
<1>4. CompletersAreAlone'
    BY <1>1 DEF Books, CompletersAreAlone, Completing, At, ledgerVars
<1>5. SoldIsPaid' /\ OneObservationPerLine'
    BY DEF Books, SoldIsPaid, OneObservationPerLine, ledgerVars
<1> QED
    BY <1>2, <1>3, <1>4, <1>5 DEF Books

\* A call that goes on with the line it has in hand.
LEMMA GoesOn ==
    ASSUME TypeOK, NEW i \in Ingesters, NEW pc, Goes(i, pc)
    PROVE  /\ ing'[i].pc = pc /\ ing'[i].line = ing[i].line
           /\ ing'[i].todo = ing[i].todo /\ ing'[i].mine = ing[i].mine
           /\ \A j \in Ingesters \ {i} : ing'[j] = ing[j]
<1>1. ing'[i] = [ing[i] EXCEPT !.pc = pc]
    BY Moves DEF Goes
<1>2. ing[i] \in Call
    BY DEF TypeOK
<1> QED
    BY <1>1, <1>2, Moves DEF Goes, Call

\* Going on to the next line, or ending, leads to a record with no line in hand.
LEMMA ContinuesTo ==
    ASSUME Books, NEW i \in Ingesters, Continues(i)
    PROVE  \E next : /\ Becomes(i, next)
                     /\ next.todo \subseteq paid
                     /\ next.pc \in {"idle", "next"}
<1> DEFINE next == [Idle EXCEPT !.pc = "next", !.todo = ing[i].todo]
<1>1. next.pc = "next" /\ next.todo = ing[i].todo
    BY DEF Idle
<1>2. Idle.pc = "idle" /\ Idle.todo = {}
    BY DEF Idle
<1>3. Becomes(i, Idle) \/ Becomes(i, next)
    BY DEF Continues
<1>4. ing[i].todo \subseteq paid
    BY DEF Books, InHandIsPaid
<1> HIDE DEF next
<1> QED
    BY <1>1, <1>2, <1>3, <1>4

\* ... and keeps the invariant when the books and the rows stay as they are.
LEMMA ContinuesInv ==
    ASSUME Books, TypeOK', NEW i \in Ingesters, Continues(i),
           UNCHANGED <<paid, row, dbOrders, dbLines, observed>>,
           SoldIsPaid', OneObservationPerLine'
    PROVE  Books'
<1>1. PICK next :
          /\ Becomes(i, next)
          /\ next.todo \subseteq paid
          /\ next.pc \in {"idle", "next"}
    BY ContinuesTo
<1>2. ing'[i] = next /\ \A j \in Ingesters \ {i} : ing'[j] = ing[j]
    BY <1>1, Moves DEF Books
<1>3. InHandIsPaid'
    BY <1>1, <1>2 DEF Books, InHandIsPaid
<1>4. OwnersAreAlone'
    BY <1>1, <1>2 DEF Books, OwnersAreAlone, Owns, At
<1>5. CompletersAreAlone'
    BY <1>1, <1>2 DEF Books, CompletersAreAlone, Completing, At
<1> QED
    BY <1>3, <1>4, <1>5 DEF Books

\* A call's own statement keeps the invariant.
LEMMA ProceedInv ==
    ASSUME Books, NEW i \in Ingesters, Proceed(i)
    PROVE  Books'
<1> DEFINE me == ing[i]
<1>0. TypeOK /\ TypeOK' /\ me \in Call
    BY ProceedTyped DEF Books, TypeOK
<1>1. ASSUME NEW l \in Lines, TakeLine(i, l) PROVE Books'
    <2>1. PICK next :
              /\ Becomes(i, next)
              /\ next.todo \subseteq me.todo
              /\ next.pc \in {"idle", "next", "find"}
              /\ next.pc = "find" => next.line \in me.todo
        <3>1. CASE Becomes(i, Idle)
            BY <3>1 DEF Idle
        <3>2. CASE Becomes(i, [me EXCEPT !.todo = @ \ {l}])
            <4>1. /\ [me EXCEPT !.todo = @ \ {l}].todo = me.todo \ {l}
                  /\ [me EXCEPT !.todo = @ \ {l}].pc = "next"
                BY <1>0, <1>1 DEF TakeLine, At, Call
            <4> QED
                BY <3>2, <4>1
        <3>3. CASE Becomes(i, [me EXCEPT !.pc = "find", !.todo = @ \ {l}, !.line = l])
            <4> DEFINE next == [me EXCEPT !.pc = "find", !.todo = @ \ {l}, !.line = l]
            <4>1. next.todo = me.todo \ {l} /\ next.pc = "find" /\ next.line = l
                BY <1>0 DEF Call
            <4>2. l \in me.todo
                BY <1>1 DEF TakeLine
            <4>3. Becomes(i, next)
                BY <3>3
            <4> HIDE DEF next
            <4> QED
                BY <4>1, <4>2, <4>3
        <3> QED
            BY <1>1, <3>1, <3>2, <3>3 DEF TakeLine
    <2>2. me.todo \subseteq paid
        BY DEF Books, InHandIsPaid
    <2> QED
        BY <1>0, <1>1, <2>1, <2>2, QuietMove DEF TakeLine, baseVars
<1>2. CASE FindListing(i)
    <2>1. me.todo \subseteq paid /\ me.line \in paid
        BY <1>2 DEF Books, InHandIsPaid, FindListing, At
    <2> QED
        BY <1>0, <1>2, <2>1, QuietMove DEF FindListing, baseVars, Call
<1>4. CASE InsertOrder(i)
    <2> DEFINE o == OrderOf(me.line)
    <2>1. \A j \in Ingesters \ {i} : ing'[j] = ing[j]
        BY <1>0, <1>4, Moves DEF InsertOrder
    <2>2. /\ ing'[i].pc = "line" /\ ing'[i].mine = (o \notin dbOrders)
          /\ ing'[i].line = me.line /\ ing'[i].todo = me.todo
        <3>1. ing'[i] = [me EXCEPT !.pc = "line", !.mine = (o \notin dbOrders)]
            BY <1>0, <1>4, Moves DEF InsertOrder
        <3> QED
            BY <1>0, <3>1 DEF Call
    <2>3. /\ dbOrders' = dbOrders \cup {o}
          /\ UNCHANGED <<paid, row, path, dbLines, observed>>
        BY <1>4 DEF InsertOrder, baseVars
    <2>4. InHandIsPaid'
        BY <1>4, <2>1, <2>2, <2>3 DEF Books, InHandIsPaid, InsertOrder, At
    <2>5. OwnersAreAlone'
        <3>1. \A j \in Ingesters \ {i} : Owns(j)' <=> Owns(j)
            BY <2>1 DEF Owns, At
        <3>2. Owns(i)' <=> o \notin dbOrders
            BY <2>2 DEF Owns, At
        <3>3. \A l \in dbLines : OrderOf(l) \in dbOrders
            BY DEF Books, OwnersAreAlone
        <3>4. \A j \in Ingesters : Owns(j) =>
                  /\ OrderOf(ing[j].line) \in dbOrders
                  /\ \A l \in dbLines : OrderOf(l) # OrderOf(ing[j].line)
                  /\ \A k \in Ingesters \ {j} :
                        Owns(k) => OrderOf(ing[k].line) # OrderOf(ing[j].line)
            BY DEF Books, OwnersAreAlone
        <3> QED
            BY <2>1, <2>2, <2>3, <3>1, <3>2, <3>3, <3>4 DEF OwnersAreAlone, OrderOf
    <2>6. CompletersAreAlone'
        BY <2>1, <2>2, <2>3 DEF Books, CompletersAreAlone, Completing, At
    <2>7. SoldIsPaid' /\ OneObservationPerLine'
        BY <2>3 DEF Books, SoldIsPaid, OneObservationPerLine
    <2> QED
        BY <1>0, <2>4, <2>5, <2>6, <2>7 DEF Books
<1>5. CASE InsertLine(i)
    <2>1. CASE ~me.mine
        <3>1. Becomes(i, Idle) /\ UNCHANGED <<paid, row, path, ledgerVars>>
            BY <1>5, <2>1 DEF InsertLine, baseVars, ledgerVars
        <3> QED
            BY <1>0, <3>1, QuietMove DEF Idle
    <2>2. CASE me.mine
        <3>1. Owns(i) /\ me.line \in paid /\ me.line \in Lines
            BY <1>0, <1>5, <2>2 DEF InsertLine, Owns, At, Books, InHandIsPaid, TypeOK
        <3>2. me.line \notin dbLines /\ observed[me.line] = 0
            <4>1. me.line \notin dbLines
                BY <3>1 DEF Books, OwnersAreAlone
            <4>2. observed[me.line] \in Nat /\ observed[me.line] <= 1
                BY <1>0, <3>1 DEF Books, OneObservationPerLine, TypeOK
            <4>3. observed[me.line] # 1
                BY <3>1, <4>1 DEF Books, OneObservationPerLine
            <4> QED
                BY <4>1, <4>2, <4>3
        <3>3. /\ dbLines' = dbLines \cup {me.line}
              /\ UNCHANGED <<paid, row, path, dbOrders, observed>>
            BY <1>5, <2>2 DEF InsertLine, baseVars
        <3>4. PICK next :
                  /\ Becomes(i, next)
                  /\ next.todo \subseteq paid
                  /\ \/ next.pc \in {"idle", "next"}
                     \/ next.pc = "sold" /\ next.line = me.line
            <4>1. CASE Continues(i)
                BY <4>1, ContinuesTo
            <4>2. CASE Goes(i, "sold")
                BY <1>0, <4>2 DEF Goes, Call, Books, InHandIsPaid
            <4> QED
                BY <1>5, <2>2, <4>1, <4>2 DEF InsertLine
        <3>5. ing'[i] = next /\ \A j \in Ingesters \ {i} : ing'[j] = ing[j]
            BY <1>0, <3>4, Moves
        <3>6. InHandIsPaid'
            BY <3>1, <3>3, <3>4, <3>5 DEF Books, InHandIsPaid
        <3>7. OwnersAreAlone'
            BY <3>1, <3>3, <3>4, <3>5 DEF Books, OwnersAreAlone, Owns, At
        <3>8. CompletersAreAlone'
            BY <3>2, <3>3, <3>4, <3>5 DEF Books, CompletersAreAlone, Completing, At
        <3>9. SoldIsPaid' /\ OneObservationPerLine'
            BY <3>1, <3>3 DEF Books, SoldIsPaid, OneObservationPerLine
        <3> QED
            BY <1>0, <3>6, <3>7, <3>8, <3>9 DEF Books
    <2> QED
        BY <2>1, <2>2
<1>6. CASE MarkSold(i)
    <2>1. me.line \in dbLines /\ me.line \in Lines /\ Copy(me.line) \in Holdings
        BY <1>0, <1>6, LineParts DEF MarkSold, At, Books, CompletersAreAlone, TypeOK
    <2>2. \A j \in Ingesters \ {i} : ing'[j] = ing[j]
        BY <1>0, <1>6, GoesOn DEF MarkSold
    <2>3. /\ ing'[i].pc = "observe" /\ ing'[i].line = me.line /\ ing'[i].todo = me.todo
          /\ me.pc = "sold"
        BY <1>0, <1>6, GoesOn DEF MarkSold, At
    <2>4. \A h \in Holdings :
              row'[h].status = IF h = Copy(me.line) THEN "SOLD" ELSE row[h].status
        <3>1. me.snap \in Row
            BY <1>0 DEF Call
        <3>2. [me.snap EXCEPT !.status = "SOLD"].status = "SOLD"
            BY <3>1 DEF Row
        <3> QED
            BY <1>0, <1>6, <2>1, <3>2 DEF MarkSold, UpsertListing, TypeOK, BaseTypeOK
    <2>5. UNCHANGED <<paid, path, dbOrders, dbLines, observed>>
        BY <1>6 DEF MarkSold, ebayVars, ledgerVars
    <2>6. InHandIsPaid'
        BY <2>2, <2>3, <2>5 DEF Books, InHandIsPaid, At
    <2>7. OwnersAreAlone'
        BY <2>2, <2>3, <2>5 DEF Books, OwnersAreAlone, Owns, At
    <2>8. CompletersAreAlone'
        BY <2>1, <2>2, <2>3, <2>5 DEF Books, CompletersAreAlone, Completing, At
    <2>9. SoldIsPaid' /\ OneObservationPerLine'
        <3>1. <<OrderOf(me.line), Copy(me.line)>> \in dbLines /\ OrderOf(me.line) \in Orders
            BY <2>1, LineParts
        <3> QED
            BY <2>4, <2>5, <3>1 DEF Books, SoldIsPaid, OneObservationPerLine
    <2> QED
        BY <1>0, <2>6, <2>7, <2>8, <2>9 DEF Books
<1>7. CASE InsertObservation(i)
    <2>1. /\ me.line \in dbLines /\ me.line \in Lines
          /\ observed[me.line] = 0
        BY <1>0, <1>7 DEF InsertObservation, At, Books, CompletersAreAlone, Completing, TypeOK
    <2>2. \A j \in Ingesters \ {i} : ing'[j] = ing[j]
        BY <1>0, <1>7, GoesOn DEF InsertObservation
    <2>3. /\ ing'[i].pc = "path" /\ ing'[i].line = me.line /\ ing'[i].todo = me.todo
          /\ me.pc = "observe"
        BY <1>0, <1>7, GoesOn DEF InsertObservation, At
    <2>4. /\ observed' = [observed EXCEPT ![me.line] = 1]
          /\ UNCHANGED <<paid, row, path, dbOrders, dbLines>>
        BY <1>0, <1>7, <2>1 DEF InsertObservation, baseVars, TypeOK
    <2>5. InHandIsPaid'
        BY <2>1, <2>2, <2>3, <2>4 DEF Books, InHandIsPaid, At
    <2>6. OwnersAreAlone'
        BY <2>2, <2>3, <2>4 DEF Books, OwnersAreAlone, Owns, At
    <2>7. CompletersAreAlone'
        BY <1>0, <2>1, <2>2, <2>3, <2>4
        DEF Books, CompletersAreAlone, Completing, At, TypeOK
    <2>8. SoldIsPaid' /\ OneObservationPerLine'
        BY <1>0, <2>1, <2>4 DEF Books, SoldIsPaid, OneObservationPerLine, TypeOK
    <2> QED
        BY <1>0, <2>5, <2>6, <2>7, <2>8 DEF Books
<1>8. CASE PatchPath(i)
    <2>1. me.line \in dbLines /\ me.line \in Lines
        BY <1>0, <1>8 DEF PatchPath, At, Books, CompletersAreAlone, TypeOK
    <2>2. OrderOf(me.line) \in Orders /\ <<OrderOf(me.line), Copy(me.line)>> \in dbLines
        BY <2>1, LineParts
    <2>3. UNCHANGED <<paid, row, dbOrders, dbLines, observed>>
        BY <1>8 DEF PatchPath, ebayVars, ledgerVars
    <2>4. SoldIsPaid' /\ OneObservationPerLine'
        <3>1. \A h \in Holdings : path'[h] = "sold" => h = Copy(me.line) \/ path[h] = "sold"
            BY <1>0, <1>8 DEF PatchPath, PatchSalesPath, TypeOK, BaseTypeOK
        <3> QED
            BY <2>2, <2>3, <3>1 DEF Books, SoldIsPaid, OneObservationPerLine
    <2>5. CASE Goes(i, "hold")
        <3>1. /\ ing'[i].pc = "hold" /\ ing'[i].line = me.line /\ ing'[i].todo = me.todo
              /\ me.pc = "path" /\ \A j \in Ingesters \ {i} : ing'[j] = ing[j]
            BY <1>0, <1>8, <2>5, GoesOn DEF PatchPath, At
        <3>2. InHandIsPaid'
            BY <2>3, <3>1 DEF Books, InHandIsPaid
        <3>3. OwnersAreAlone'
            BY <2>3, <3>1 DEF Books, OwnersAreAlone, Owns, At
        <3>4. CompletersAreAlone'
            BY <2>1, <2>3, <3>1 DEF Books, CompletersAreAlone, Completing, At
        <3> QED
            BY <1>0, <2>4, <3>2, <3>3, <3>4 DEF Books
    <2>6. CASE Continues(i)
        BY <1>0, <2>3, <2>4, <2>6, ContinuesInv
    <2> QED
        BY <1>8, <2>5, <2>6 DEF PatchPath
<1>9. CASE Hold(i)
    <2>1. UNCHANGED <<paid, row, path, dbOrders, dbLines, observed>>
        BY <1>9 DEF Hold, ebayVars, ledgerVars
    <2>2. SoldIsPaid' /\ OneObservationPerLine'
        BY <2>1 DEF Books, SoldIsPaid, OneObservationPerLine
    <2> QED
        BY <1>0, <1>9, <2>1, <2>2, ContinuesInv DEF Hold
<1> QED
    BY <1>1, <1>2, <1>4, <1>5, <1>6, <1>7, <1>8, <1>9 DEF Proceed

\* A checkout only adds to what was paid.
LEMMA CheckoutInv ==
    ASSUME Books, NEW o \in Orders, NEW S \in SUBSET Holdings, Checkout(o, S)
    PROVE  Books'
<1>1. TypeOK'
    BY CheckoutTyped DEF Books
<1>2. paid \subseteq paid' /\ UNCHANGED <<row, path, dbOrders, dbLines, observed, ing>>
    BY DEF Checkout, BuyerChecksOut, dbVars, ledgerVars
<1>3. InHandIsPaid' /\ OwnersAreAlone' /\ CompletersAreAlone'
    BY <1>2 DEF Books, InHandIsPaid, OwnersAreAlone, CompletersAreAlone, Owns, Completing, At
<1>4. SoldIsPaid' /\ OneObservationPerLine'
    BY <1>2 DEF Books, SoldIsPaid, OneObservationPerLine
<1> QED
    BY <1>1, <1>3, <1>4 DEF Books

\* A fetch begins with what is paid; a crash ends with nothing.
LEMMA EdgesInv ==
    ASSUME Books, NEW i \in Ingesters, Fetch(i) \/ Crash(i)
    PROVE  Books'
<1> DEFINE fetched == [Idle EXCEPT !.pc = "next", !.todo = paid]
<1>1. TypeOK'
    BY NextTyped DEF Books, Next
<1>2. Idle.pc = "idle" /\ Idle.todo = {} /\ fetched.pc = "next" /\ fetched.todo = paid
    BY DEF Idle
<1>3. UNCHANGED <<paid, row, path, ledgerVars>>
    BY DEF Fetch, Crash, baseVars
<1>4. Becomes(i, fetched) \/ Becomes(i, Idle)
    BY DEF Fetch, Crash
<1> HIDE DEF fetched
<1> QED
    BY <1>1, <1>2, <1>3, <1>4, QuietMove

\* Every step keeps the books.
LEMMA NextBooks == Books /\ [Next]_vars => Books'
<1> SUFFICES ASSUME Books, [Next]_vars PROVE Books'
    OBVIOUS
<1>1. CASE UNCHANGED vars
    <2>1. UNCHANGED <<paid, row, path, dbOrders, dbLines, observed, ing>>
        BY <1>1 DEF vars, baseVars, ledgerVars
    <2>2. InHandIsPaid' /\ OwnersAreAlone' /\ CompletersAreAlone'
        BY <2>1 DEF Books, InHandIsPaid, OwnersAreAlone, CompletersAreAlone, Owns, Completing, At
    <2>3. SoldIsPaid' /\ OneObservationPerLine'
        BY <2>1 DEF Books, SoldIsPaid, OneObservationPerLine
    <2> QED
        BY <2>2, <2>3, NextTyped DEF Books
<1> QED
    BY <1>1, EdgesInv, ProceedInv, CheckoutInv DEF Next

\* With nobody else about, a row that was marked sold is still marked when its
\* line is observed.
LEMMA NextSoldFirst == IInv /\ [Next]_vars => SoldFirst'
<1> SUFFICES ASSUME IInv, [Next]_vars, NEW j \in Ingesters, At(j, "observe")'
             PROVE  (row[Copy(ing[j].line)].status = "SOLD")'
    BY DEF SoldFirst
<1>1. TypeOK /\ TypeOK'
    BY NextTyped DEF IInv, Books
<1>2. Copy(ing'[j].line) \in Holdings
    BY <1>1, LineParts DEF TypeOK, At
<1>3. CASE \E i \in Ingesters : MarkSold(i)
    <2>1. PICK i \in Ingesters : MarkSold(i)
        BY <1>3
    <2>2. Copy(ing[i].line) \in Holdings /\ ing[i].snap \in Row
        BY <1>1, <2>1, LineParts DEF TypeOK, MarkSold, At, Call
    <2>3. [ing[i].snap EXCEPT !.status = "SOLD"].status = "SOLD"
        BY <2>2 DEF Row
    <2>4. \A h \in Holdings :
              row'[h].status = IF h = Copy(ing[i].line) THEN "SOLD" ELSE row[h].status
        BY <1>1, <2>1, <2>2, <2>3 DEF MarkSold, UpsertListing, TypeOK, BaseTypeOK
    <2>5. ing'[i].line = ing[i].line /\ \A k \in Ingesters \ {i} : ing'[k] = ing[k]
        BY <1>1, <2>1, GoesOn DEF MarkSold
    <2> QED
        BY <1>2, <2>4, <2>5 DEF IInv, SoldFirst, At
<1>4. CASE UNCHANGED row /\ ing'[j] = ing[j]
    BY <1>4 DEF IInv, SoldFirst, At
<1>5. CASE \E i \in Ingesters : Fetch(i) \/ Crash(i) \/ FindListing(i) \/ InsertOrder(i)
              \/ InsertLine(i) \/ InsertObservation(i) \/ PatchPath(i) \/ Hold(i)
              \/ \E l \in Lines : TakeLine(i, l)
    <2>1. PICK i \in Ingesters :
              Fetch(i) \/ Crash(i) \/ FindListing(i) \/ InsertOrder(i)
              \/ InsertLine(i) \/ InsertObservation(i) \/ PatchPath(i) \/ Hold(i)
              \/ \E l \in Lines : TakeLine(i, l)
        BY <1>5
    <2>2. UNCHANGED row
        BY <2>1
        DEF Fetch, Crash, FindListing, InsertOrder, InsertLine, InsertObservation, PatchPath,
            Hold, TakeLine, baseVars
    <2>3. PICK next : Becomes(i, next) /\ next.pc # "observe"
        <3>1. ing[i] \in Call
            BY <1>1 DEF TypeOK
        <3>2. Idle.pc = "idle" /\ [Idle EXCEPT !.pc = "next", !.todo = paid].pc = "next"
              /\ [Idle EXCEPT !.pc = "next", !.todo = ing[i].todo].pc = "next"
            BY DEF Idle
        <3>3. CASE Fetch(i) \/ Crash(i)
            BY <3>2, <3>3 DEF Fetch, Crash
        <3>4. CASE Continues(i)
            BY <3>2, <3>4 DEF Continues
        <3>5. ASSUME NEW pc \in {"sold", "path", "hold"}, Goes(i, pc)
              PROVE  \E next : Becomes(i, next) /\ next.pc # "observe"
            BY <3>1, <3>5 DEF Goes, Call
        <3>6. CASE FindListing(i) \/ InsertOrder(i) \/ \E l \in Lines : TakeLine(i, l)
            <4>1. ASSUME NEW next, Becomes(i, next), next.pc # "observe"
                  PROVE  \E to : Becomes(i, to) /\ to.pc # "observe"
                BY <4>1
            <4>2. [ing[i] EXCEPT !.pc = "order", !.snap = row[Copy(ing[i].line)]].pc = "order"
                BY <3>1 DEF Call
            <4>3. [ing[i] EXCEPT !.pc = "line",
                                 !.mine = (OrderOf(ing[i].line) \notin dbOrders)].pc = "line"
                BY <3>1 DEF Call
            <4>4. \A l \in Lines :
                      /\ [ing[i] EXCEPT !.pc = "find", !.todo = ing[i].todo \ {l}, !.line = l].pc = "find"
                      /\ [ing[i] EXCEPT !.todo = ing[i].todo \ {l}].pc = ing[i].pc
                BY <3>1 DEF Call
            <4>5. CASE FindListing(i)
                BY <4>1, <4>2, <4>5 DEF FindListing
            <4>6. CASE InsertOrder(i)
                BY <4>1, <4>3, <4>6 DEF InsertOrder
            <4>7. ASSUME NEW l \in Lines, TakeLine(i, l)
                  PROVE  \E to : Becomes(i, to) /\ to.pc # "observe"
                BY <3>2, <4>1, <4>4, <4>7 DEF TakeLine, At
            <4> QED
                BY <3>6, <4>5, <4>6, <4>7
        <3> QED
            BY <2>1, <3>2, <3>3, <3>4, <3>5, <3>6
            DEF InsertLine, InsertObservation, PatchPath, Hold
    <2>4. ing'[i] = next /\ \A k \in Ingesters \ {i} : ing'[k] = ing[k]
        BY <1>1, <2>3, Moves
    <2>5. j # i
        BY <2>3, <2>4 DEF At
    <2> QED
        BY <1>4, <2>2, <2>4, <2>5
<1>6. CASE \E o \in Orders, S \in SUBSET Holdings : Checkout(o, S)
    BY <1>4, <1>6 DEF Checkout, BuyerChecksOut, dbVars
<1>7. CASE UNCHANGED vars
    BY <1>4, <1>7 DEF vars, baseVars
<1> QED
    BY <1>3, <1>5, <1>6, <1>7 DEF Next, Proceed

\* The inductive invariant holds of every run.
LEMMA Invariance == Spec => []IInv
<1>1. Init => IInv
    BY InitBooks DEF Init, Idle, IInv, SoldFirst, At
<1>2. IInv /\ [Next]_vars => IInv'
    BY NextBooks, NextSoldFirst DEF IInv
<1> QED
    BY <1>1, <1>2, PTL DEF Spec

\* The books follow the money: for any number of concurrent ingests, dying
\* anywhere, a copy is marked sold only with a paid and recorded line.
THEOREM SalesArePaid == Spec => []SoldIsPaid
<1>1. IInv => SoldIsPaid
    BY DEF IInv, Books
<1> QED
    BY <1>1, Invariance, PTL

\* Ingesting an order again, or twice at once, writes one INTERNAL_SALE a line.
THEOREM CompletedOnce == Spec => []OneObservationPerLine
<1>1. IInv => OneObservationPerLine
    BY DEF IInv, Books
<1> QED
    BY <1>1, Invariance, PTL

-----------------------------------------------------------------------------
(* Ingest implements the ledger                                            *)

\* Initially nothing is paid, recorded, sold or completed.
LEMMA InitRefines == Init => Ledger!Init
<1> SUFFICES ASSUME Init PROVE Ledger!Init
    OBVIOUS
<1>1. \A h \in Holdings : row[h].status # "SOLD"
    BY DEF Init, LiveRows, NoRow
<1>2. Ledger!Lines = Lines
    BY DEF Ledger!Lines, Lines
<1> QED
    BY <1>1, <1>2 DEF Init, Ledger!Init

\* A step of ingest is one of the ledger's, or changes nothing the ledger sees.
LEMMA NextRefines == IInv /\ IInv' /\ [Next]_vars => [Ledger!Next]_(Ledger!vars)
<1> DEFINE soldCopies == {h \in Holdings : row[h].status = "SOLD"}
<1> SUFFICES ASSUME IInv, [Next]_vars PROVE [Ledger!Next]_(Ledger!vars)
    OBVIOUS
<1>0. Ledger!Lines = Lines /\ TypeOK
    BY DEF Ledger!Lines, Lines, IInv, Books
<1>1. ASSUME UNCHANGED <<paid, dbLines, observed, row>> PROVE UNCHANGED Ledger!vars
    BY <1>1 DEF Ledger!vars
<1>2. ASSUME NEW o \in Orders, NEW S \in SUBSET Holdings, Checkout(o, S)
      PROVE  Ledger!Next
    <2>1. {o} \X S \subseteq Lines /\ paid' = paid \cup ({o} \X S)
        BY <1>2 DEF Checkout, BuyerChecksOut, Lines
    <2>2. UNCHANGED <<dbLines, observed, row>>
        BY <1>2 DEF Checkout, BuyerChecksOut, dbVars, ledgerVars
    <2>3. Ledger!Pay({o} \X S)
        BY <1>0, <2>1, <2>2 DEF Ledger!Pay
    <2> QED
        BY <1>0, <2>1, <2>3 DEF Ledger!Next
<1>3. ASSUME NEW i \in Ingesters, InsertLine(i)
      PROVE  Ledger!Next \/ UNCHANGED Ledger!vars
    <2>1. ing[i].line \in Lines /\ ing[i].line \in paid
        BY <1>3 DEF InsertLine, At, IInv, Books, InHandIsPaid, TypeOK
    <2>2. CASE ing[i].mine
        <3>1. ing[i].line \notin dbLines
            BY <1>3, <2>2 DEF InsertLine, IInv, Books, OwnersAreAlone, Owns
        <3>2. /\ dbLines' = dbLines \cup {ing[i].line}
              /\ UNCHANGED <<paid, observed, row>>
            BY <1>3, <2>2 DEF InsertLine, baseVars
        <3>3. Ledger!Record(ing[i].line)
            BY <2>1, <3>1, <3>2 DEF Ledger!Record
        <3> QED
            BY <1>0, <2>1, <3>3 DEF Ledger!Next
    <2>3. CASE ~ing[i].mine
        BY <1>1, <1>3, <2>3 DEF InsertLine, baseVars
    <2> QED
        BY <2>2, <2>3
<1>4. ASSUME NEW i \in Ingesters, MarkSold(i) PROVE Ledger!Next
    <2> DEFINE copy == Copy(ing[i].line)
    <2>1. ing[i].line \in dbLines /\ ing[i].line \in Lines
        BY <1>0, <1>4 DEF MarkSold, At, IInv, Books, CompletersAreAlone, TypeOK
    <2>2. copy \in Holdings /\ \E o \in Orders : <<o, copy>> \in dbLines
        BY <2>1, LineParts
    <2>3. [ing[i].snap EXCEPT !.status = "SOLD"].status = "SOLD"
        <3>1. ing[i].snap \in Row
            BY <1>0 DEF TypeOK, Call
        <3> QED
            BY <3>1 DEF Row
    <2>4. soldCopies' = soldCopies \cup {copy}
        BY <1>0, <1>4, <2>2, <2>3 DEF MarkSold, UpsertListing, TypeOK, BaseTypeOK
    <2>5. UNCHANGED <<paid, dbLines, observed>>
        BY <1>4 DEF MarkSold, ebayVars, ledgerVars
    <2> HIDE DEF copy
    <2>6. \E c \in Holdings : Ledger!MarkSold(c)
        BY <2>2, <2>4, <2>5 DEF Ledger!MarkSold
    <2> QED
        BY <2>6 DEF Ledger!Next
<1>5. ASSUME NEW i \in Ingesters, InsertObservation(i) PROVE Ledger!Next
    <2> DEFINE line == ing[i].line
    <2>1. line \in dbLines /\ line \in Lines /\ observed[line] = 0
        BY <1>0, <1>5
        DEF InsertObservation, At, IInv, Books, CompletersAreAlone, Completing, TypeOK
    <2>2. line[2] \in soldCopies
        BY <1>5, <2>1, LineParts DEF InsertObservation, At, IInv, SoldFirst, Copy
    <2>3. /\ observed' = [observed EXCEPT ![line] = 1]
          /\ UNCHANGED <<paid, dbLines, row>>
        BY <1>0, <1>5, <2>1 DEF InsertObservation, baseVars, TypeOK
    <2>4. Ledger!Complete(line)
        BY <2>1, <2>2, <2>3 DEF Ledger!Complete
    <2> QED
        BY <1>0, <2>1, <2>4 DEF Ledger!Next
<1>6. ASSUME NEW i \in Ingesters, Fetch(i) \/ Crash(i) PROVE UNCHANGED Ledger!vars
    BY <1>1, <1>6 DEF Fetch, Crash, baseVars, ledgerVars
<1>7. ASSUME NEW i \in Ingesters, NEW l \in Lines, TakeLine(i, l)
      PROVE  UNCHANGED Ledger!vars
    BY <1>1, <1>7 DEF TakeLine, baseVars, ledgerVars
<1>8. ASSUME NEW i \in Ingesters,
             FindListing(i) \/ InsertOrder(i) \/ PatchPath(i) \/ Hold(i)
      PROVE  UNCHANGED Ledger!vars
    BY <1>1, <1>8
    DEF FindListing, InsertOrder, PatchPath, Hold, baseVars, ebayVars, ledgerVars
<1>9. CASE UNCHANGED vars
    BY <1>1, <1>9 DEF vars, baseVars, ledgerVars
<1> QED
    BY <1>2, <1>3, <1>4, <1>5, <1>6, <1>7, <1>8, <1>9 DEF Next, Proceed

\* Whatever the interleaving and the crashes, ingest is a run of SaleLedger:
\* recorded once, sold after recorded, completed once after sold.
THEOREM ImplementsLedger == Spec => KeepsLedger
BY InitRefines, NextRefines, Invariance, PTL DEF Spec, KeepsLedger, Ledger!Spec

-----------------------------------------------------------------------------
(* In company: what a call does to what all components share, and what it   *)
(* needs of them                                                            *)

\* A call between finding the row and writing it back as sold.
Holds(i) == ing[i].pc \in {"order", "line", "sold"}

\* A call writes a row only to mark it sold, as it was found, and a path only
\* as sold.
LEMMA CallEffects ==
    ASSUME TypeOK, NEW i \in Ingesters, Fetch(i) \/ Proceed(i) \/ Crash(i)
    PROVE  /\ UNCHANGED ebayVars
           /\ UNCHANGED row \/ MarkSold(i)
           /\ \A h \in Holdings : path'[h] # path[h] => path'[h] = "sold"
BY DEF Fetch, Proceed, Crash, TakeLine, FindListing, InsertOrder, InsertLine, MarkSold,
       InsertObservation, PatchPath, PatchSalesPath, Hold, baseVars, ebayVars, TypeOK, BaseTypeOK

\* The row a call has in hand is one it had before, or the one that is there.
LEMMA CallFinds ==
    ASSUME TypeOK, NEW i \in Ingesters, Fetch(i) \/ Proceed(i) \/ Crash(i),
           NEW j \in Ingesters, Holds(j)'
    PROVE  \/ /\ Holds(j)
              /\ ing'[j].line = ing[j].line /\ ing'[j].snap = ing[j].snap
           \/ /\ ing'[j].line \in Lines
              /\ ing'[j].snap = row[Copy(ing'[j].line)]
<1>1. ing[i] \in Call /\ ing[i].pc \in IngestPcs
    BY DEF TypeOK, Call
<1>2. CASE j # i
    <2>1. \E next : Becomes(i, next)
        BY DEF Fetch, Proceed, Crash, TakeLine, FindListing, InsertOrder, InsertLine, MarkSold,
               InsertObservation, PatchPath, Hold, Continues, Goes
    <2> QED
        BY <1>2, <2>1, Moves DEF Holds
<1>3. CASE j = i
    <2>1. ASSUME NEW next, Becomes(i, next) PROVE ing'[i] = next
        BY <2>1, Moves
    <2>2. ASSUME Continues(i) PROVE FALSE
        <3>1. Idle.pc = "idle" /\ [Idle EXCEPT !.pc = "next", !.todo = ing[i].todo].pc = "next"
            BY DEF Idle
        <3> QED
            BY <1>3, <2>1, <2>2, <3>1 DEF Continues, Holds
    <2>3. CASE Fetch(i) \/ Crash(i)
        <3>1. Idle.pc = "idle" /\ [Idle EXCEPT !.pc = "next", !.todo = paid].pc = "next"
            BY DEF Idle
        <3> QED
            BY <1>3, <2>1, <2>3, <3>1 DEF Fetch, Crash, Holds
    <2>4. CASE \E l \in Lines : TakeLine(i, l)
        <3>1. PICK l \in Lines : TakeLine(i, l)
            BY <2>4
        <3>2. /\ [ing[i] EXCEPT !.pc = "find", !.todo = ing[i].todo \ {l}, !.line = l].pc = "find"
              /\ [ing[i] EXCEPT !.todo = ing[i].todo \ {l}].pc = ing[i].pc
              /\ Idle.pc = "idle"
            BY <1>1 DEF Call, Idle
        <3> QED
            BY <1>3, <2>1, <3>1, <3>2 DEF TakeLine, Holds, At
    <2>5. CASE FindListing(i)
        <3> DEFINE next == [ing[i] EXCEPT !.pc = "order", !.snap = row[Copy(ing[i].line)]]
        <3>1. next.line = ing[i].line /\ next.snap = row[Copy(ing[i].line)]
            BY <1>1 DEF Call
        <3>2. ing'[i] = next /\ ing[i].line \in Lines
            BY <2>1, <2>5 DEF FindListing, At, TypeOK
        <3> QED
            BY <1>3, <3>1, <3>2
    <2>6. CASE InsertOrder(i)
        <3> DEFINE next == [ing[i] EXCEPT !.pc = "line", !.mine = (OrderOf(ing[i].line) \notin dbOrders)]
        <3>1. next.line = ing[i].line /\ next.snap = ing[i].snap
            BY <1>1 DEF Call
        <3>2. ing'[i] = next /\ ing[i].pc = "order"
            BY <2>1, <2>6 DEF InsertOrder, At
        <3> QED
            BY <1>3, <3>1, <3>2 DEF Holds
    <2>7. ASSUME NEW pc, Goes(i, pc)
          PROVE  ing'[i].pc = pc /\ ing'[i].line = ing[i].line /\ ing'[i].snap = ing[i].snap
        <3>1. ing'[i] = [ing[i] EXCEPT !.pc = pc]
            BY <2>1, <2>7 DEF Goes
        <3> QED
            BY <1>1, <3>1 DEF Call
    <2>8. CASE InsertLine(i)
        <3>1. Idle.pc = "idle"
            BY DEF Idle
        <3> QED
            BY <1>3, <2>1, <2>2, <2>7, <2>8, <3>1 DEF InsertLine, Holds, At
    <2>9. CASE MarkSold(i) \/ InsertObservation(i) \/ PatchPath(i) \/ Hold(i)
        BY <1>3, <2>2, <2>7, <2>9 DEF MarkSold, InsertObservation, PatchPath, Hold, Holds
    <2> QED
        BY <2>3, <2>4, <2>5, <2>6, <2>8, <2>9 DEF Proceed
<1> QED
    BY <1>2, <1>3

\* The books stay right while other components act on rows and paths, as long
\* as none marks a copy sold that no line was recorded for.
LEMMA OthersKeepBooks ==
    ASSUME Books, UNCHANGED <<ledgerVars, ing>>, paid \subseteq paid',
           BaseTypeOK', SoldIsPaid'
    PROVE  Books'
<1>1. TypeOK'
    BY DEF Books, TypeOK, ledgerVars
<1>2. InHandIsPaid' /\ OwnersAreAlone' /\ CompletersAreAlone' /\ OneObservationPerLine'
    BY DEF Books, InHandIsPaid, OwnersAreAlone, CompletersAreAlone, OneObservationPerLine,
           Owns, Completing, At, ledgerVars
<1> QED
    BY <1>1, <1>2 DEF Books
=============================================================================
