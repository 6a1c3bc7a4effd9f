-------------------------- MODULE EbayPublish_proofs --------------------------
(***************************************************************************)
(* What approve-and-publish guarantees for any holdings, any requests at    *)
(* once and any number of retries: types, ids that eBay really gave out, a  *)
(* publish nobody hinders that ends PUBLISHED, and no second listing for a  *)
(* row that has one.                                                        *)
(*                                                                         *)
(* The argument is one inductive invariant, a predicate of one request's    *)
(* record (Fine) beside what eBay and the rows say.  It adds to the         *)
(* properties what a request has established by the step it has reached:    *)
(* the offer it is about to publish exists, its copy of the row has no      *)
(* listing id, and neither has the row unless another request wrote it.     *)
(***************************************************************************)
EXTENDS EbayPublish, TLAPS

\* The ids of a row of h, stored or in hand, are ids eBay gave out.
Real(h, r) ==
    /\ r.offerId => OfferExists(h)
    /\ r.listingId <= issued[h]
    /\ r.status \in ListedStatuses => r.offerId /\ r.listingId # 0

\* The steps between the reading of a row and the writing of what became of it.
Reading == {"hydrate", "storeHigh", "connect", "prepare", "offer", "lookup",
            "adopt", "publish", "check"}

\* What a request q has established by the step it has reached; alone says that
\* nobody but requests and the seller acts, as in Spec.
Fine(q, alone) ==
    /\ q.pc = "idle" => q.h = None
    /\ q.pc # "idle" => q.h \in Holdings /\ Real(q.h, q.snap)
    /\ q.pc \in {"adopt", "publish", "check"} =>
          OfferExists(q.h) /\ q.snap.listingId = 0
    /\ q.pc = "store" => q.snap.status # "SOLD"
    /\ q.pc = "persist" => issued[q.h] # 0
    /\ alone =>
          /\ q.pc \in Reading /\ ~q.stale => row[q.h].listingId = q.snap.listingId
          /\ q.pc = "check" /\ q.unhindered => Live(q.h)
          /\ q.pc = "store" /\ q.unhindered => q.snap.status = "PUBLISHED"

\* What eBay lists, or listed, it issued an id for.
ListedWasIssued ==
    \A h \in Holdings : offer[h] \in {"published", "ended"} => issued[h] # 0

RowsAreReal == \A h \in Holdings : Real(h, row[h])

IInv(alone) ==
    /\ TypeOK
    /\ ListedWasIssued
    /\ RowsAreReal
    /\ \A p \in Publishers : Fine(pub[p], alone)

-----------------------------------------------------------------------------
(* Steps that move one request                                             *)

\* The rows a request starts from, and the rows it makes of one.
LEMMA RowsTyped ==
    /\ NoRow \in Row
    /\ Idle \in Request
    /\ \A alone \in BOOLEAN : Fine(Idle, alone)
    /\ \A r \in Row, s \in Statuses : [r EXCEPT !.status = s] \in Row
    /\ \A r \in Row : [r EXCEPT !.offerId = TRUE] \in Row
<1>1. NoRow \in Row
    BY BoundsAreNat DEF NoRow, Row, Statuses
<1>2. Idle \in Request
    BY <1>1, RetriesAreNat DEF Idle, Request, PublishPcs
<1>3. \A alone \in BOOLEAN : Fine(Idle, alone)
    BY DEF Fine, Idle, Reading
<1> QED
    BY <1>1, <1>2, <1>3 DEF Row

\* A request that goes on to another step starts counting its retries again.
LEMMA TryTyped ==
    ASSUME NEW q \in Request, NEW pc \in PublishPcs
    PROVE  [q EXCEPT !.pc = pc, !.try = 0] \in Request
<1>1. 0 \in 0..MaxRetries
    BY RetriesAreNat
<1> QED
    BY <1>1, Zenon DEF Request

\* So does a request that goes on hindered.
LEMMA HinderedTyped ==
    ASSUME NEW q \in Request, NEW pc \in PublishPcs
    PROVE  LET next == [q EXCEPT !.pc = pc, !.try = 0, !.unhindered = FALSE]
           IN  /\ next \in Request
               /\ next.pc = pc /\ next.h = q.h /\ next.snap = q.snap /\ next.stale = q.stale
               /\ ~next.unhindered
<1>1. 0 \in 0..MaxRetries /\ FALSE \in BOOLEAN
    BY RetriesAreNat
<1> QED
    BY <1>1, Zenon DEF Request

\* A step that changes nothing but one request's record.
LEMMA MoveKeeps ==
    ASSUME NEW alone \in BOOLEAN, IInv(alone), NEW p \in Publishers,
           NEW next \in Request, Fine(next, alone),
           Becomes(p, next), UNCHANGED baseVars
    PROVE  IInv(alone)'
<1> USE DEF IInv, TypeOK
<1>1. pub' \in [Publishers -> Request]
    BY DEF Becomes
<1>2. ASSUME NEW q \in Publishers PROVE Fine(pub[q], alone)'
    <2>1. Fine(pub'[q], alone)
        BY DEF Becomes
    <2> QED
        BY <2>1 DEF Fine, Real, OfferExists, Live, baseVars
<1>3. BaseTypeOK' /\ ListedWasIssued' /\ RowsAreReal'
    BY DEF BaseTypeOK, ListedWasIssued, RowsAreReal, Real, OfferExists, baseVars
<1> QED
    BY <1>1, <1>2, <1>3

\* A step that moves one request while eBay creates or publishes its offer:
\* neither takes back what another request counts on.
LEMMA EbayKeeps ==
    ASSUME NEW alone \in BOOLEAN, IInv(alone), NEW p \in Publishers,
           NEW h \in Holdings,
           EbayCreatesOffer(h) \/ EbayPublishesOffer(h), UNCHANGED dbVars,
           NEW next \in Request, Fine(next, alone)', Becomes(p, next)
    PROVE  IInv(alone)'
<1> USE DEF IInv, TypeOK
<1>1. pub' \in [Publishers -> Request]
    BY DEF Becomes
<1>2. /\ \A k \in Holdings : OfferExists(k) => OfferExists(k)'
      /\ \A k \in Holdings : Live(k) => Live(k)'
      /\ \A k \in Holdings : issued[k] <= issued'[k]
      /\ issued \in [Holdings -> Nat] /\ issued' \in [Holdings -> 0..MaxListings]
      /\ offer' \in [Holdings -> OfferStates]
    BY BoundsAreNat
    DEF EbayCreatesOffer, EbayPublishesOffer, OfferExists, Live, OfferStates, BaseTypeOK
<1>3. \A k \in Holdings, r \in Row : Real(k, r) => Real(k, r)'
    BY <1>2, BoundsAreNat DEF Real, Row
<1>4. ASSUME NEW q \in Publishers PROVE Fine(pub[q], alone)'
    <2>1. CASE q = p
        BY <2>1 DEF Becomes
    <2>2. CASE q # p
        <3>1. pub'[q] = pub[q] /\ Fine(pub[q], alone) /\ pub[q] \in Request /\ row' = row
            BY <2>2 DEF Becomes, dbVars
        <3>2. pub[q].snap \in Row
            BY <3>1 DEF Request
        <3> QED
            BY <1>2, <1>3, <3>1, <3>2 DEF Fine, Reading
    <2> QED
        BY <2>1, <2>2
<1>5. ListedWasIssued'
    BY BoundsAreNat
    DEF EbayCreatesOffer, EbayPublishesOffer, ListedWasIssued, BaseTypeOK
<1>6. RowsAreReal'
    BY <1>3 DEF RowsAreReal, BaseTypeOK, dbVars
<1>7. BaseTypeOK'
    BY <1>2 DEF BaseTypeOK, EbayCreatesOffer, EbayPublishesOffer, dbVars
<1> QED
    BY <1>1, <1>4, <1>5, <1>6, <1>7

\* A step that writes the row of the request's holding: what it writes is real,
\* and the others that have read the row are stale now.
LEMMA WriteKeeps ==
    ASSUME NEW alone \in BOOLEAN, IInv(alone), NEW p \in Publishers,
           NEW new \in Row,
           pub[p].h \in Holdings, Real(pub[p].h, new), UpsertListing(pub[p].h, new),
           NEW next \in Request, WritesAndBecomes(p, next),
           \/ next.pc = "idle" /\ next.h = None
           \/ /\ next.pc \in {"connect", "persist"}
              /\ next.h = pub[p].h /\ Real(pub[p].h, next.snap)
              /\ next.snap.listingId = new.listingId
              /\ next.pc = "persist" => issued[pub[p].h] # 0,
           UNCHANGED <<ebayVars, path, disp>>
    PROVE  IInv(alone)'
<1> USE DEF IInv, TypeOK
<1>1. pub' \in [Publishers -> Request]
    BY DEF WritesAndBecomes, Request
<1>2. \A k \in Holdings, r \in Row : Real(k, r) => Real(k, r)'
    BY DEF Real, OfferExists, ebayVars
<1>3. ASSUME NEW q \in Publishers PROVE Fine(pub[q], alone)'
    <2>1. CASE q = p
        <3>1. pub'[q] = next
            BY <2>1 DEF WritesAndBecomes
        <3>2. row'[pub[p].h] = new /\ issued' = issued
            BY DEF UpsertListing, BaseTypeOK, ebayVars
        <3>3. Fine(next, alone)'
            BY <1>2, <3>2 DEF Fine, Reading, Request
        <3> QED
            BY <3>1, <3>3
    <2>2. CASE q # p
        <3>1. /\ Fine(pub[q], alone) /\ pub[q] \in Request
              /\ pub'[q] = [pub[q] EXCEPT !.stale = @ \/ (pub[q].h = pub[p].h /\ pub[q].pc # "read")]
            BY <2>2 DEF WritesAndBecomes
        <3>2. \A k \in Holdings : k # pub[p].h => row'[k] = row[k]
            BY DEF UpsertListing, BaseTypeOK
        <3>3. ~pub'[q].stale => ~pub[q].stale /\ (pub[q].h # pub[p].h \/ pub[q].pc = "read")
            BY <3>1 DEF Request
        <3>4. pub[q].snap \in Row /\ "read" \notin Reading /\ "idle" \notin Reading
            BY <3>1 DEF Request, Reading
        <3>5. /\ pub'[q].pc = pub[q].pc /\ pub'[q].h = pub[q].h
              /\ pub'[q].snap = pub[q].snap /\ pub'[q].unhindered = pub[q].unhindered
            BY <3>1 DEF Request
        <3>6. /\ issued' = issued
              /\ \A k \in Holdings : (OfferExists(k)' <=> OfferExists(k)) /\ (Live(k)' <=> Live(k))
            BY DEF OfferExists, Live, ebayVars
        <3> QED
            BY <1>2, <3>1, <3>2, <3>3, <3>4, <3>5, <3>6 DEF Fine
    <2> QED
        BY <2>1, <2>2
<1>4. ListedWasIssued'
    BY DEF ListedWasIssued, ebayVars
<1>5. RowsAreReal' /\ BaseTypeOK'
    BY <1>2 DEF RowsAreReal, BaseTypeOK, UpsertListing, ebayVars
<1> QED
    BY <1>1, <1>3, <1>4, <1>5

-----------------------------------------------------------------------------
(* The steps of a request                                                  *)

\* A retry is counted; when there are none left the request goes on, hindered.
LEMMA RetryIsMove ==
    ASSUME NEW alone \in BOOLEAN, IInv(alone), NEW p \in Publishers,
           pub[p].pc # "idle",
           NEW pc \in PublishPcs, RetriesThen(p, pc)
    PROVE  \E next \in Request :
              /\ Becomes(p, next)
              /\ next.h = pub[p].h /\ next.snap = pub[p].snap /\ next.stale = pub[p].stale
              /\ \/ next.pc = pub[p].pc /\ next.unhindered = pub[p].unhindered
                 \/ next.pc = pc /\ ~next.unhindered
<1> DEFINE again == [pub[p] EXCEPT !.try = @ + 1]
           on == [pub[p] EXCEPT !.pc = pc, !.try = 0, !.unhindered = FALSE]
<1>1. pub[p] \in Request
    BY DEF IInv, TypeOK
<1>2. CASE pub[p].try < MaxRetries
    <2>1. again \in Request /\ Becomes(p, again)
        BY <1>1, <1>2, RetriesAreNat DEF Request, RetriesThen
    <2> QED
        BY <1>1, <2>1 DEF Request
<1>3. CASE ~(pub[p].try < MaxRetries)
    <2>1. on \in Request
        <3>1. 0 \in 0..MaxRetries /\ FALSE \in BOOLEAN
            BY RetriesAreNat
        <3> QED
            BY <1>1, <3>1, Zenon DEF Request
    <2>2. Becomes(p, on)
        BY <1>3 DEF RetriesThen, GoesHindered
    <2> QED
        BY <1>1, <2>1, <2>2 DEF Request
<1> QED
    BY <1>2, <1>3

\* The adapter returns with a real result: the request is about to store it.
LEMMA ReturnIsMove ==
    ASSUME NEW alone \in BOOLEAN, IInv(alone), NEW p \in Publishers,
           pub[p].pc # "idle",
           NEW status \in Statuses, NEW offerId \in BOOLEAN, NEW id \in 0..MaxListings,
           status # "SOLD", NEW clear \in BOOLEAN,
           alone /\ clear => status = "PUBLISHED" \/ ~pub[p].unhindered,
           Returns(p, status, offerId, id, clear)
    PROVE  \E next \in Request :
              /\ Becomes(p, next)
              /\ next.pc = "store" /\ next.h = pub[p].h
              /\ next.snap = [status |-> status, offerId |-> offerId, listingId |-> id]
              /\ alone /\ next.unhindered => status = "PUBLISHED"
<1> DEFINE result == [status |-> status, offerId |-> offerId, listingId |-> id]
           next == [pub[p] EXCEPT !.pc = "store", !.try = 0, !.unhindered = @ /\ clear,
                                  !.snap = result]
<1>1. pub[p] \in Request
    BY DEF IInv, TypeOK
<1>2. result \in Row
    BY DEF Row
<1>3. next \in Request
    <2>1. "store" \in PublishPcs /\ 0 \in 0..MaxRetries /\ (pub[p].unhindered /\ clear) \in BOOLEAN
        BY RetriesAreNat DEF PublishPcs
    <2> QED
        BY <1>1, <1>2, <2>1 DEF Request
<1>4. Becomes(p, next)
    BY DEF Returns
<1>5. /\ next.pc = "store" /\ next.h = pub[p].h /\ next.snap = result
      /\ next.unhindered = (pub[p].unhindered /\ clear)
    BY <1>1 DEF Request
<1> QED
    BY <1>3, <1>4, <1>5

\* So does one that has been told of its listing.
LEMMA PublishedIsMove ==
    ASSUME NEW alone \in BOOLEAN, IInv(alone), NEW p \in Publishers, pub[p].pc # "idle",
           NEW id \in 0..MaxListings, Returns(p, "PUBLISHED", TRUE, id, TRUE)
    PROVE  \E next \in Request :
              /\ Becomes(p, next)
              /\ next.pc = "store" /\ next.h = pub[p].h
              /\ next.snap = [status |-> "PUBLISHED", offerId |-> TRUE, listingId |-> id]
<1> DEFINE result == [status |-> "PUBLISHED", offerId |-> TRUE, listingId |-> id]
           next == [pub[p] EXCEPT !.pc = "store", !.try = 0, !.unhindered = @ /\ TRUE,
                                  !.snap = result]
<1>1. pub[p] \in Request
    BY DEF IInv, TypeOK
<1>2. result \in Row
    BY DEF Row, Statuses, ActiveStatuses
<1>3. "store" \in PublishPcs /\ 0 \in 0..MaxRetries /\ (pub[p].unhindered /\ TRUE) \in BOOLEAN
    BY RetriesAreNat DEF PublishPcs
<1>4. next \in Request
    BY <1>1, <1>2, <1>3 DEF Request
<1>5. next.pc = "store" /\ next.h = pub[p].h /\ next.snap = result
    BY <1>1 DEF Request
<1> QED
    BY <1>4, <1>5 DEF Returns

\* What is about to be stored is fine when it is real.
LEMMA StoreIsFine ==
    ASSUME NEW alone \in BOOLEAN, NEW q \in Request,
           q.pc = "store", q.h \in Holdings, Real(q.h, q.snap), q.snap.status # "SOLD",
           alone /\ q.unhindered => q.snap.status = "PUBLISHED"
    PROVE  Fine(q, alone)
BY DEF Fine, Reading

\* Up to the adapter: a request reads its row and may settle for an error.
LEMMA ReadingKeeps ==
    ASSUME NEW alone \in BOOLEAN, IInv(alone), NEW p \in Publishers,
           \/ \E h \in Holdings : Load(p, h)
           \/ ReadListing(p) \/ Hydrate(p) \/ StoreHigh(p) \/ Connect(p)
    PROVE  IInv(alone)'
<1> DEFINE me == pub[p]
<1> USE DEF At
<1>1. me \in Request /\ me.snap \in Row /\ Fine(me, alone)
    BY DEF IInv, TypeOK, Request
<1>2. CASE \E h \in Holdings : Load(p, h)
    <2>1. PICK h \in Holdings : Load(p, h)
        BY <1>2
    <2> DEFINE next == [Idle EXCEPT !.pc = "read", !.h = h, !.hold = (disp[h] = "HOLD")]
    <2>2. next \in Request
        BY RowsTyped DEF Request, PublishPcs
    <2>3. next.h = h /\ next.pc = "read" /\ next.snap = NoRow
        BY DEF Idle
    <2>4. Real(h, NoRow)
        BY BoundsAreNat DEF Real, NoRow, ListedStatuses, IInv, TypeOK, BaseTypeOK
    <2>5. Fine(next, alone)
        BY <2>3, <2>4 DEF Fine, Reading
    <2> QED
        BY <2>1, <2>2, <2>5, MoveKeeps DEF Load
<1>3. CASE ReadListing(p)
    <2>1. me.h \in Holdings /\ row[me.h] \in Row /\ Real(me.h, row[me.h])
        BY <1>1, <1>3 DEF ReadListing, Fine, IInv, TypeOK, BaseTypeOK, RowsAreReal
    <2> DEFINE next == [me EXCEPT !.pc = "hydrate", !.snap = row[me.h]]
    <2>2. next \in Request
        BY <1>1, <2>1 DEF Request, PublishPcs
    <2>3. next.h = me.h /\ next.pc = "hydrate" /\ next.snap = row[me.h]
        BY <1>1 DEF Request
    <2>4. Fine(next, alone)
        BY <2>1, <2>3 DEF Fine
    <2> QED
        BY <1>3, <2>2, <2>4, RowsTyped, MoveKeeps DEF ReadListing
<1>4. CASE Hydrate(p)
    <2>1. me.h \in Holdings /\ Real(me.h, me.snap)
        BY <1>1, <1>4 DEF Hydrate, Fine
    <2> DEFINE stop == [me EXCEPT !.pc = "store", !.hold = FALSE,
                            !.snap.status = "ERROR", !.unhindered = FALSE]
    <2>2. [me.snap EXCEPT !.status = "ERROR"] \in Row
        BY <1>1, RowsTyped DEF Statuses
    <2>3. stop \in Request /\ stop.pc = "store" /\ stop.h = me.h /\ ~stop.unhindered
          /\ stop.snap = [me.snap EXCEPT !.status = "ERROR"]
        BY <1>1, <2>2, Zenon DEF Request, PublishPcs
    <2>4. Real(me.h, stop.snap) /\ stop.snap.status # "SOLD"
        BY <1>1, <2>1, <2>3 DEF Real, Row, ListedStatuses
    <2>5. Fine(stop, alone)
        BY <2>1, <2>3, <2>4, StoreIsFine
    <2>6. ASSUME NEW high \in BOOLEAN
          PROVE  LET on == [me EXCEPT !.pc = IF high THEN "storeHigh" ELSE "connect",
                                      !.hold = FALSE, !.high = high]
                 IN  on \in Request /\ Fine(on, alone)
        <3> DEFINE on == [me EXCEPT !.pc = IF high THEN "storeHigh" ELSE "connect",
                                    !.hold = FALSE, !.high = high]
        <3>1. on \in Request
            BY <1>1 DEF Request, PublishPcs
        <3>2. /\ on.h = me.h /\ on.snap = me.snap /\ on.stale = me.stale
              /\ on.pc \in {"storeHigh", "connect"}
            BY <1>1 DEF Request
        <3> QED
            BY <1>1, <1>4, <2>1, <3>1, <3>2 DEF Hydrate, Fine, Reading
    <2> QED
        BY <1>4, <2>3, <2>5, <2>6, MoveKeeps DEF Hydrate
<1>5. CASE StoreHigh(p)
    <2> DEFINE new == [me.snap EXCEPT !.status = "APPROVED"]
               next == [me EXCEPT !.pc = "connect"]
    <2>1. me.h \in Holdings /\ Real(me.h, me.snap)
        BY <1>1, <1>5 DEF StoreHigh, Fine
    <2>2. new \in Row /\ new.listingId = me.snap.listingId /\ Real(me.h, new)
        BY <1>1, <2>1 DEF Row, Statuses, ActiveStatuses, Real, ListedStatuses
    <2>3. next \in Request
        BY <1>1 DEF Request, PublishPcs
    <2>4. next.h = me.h /\ next.snap = me.snap /\ next.pc = "connect"
        BY <1>1 DEF Request
    <2> QED
        BY <1>5, <2>1, <2>2, <2>3, <2>4, WriteKeeps DEF StoreHigh
<1>6. CASE Connect(p)
    <2>1. me.h \in Holdings /\ Real(me.h, me.snap)
        BY <1>1, <1>6 DEF Connect, Fine
    <2> DEFINE stop == [me EXCEPT !.pc = "store", !.high = FALSE,
                            !.snap.status = "APPROVED", !.unhindered = FALSE]
               on == [me EXCEPT !.pc = "prepare", !.try = 0]
    <2>2. [me.snap EXCEPT !.status = "APPROVED"] \in Row
        BY <1>1, RowsTyped DEF Statuses, ActiveStatuses
    <2>3. stop \in Request /\ stop.pc = "store" /\ stop.h = me.h /\ ~stop.unhindered
          /\ stop.snap = [me.snap EXCEPT !.status = "APPROVED"]
        BY <1>1, <2>2, Zenon DEF Request, PublishPcs
    <2>4. Real(me.h, stop.snap) /\ stop.snap.status # "SOLD"
        BY <1>1, <2>1, <2>3 DEF Real, Row, ListedStatuses
    <2>5. Fine(stop, alone)
        BY <2>1, <2>3, <2>4, StoreIsFine
    <2>6. on \in Request
        BY <1>1, TryTyped DEF PublishPcs
    <2>7. on.h = me.h /\ on.snap = me.snap /\ on.stale = me.stale /\ on.pc = "prepare"
        BY <1>1 DEF Request
    <2>8. Fine(on, alone)
        BY <1>1, <1>6, <2>1, <2>7 DEF Connect, Fine, Reading
    <2> QED
        BY <1>6, <2>3, <2>5, <2>6, <2>8, RowsTyped, MoveKeeps DEF Connect, Goes
<1> QED
    BY <1>2, <1>3, <1>4, <1>5, <1>6

\* A request that has learned the offer's id goes on to publish it.
LEMMA PublishingTyped ==
    ASSUME NEW q \in Request
    PROVE  LET next == [q EXCEPT !.pc = "publish", !.snap.offerId = TRUE, !.try = 0]
           IN  /\ next \in Request
               /\ next.h = q.h /\ next.snap = [q.snap EXCEPT !.offerId = TRUE]
               /\ next.stale = q.stale /\ next.unhindered = q.unhindered
               /\ next.pc = "publish"
<1>1. 0 \in 0..MaxRetries /\ "publish" \in PublishPcs
    BY RetriesAreNat DEF PublishPcs
<1>2. q.snap \in Row /\ [q.snap EXCEPT !.offerId = TRUE] \in Row
    BY RowsTyped DEF Request
<1> QED
    BY <1>1, <1>2, Zenon DEF Request

\* The adapter returns ids that eBay gave out, and nothing else changes.
LEMMA ReturnKeeps ==
    ASSUME NEW alone \in BOOLEAN, IInv(alone), NEW p \in Publishers,
           pub[p].pc # "idle", UNCHANGED baseVars,
           NEW status \in Statuses, NEW offerId \in BOOLEAN, NEW id \in 0..MaxListings,
           status # "SOLD", NEW clear \in BOOLEAN,
           alone /\ clear => status = "PUBLISHED" \/ ~pub[p].unhindered,
           Real(pub[p].h, [status |-> status, offerId |-> offerId, listingId |-> id]),
           Returns(p, status, offerId, id, clear)
    PROVE  IInv(alone)'
<1>1. pub[p].h \in Holdings
    BY DEF IInv, Fine
<1>2. PICK next \in Request :
          /\ Becomes(p, next)
          /\ next.pc = "store" /\ next.h = pub[p].h
          /\ next.snap = [status |-> status, offerId |-> offerId, listingId |-> id]
          /\ alone /\ next.unhindered => status = "PUBLISHED"
    BY ReturnIsMove
<1>3. Fine(next, alone)
    BY <1>1, <1>2, StoreIsFine
<1> QED
    BY <1>2, <1>3, MoveKeeps

\* A request on its way through the adapter, with the offer known to exist
\* where it needs one, stays fine.
LEMMA OnTheWayIsFine ==
    ASSUME NEW alone \in BOOLEAN, IInv(alone), NEW p \in Publishers,
           pub[p].pc \in Reading, NEW q \in Request,
           q.h = pub[p].h, q.snap = pub[p].snap, q.stale = pub[p].stale,
           q.pc \in {"prepare", "offer", "lookup", "adopt", "publish", "check"},
           q.pc \in {"adopt", "publish", "check"} =>
              OfferExists(q.h) /\ q.snap.listingId = 0,
           alone /\ q.pc = "check" /\ q.unhindered => Live(q.h)
    PROVE  Fine(q, alone)
BY DEF Fine, IInv, Reading

\* Location and item, the look-up of a left-over offer, its adoption, and the
\* look at what a failed publish did: eBay only answers.
LEMMA AskingKeeps ==
    ASSUME NEW alone \in BOOLEAN, IInv(alone), NEW p \in Publishers,
           Prepare(p) \/ Lookup(p) \/ Adopt(p) \/ Check(p)
    PROVE  IInv(alone)'
<1> DEFINE me == pub[p]
           s == me.snap
           shown == ListingIdFromOffer(me.h)
<1> USE DEF At
<1>1. me \in Request /\ s \in Row /\ Fine(me, alone) /\ BaseTypeOK /\ ListedWasIssued
    BY DEF IInv, TypeOK, Request
<1>2. /\ me.pc # "idle" /\ me.pc \in Reading /\ UNCHANGED baseVars
      /\ me.h \in Holdings /\ Real(me.h, s)
    BY <1>1 DEF Prepare, Lookup, Adopt, Check, Fine, Reading
<1>3. /\ s.offerId \in BOOLEAN /\ s.listingId \in 0..MaxListings
      /\ 0 \in 0..MaxListings /\ 0 <= issued[me.h]
      /\ shown \in 0..MaxListings /\ shown <= issued[me.h]
    BY <1>1, <1>2, BoundsAreNat DEF Row, ListingIdFromOffer, BaseTypeOK
<1>4. ASSUME NEW status \in {"EBAY_ITEM_CREATED", "ERROR"}, Returns(p, status, s.offerId, s.listingId, FALSE)
      PROVE  IInv(alone)'
    <2>1. Real(me.h, [status |-> status, offerId |-> s.offerId, listingId |-> s.listingId])
        BY <1>2, <1>3 DEF Real, ListedStatuses
    <2> QED
        BY <1>2, <1>3, <1>4, <2>1, ReturnKeeps DEF Statuses, ActiveStatuses
<1>5. ASSUME OfferExists(me.h), NEW id \in 0..MaxListings, id # 0, id <= issued[me.h],
             Returns(p, "PUBLISHED", TRUE, id, TRUE)
      PROVE  IInv(alone)'
    <2>1. Real(me.h, [status |-> "PUBLISHED", offerId |-> TRUE, listingId |-> id])
        BY <1>2, <1>5 DEF Real
    <2> QED
        BY <1>2, <1>5, <2>1, ReturnKeeps DEF Statuses, ActiveStatuses
<1>6. ASSUME OfferExists(me.h), NEW clear \in BOOLEAN, alone /\ clear => ~me.unhindered,
             Returns(p, "EBAY_OFFER_CREATED", TRUE, 0, clear)
      PROVE  IInv(alone)'
    <2>1. Real(me.h, [status |-> "EBAY_OFFER_CREATED", offerId |-> TRUE, listingId |-> 0])
        BY <1>3, <1>6 DEF Real, ListedStatuses
    <2> QED
        BY <1>2, <1>3, <1>6, <2>1, ReturnKeeps DEF Statuses, ActiveStatuses
<1>7. ASSUME NEW pc \in {"offer", "adopt"}, Goes(p, pc),
             pc = "adopt" => OfferExists(me.h) /\ s.listingId = 0
      PROVE  IInv(alone)'
    <2> DEFINE next == [me EXCEPT !.pc = pc, !.try = 0]
    <2>1. next \in Request
        BY <1>1, TryTyped DEF PublishPcs
    <2>2. next.h = me.h /\ next.snap = s /\ next.stale = me.stale /\ next.pc = pc
        BY <1>1 DEF Request
    <2>3. Fine(next, alone)
        BY <1>2, <1>7, <2>1, <2>2, OnTheWayIsFine
    <2> QED
        BY <1>2, <1>7, <2>1, <2>3, MoveKeeps DEF Goes
<1>8. CASE Prepare(p)
    BY <1>4, <1>7, <1>8 DEF Prepare
<1>9. CASE Lookup(p)
    BY <1>2, <1>3, <1>4, <1>5, <1>7, <1>9 DEF Lookup, Real
<1>10. CASE Adopt(p)
    <2>1. OfferExists(me.h) /\ s.listingId = 0
        BY <1>1, <1>10 DEF Adopt, Fine
    <2>2. ASSUME OfferKnown(p, 0) PROVE IInv(alone)'
        <3> DEFINE new == [s EXCEPT !.offerId = TRUE]
                   next == [me EXCEPT !.pc = "publish", !.snap.offerId = TRUE, !.try = 0]
        <3>1. new \in Row /\ new.listingId = 0 /\ Real(me.h, new)
            BY <1>1, <1>2, <2>1, RowsTyped DEF Real, Row
        <3>2. /\ next \in Request
              /\ next.h = me.h /\ next.snap = new /\ next.stale = me.stale /\ next.pc = "publish"
            BY <1>1, PublishingTyped
        <3>3. Fine(next, alone)
            BY <1>1, <1>2, <2>1, <3>1, <3>2 DEF Fine
        <3> QED
            BY <1>2, <2>2, <3>2, <3>3, MoveKeeps DEF OfferKnown
    <2> QED
        BY <1>6, <1>10, <2>1, <2>2 DEF Adopt
<1>11. CASE Check(p)
    <2>1. OfferExists(me.h) /\ (alone /\ me.unhindered => Live(me.h))
        BY <1>1, <1>11 DEF Check, Fine
    <2>2. alone /\ me.unhindered => shown # 0
        BY <1>1, <1>2, <2>1 DEF Live, ListingIdFromOffer, ListedWasIssued
    <2> QED
        BY <1>3, <1>5, <1>6, <1>11, <2>1, <2>2 DEF Check
<1> QED
    BY <1>8, <1>9, <1>10, <1>11

\* PUT or POST of the offer, its answer seen or lost.
LEMMA OfferCallKeeps ==
    ASSUME NEW alone \in BOOLEAN, IInv(alone), NEW p \in Publishers,
           OfferCall(p)
    PROVE  IInv(alone)'
<1> DEFINE me == pub[p]
           s == me.snap
           h == me.h
<1> USE DEF At
<1>1. me \in Request /\ s \in Row /\ Fine(me, alone) /\ BaseTypeOK /\ me.pc = "offer"
    BY DEF IInv, TypeOK, Request, OfferCall
<1>2. h \in Holdings /\ Real(h, s) /\ UNCHANGED dbVars
    BY <1>1 DEF Fine, OfferCall
<1>3. ASSUME UNCHANGED ebayVars, NEW next \in Request, Fine(next, alone), Becomes(p, next)
      PROVE  IInv(alone)'
    BY <1>2, <1>3, MoveKeeps DEF baseVars, ebayVars, dbVars
<1>4. ASSUME NEW next \in Request, Becomes(p, next),
             next.pc \in {"offer", "lookup"}, next.h = h, next.snap = s, next.stale = me.stale
      PROVE  Fine(next, alone)
    BY <1>1, <1>4, OnTheWayIsFine DEF Reading
<1>5. CASE PutOrPostOffer(h, s.offerId) /\ OfferKnown(p, s.listingId)
    <2>1. CASE s.listingId # 0
        <3>1. PICK next \in Request :
                  /\ Becomes(p, next)
                  /\ next.pc = "store" /\ next.h = h
                  /\ next.snap = [status |-> "PUBLISHED", offerId |-> TRUE, listingId |-> s.listingId]
            <4>1. Returns(p, "PUBLISHED", TRUE, s.listingId, TRUE)
                BY <1>5, <2>1 DEF OfferKnown
            <4>2. QED
                <5>1. /\ s.listingId \in 0..MaxListings /\ "PUBLISHED" \in Statuses
                      /\ pub[p].pc # "idle"
                    BY <1>1 DEF Row, Statuses, ActiveStatuses
                <5> QED
                    BY <4>1, <5>1, PublishedIsMove
        <3>2. CASE UNCHANGED ebayVars /\ OfferExists(h)
            <4>1. Real(h, next.snap)
                BY <1>2, <2>1, <3>1, <3>2 DEF Real
            <4>2. Fine(next, alone)
                BY <1>2, <3>1, <4>1, StoreIsFine
            <4> QED
                BY <1>3, <3>1, <3>2, <4>2
        <3>3. CASE EbayCreatesOffer(h)
            <4>1. offer'[h] = "unpublished" /\ issued'[h] = issued[h]
                BY <1>1, <1>2, <3>3 DEF EbayCreatesOffer, BaseTypeOK
            <4>2. Fine(next, alone)'
                BY <1>2, <2>1, <3>1, <4>1 DEF Fine, Real, Reading, OfferExists
            <4> QED
                BY <1>2, <3>1, <3>3, <4>2, EbayKeeps
        <3> QED
            BY <1>5, <3>2, <3>3 DEF PutOrPostOffer
    <2>2. CASE s.listingId = 0
        <3>1. PICK next \in Request :
                  /\ Becomes(p, next)
                  /\ next.h = h /\ next.snap = [s EXCEPT !.offerId = TRUE]
                  /\ next.stale = me.stale /\ next.pc = "publish"
            <4> DEFINE on == [me EXCEPT !.pc = "publish", !.snap.offerId = TRUE, !.try = 0]
            <4>1. /\ on \in Request /\ on.h = h /\ on.snap = [s EXCEPT !.offerId = TRUE]
                  /\ on.stale = me.stale /\ on.pc = "publish"
                BY <1>1, PublishingTyped
            <4>2. Becomes(p, on)
                BY <1>5, <2>2 DEF OfferKnown
            <4> HIDE DEF on
            <4> QED
                BY <4>1, <4>2
        <3>2. /\ next.snap.offerId = TRUE /\ next.snap.listingId = 0
              /\ next.snap.status = s.status
            BY <1>1, <2>2, <3>1 DEF Row
        <3>3. alone /\ ~next.stale => row[h].listingId = 0
            BY <1>1, <2>2, <3>1 DEF Fine, Reading
        <3>4. CASE UNCHANGED ebayVars /\ OfferExists(h)
            <4>1. Fine(next, alone)
                BY <1>2, <3>1, <3>2, <3>3, <3>4 DEF Fine, Real
            <4> QED
                BY <1>3, <3>1, <3>4, <4>1
        <3>5. CASE EbayCreatesOffer(h)
            <4>1. offer'[h] = "unpublished" /\ issued'[h] = issued[h] /\ row' = row
                BY <1>1, <1>2, <3>5 DEF EbayCreatesOffer, BaseTypeOK, dbVars
            <4>2. Fine(next, alone)'
                BY <1>2, <3>1, <3>2, <3>3, <4>1 DEF Fine, Real, OfferExists
            <4> QED
                BY <1>2, <3>1, <3>5, <4>2, EbayKeeps
        <3> QED
            BY <1>5, <3>4, <3>5 DEF PutOrPostOffer
    <2> QED
        BY <2>1, <2>2
<1>6. CASE Goes(p, "lookup") /\ UNCHANGED ebayVars
    <2>1. PICK next \in Request : /\ Becomes(p, next) /\ next.pc = "lookup"
                                  /\ next.h = h /\ next.snap = s /\ next.stale = me.stale
        <3>1. [me EXCEPT !.pc = "lookup", !.try = 0] \in Request
            BY <1>1, TryTyped DEF PublishPcs
        <3> QED
            BY <1>1, <1>6, <3>1 DEF Goes, Request
    <2> QED
        BY <1>3, <1>4, <1>6, <2>1
<1>7. CASE GoesHindered(p, "lookup") /\ UNCHANGED ebayVars
    <2>1. PICK next \in Request : /\ Becomes(p, next) /\ next.pc = "lookup"
                                  /\ next.h = h /\ next.snap = s /\ next.stale = me.stale
        <3> DEFINE on == [me EXCEPT !.pc = "lookup", !.try = 0, !.unhindered = FALSE]
        <3>1. /\ on \in Request /\ on.pc = "lookup" /\ on.h = h
              /\ on.snap = s /\ on.stale = me.stale
            BY <1>1, HinderedTyped DEF PublishPcs
        <3> QED
            BY <1>7, <3>1 DEF GoesHindered
    <2> QED
        BY <1>3, <1>4, <1>7, <2>1
<1>8. CASE (PutOrPostOffer(h, s.offerId) \/ UNCHANGED ebayVars) /\ RetriesThen(p, "lookup")
    <2>1. PICK next \in Request :
              /\ Becomes(p, next)
              /\ next.h = h /\ next.snap = s /\ next.stale = me.stale
              /\ next.pc \in {"offer", "lookup"}
        BY <1>1, <1>8, RetryIsMove DEF PublishPcs
    <2>2. Fine(next, alone)
        BY <1>4, <2>1
    <2>3. CASE UNCHANGED ebayVars
        BY <1>3, <2>1, <2>2, <2>3
    <2>4. CASE EbayCreatesOffer(h)
        <3>1. offer'[h] = "unpublished" /\ issued'[h] = issued[h] /\ row' = row
            BY <1>1, <1>2, <2>4 DEF EbayCreatesOffer, BaseTypeOK, dbVars
        <3>2. Fine(next, alone)'
            BY <1>2, <2>1, <2>2, <3>1 DEF Fine, Real, OfferExists
        <3> QED
            BY <1>2, <2>1, <2>4, <3>2, EbayKeeps
    <2> QED
        BY <1>8, <2>3, <2>4 DEF PutOrPostOffer
<1> QED
    BY <1>5, <1>6, <1>7, <1>8 DEF OfferCall

\* POST of the publish, its answer seen or lost.
LEMMA PublishCallKeeps ==
    ASSUME NEW alone \in BOOLEAN, IInv(alone), NEW p \in Publishers,
           PublishCall(p)
    PROVE  IInv(alone)'
<1> DEFINE me == pub[p]
           s == me.snap
           h == me.h
<1> USE DEF At
<1>1. me \in Request /\ s \in Row /\ Fine(me, alone) /\ BaseTypeOK /\ me.pc = "publish"
    BY DEF IInv, TypeOK, Request, PublishCall
<1>2. /\ h \in Holdings /\ Real(h, s) /\ UNCHANGED dbVars
      /\ OfferExists(h) /\ s.listingId = 0
    BY <1>1 DEF Fine, PublishCall
<1>3. ASSUME UNCHANGED ebayVars, NEW next \in Request, Fine(next, alone), Becomes(p, next)
      PROVE  IInv(alone)'
    BY <1>2, <1>3, MoveKeeps DEF baseVars, ebayVars, dbVars
<1>4. ASSUME NEW next \in Request, Becomes(p, next),
             next.pc \in {"publish", "check"},
             alone /\ next.pc = "check" /\ next.unhindered => Live(h),
             next.h = h, next.snap = s, next.stale = me.stale
      PROVE  Fine(next, alone)
    BY <1>1, <1>2, <1>4, OnTheWayIsFine DEF Reading
<1>5. ASSUME EbayPublishesOffer(h)
      PROVE  /\ offer'[h] = "published" /\ issued'[h] = issued[h] + 1
             /\ issued[h] \in Nat /\ issued[h] + 1 \in 0..MaxListings
             /\ row' = row
    BY <1>1, <1>2, <1>5, BoundsAreNat DEF EbayPublishesOffer, BaseTypeOK, dbVars
<1>6. CASE EbayPublishesOffer(h) /\ Returns(p, "PUBLISHED", TRUE, issued[h] + 1, TRUE)
    <2>1. PICK next \in Request :
              /\ Becomes(p, next)
              /\ next.pc = "store" /\ next.h = h
              /\ next.snap = [status |-> "PUBLISHED", offerId |-> TRUE, listingId |-> issued[h] + 1]
        <3>1. /\ issued[h] + 1 \in 0..MaxListings /\ "PUBLISHED" \in Statuses
              /\ pub[p].pc # "idle"
            BY <1>1, <1>5, <1>6 DEF Statuses, ActiveStatuses
        <3> QED
            BY <1>6, <3>1, PublishedIsMove
    <2>2. Fine(next, alone)'
        BY <1>2, <1>5, <1>6, <2>1 DEF Fine, Real, Reading, OfferExists
    <2> QED
        BY <1>2, <1>6, <2>1, <2>2, EbayKeeps
<1>7. CASE Live(h) /\ Goes(p, "check") /\ UNCHANGED ebayVars
    <2>1. PICK next \in Request : /\ Becomes(p, next) /\ next.pc = "check"
                                  /\ next.h = h /\ next.snap = s /\ next.stale = me.stale
        <3>1. [me EXCEPT !.pc = "check", !.try = 0] \in Request
            BY <1>1, TryTyped DEF PublishPcs
        <3> QED
            BY <1>1, <1>7, <3>1 DEF Goes, Request
    <2> QED
        BY <1>3, <1>4, <1>7, <2>1
<1>8. CASE GoesHindered(p, "check") /\ UNCHANGED ebayVars
    <2>1. PICK next \in Request : /\ Becomes(p, next) /\ next.pc = "check" /\ ~next.unhindered
                                  /\ next.h = h /\ next.snap = s /\ next.stale = me.stale
        <3> DEFINE on == [me EXCEPT !.pc = "check", !.try = 0, !.unhindered = FALSE]
        <3>1. /\ on \in Request /\ on.pc = "check" /\ on.h = h
              /\ on.snap = s /\ on.stale = me.stale /\ ~on.unhindered
            BY <1>1, HinderedTyped DEF PublishPcs
        <3> QED
            BY <1>8, <3>1 DEF GoesHindered
    <2> QED
        BY <1>3, <1>4, <1>8, <2>1
<1>9. CASE (EbayPublishesOffer(h) \/ UNCHANGED ebayVars) /\ RetriesThen(p, "check")
    <2>1. PICK next \in Request :
              /\ Becomes(p, next)
              /\ next.h = h /\ next.snap = s /\ next.stale = me.stale
              /\ next.pc # "publish" => next.pc = "check" /\ ~next.unhindered
        <3>1. "check" \in PublishPcs /\ pub[p].pc # "idle" /\ RetriesThen(p, "check")
            BY <1>1, <1>9 DEF PublishPcs
        <3> QED
            BY <1>1, <3>1, RetryIsMove
    <2>2. Fine(next, alone)
        BY <1>4, <2>1
    <2>3. CASE UNCHANGED ebayVars
        BY <1>3, <2>1, <2>2, <2>3
    <2>4. CASE EbayPublishesOffer(h)
        <3>1. Fine(next, alone)'
            BY <1>1, <1>2, <1>5, <2>1, <2>2, <2>4 DEF Fine, Real, OfferExists, Live, Row
        <3> QED
            BY <1>2, <2>1, <2>4, <3>1, EbayKeeps
    <2> QED
        BY <1>9, <2>3, <2>4
<1> QED
    BY <1>6, <1>7, <1>8, <1>9 DEF PublishCall

\* The result and the path are stored, or the request is given up.
LEMMA StoringKeeps ==
    ASSUME NEW alone \in BOOLEAN, IInv(alone), NEW p \in Publishers,
           Store(p) \/ Persist(p) \/ Abort(p)
    PROVE  IInv(alone)'
<1> DEFINE me == pub[p]
<1> USE DEF At
<1>1. me \in Request /\ me.snap \in Row /\ Fine(me, alone) /\ BaseTypeOK
    BY DEF IInv, TypeOK, Request
<1>2. CASE Store(p)
    <2>1. me.h \in Holdings /\ Real(me.h, me.snap)
        BY <1>1, <1>2 DEF Store, Fine
    <2> DEFINE on == [me EXCEPT !.pc = "persist"]
    <2>2. /\ on \in Request
          /\ on.pc = "persist" /\ on.h = me.h /\ on.snap = me.snap
        BY <1>1 DEF Request, PublishPcs
    <2>3. Idle.pc = "idle" /\ Idle.h = None
        BY DEF Idle
    <2> QED
        <3>1. me.snap.status \in ListedStatuses => issued[me.h] # 0
            BY <1>1, <2>1 DEF Real, Row, BaseTypeOK
        <3> QED
            BY <1>1, <1>2, <2>1, <2>2, <2>3, <3>1, RowsTyped, WriteKeeps DEF Store
<1>3. CASE Persist(p)
    <2>1. me.h \in Holdings
        BY <1>1, <1>3 DEF Persist, Fine
    <2>2. BaseTypeOK' /\ ListedWasIssued' /\ RowsAreReal'
        BY <1>1, <1>3, <2>1
        DEF Persist, PatchSalesPath, SalesPaths, BaseTypeOK, ListedWasIssued, RowsAreReal,
            Real, OfferExists, ebayVars, IInv
    <2>3. ASSUME NEW q \in Publishers PROVE pub'[q] \in Request /\ Fine(pub[q], alone)'
        <3>1. pub'[q] \in Request /\ Fine(pub'[q], alone)
            BY <1>3, RowsTyped DEF Persist, Becomes, IInv, TypeOK
        <3> QED
            BY <1>3, <3>1 DEF Persist, Fine, Real, OfferExists, Live, ebayVars
    <2>4. pub' \in [Publishers -> Request]
        BY <1>3, RowsTyped DEF Persist, Becomes, IInv, TypeOK
    <2> QED
        BY <2>2, <2>3, <2>4 DEF IInv, TypeOK
<1>4. CASE Abort(p)
    BY <1>4, RowsTyped, MoveKeeps DEF Abort
<1> QED
    BY <1>2, <1>3, <1>4

\* The seller ends a listing: whoever was about it is hindered from then on.
LEMMA SellerEndsKeeps ==
    ASSUME NEW alone \in BOOLEAN, IInv(alone),
           NEW h \in Holdings, SellerEnds(h)
    PROVE  IInv(alone)'
<1> USE DEF IInv, TypeOK
<1>1. /\ offer' \in [Holdings -> OfferStates]
      /\ \A k \in Holdings : OfferExists(k) => OfferExists(k)'
      /\ \A k \in Holdings \ {h} : offer'[k] = offer[k]
      /\ offer[h] = "published"
      /\ issued' = issued /\ row' = row
    BY DEF SellerEnds, EbayEndsListing, Live, OfferExists, OfferStates, BaseTypeOK, dbVars
<1>2. \A k \in Holdings, r \in Row : Real(k, r) => Real(k, r)'
    BY <1>1 DEF Real
<1>3. \A q \in Publishers :
          pub'[q] = [pub[q] EXCEPT !.unhindered = IF pub[q].h = h THEN FALSE ELSE @]
    BY DEF SellerEnds
<1>4. pub' \in [Publishers -> Request]
    BY DEF SellerEnds, Request
<1>5. ASSUME NEW q \in Publishers PROVE Fine(pub[q], alone)'
    <2>1. /\ pub[q] \in Request /\ Fine(pub[q], alone) /\ pub[q].snap \in Row
          /\ pub'[q].pc = pub[q].pc /\ pub'[q].h = pub[q].h
          /\ pub'[q].snap = pub[q].snap /\ pub'[q].stale = pub[q].stale
          /\ pub'[q].unhindered => pub[q].unhindered /\ pub[q].h # h
        <3> DEFINE me == pub[q]
                   new == [me EXCEPT !.unhindered = IF me.h = h THEN FALSE ELSE @]
        <3>1. me \in Request /\ Fine(me, alone) /\ me.snap \in Row
            BY DEF Request
        <3>2. /\ new.pc = me.pc /\ new.h = me.h /\ new.snap = me.snap /\ new.stale = me.stale
              /\ new.unhindered = IF me.h = h THEN FALSE ELSE me.unhindered
            BY <3>1, Zenon DEF Request
        <3>3. pub'[q] = new
            BY <1>3
        <3> HIDE DEF new
        <3> QED
            BY <3>1, <3>2, <3>3
    <2> QED
        BY <1>1, <1>2, <2>1 DEF Fine, Live
<1>6. ListedWasIssued' /\ RowsAreReal' /\ BaseTypeOK'
    BY <1>1, <1>2
    DEF ListedWasIssued, RowsAreReal, BaseTypeOK, SellerEnds, EbayEndsListing, dbVars
<1> QED
    BY <1>4, <1>5, <1>6

-----------------------------------------------------------------------------
(* The inductive invariant and what follows from it                        *)

\* Drafts, and nothing on eBay: the invariant holds.
LEMMA InitInv == Init => IInv(TRUE)
<1> SUFFICES ASSUME Init PROVE IInv(TRUE)
    OBVIOUS
<1>1. [NoRow EXCEPT !.status = "READY_FOR_REVIEW"] \in Row
    BY RowsTyped DEF Statuses
<1>2. TypeOK
    BY <1>1, RowsTyped, BoundsAreNat DEF Init, TypeOK, BaseTypeOK, OfferStates, SalesPaths
<1>3. ListedWasIssued /\ RowsAreReal
    BY BoundsAreNat DEF Init, ListedWasIssued, RowsAreReal, Real, NoRow, ListedStatuses
<1> QED
    BY <1>2, <1>3, RowsTyped DEF Init, IInv

LEMMA StepKeeps ==
    ASSUME NEW alone \in BOOLEAN, IInv(alone), NEW p \in Publishers, PublishStep(p)
    PROVE  IInv(alone)'
BY ReadingKeeps, AskingKeeps, OfferCallKeeps, PublishCallKeeps, StoringKeeps DEF PublishStep

\* Every step keeps the invariant.
LEMMA NextInv == IInv(TRUE) /\ [Next]_vars => IInv(TRUE)'
<1> SUFFICES ASSUME IInv(TRUE), [Next]_vars PROVE IInv(TRUE)'
    OBVIOUS
<1>1. CASE UNCHANGED vars
    BY <1>1
    DEF vars, baseVars, IInv, TypeOK, BaseTypeOK, ListedWasIssued, RowsAreReal, Fine, Real,
        OfferExists, Live
<1>2. ASSUME NEW p \in Publishers, PublishStep(p) PROVE IInv(TRUE)'
    BY <1>2, StepKeeps
<1> QED
    BY <1>1, <1>2, SellerEndsKeeps DEF Next

\* The inductive invariant of approve-and-publish.
THEOREM Invariance == Spec => []IInv(TRUE)
BY InitInv, NextInv, PTL DEF Spec

\* No interleaving of requests, lost answers and ended listings leaves a value
\* out of range.
THEOREM TypeCorrect == Spec => []TypeOK
<1>1. IInv(TRUE) => TypeOK
    BY DEF IInv
<1> QED
    BY <1>1, Invariance, PTL

\* External ids, in the rows and in results on their way to them, are ids eBay
\* gave out, and what claims to be listed carries both.
THEOREM RealIds == Spec => []IdsAreReal
<1>1. IInv(TRUE) => IdsAreReal
    <2> SUFFICES ASSUME IInv(TRUE), NEW h \in Holdings PROVE
            \A r \in {row[h]} \cup {pub[p].snap : p \in {q \in Publishers : pub[q].h = h}} :
                Real(h, r)
        BY DEF IdsAreReal, Real
    <2>1. Real(h, row[h])
        BY DEF IInv, RowsAreReal
    <2>2. ASSUME NEW p \in Publishers, pub[p].h = h PROVE Real(h, pub[p].snap)
        BY <2>2, NoneIsNoHolding DEF IInv, Fine
    <2> QED
        BY <2>1, <2>2
<1> QED
    BY <1>1, Invariance, PTL

\* Approve-and-publish converges: a request that eBay, the rules and the seller
\* let through has PUBLISHED to store, whatever attempts before it left.
THEOREM Converges == Spec => []UnhinderedPublishes
<1>1. IInv(TRUE) => UnhinderedPublishes
    BY DEF IInv, Fine, UnhinderedPublishes, At
<1> QED
    BY <1>1, Invariance, PTL

\* A retry cannot create a duplicate: eBay issues another listing for a row that
\* has one only to a request that read the row before another request wrote it.
THEOREM OneListing == Spec => NoSecondListing
<1> DEFINE Excused(h) ==
        issued'[h] # issued[h] =>
            \/ row[h].listingId = 0
            \/ \E p \in Publishers :
                  /\ pub[p].h = h /\ At(p, "publish") /\ pub'[p] # pub[p]
                  /\ pub[p].stale
<1>1. ASSUME IInv(TRUE), [Next]_vars, NEW h \in Holdings, issued'[h] # issued[h]
      PROVE  \/ row[h].listingId = 0
             \/ \E p \in Publishers :
                   /\ pub[p].h = h /\ At(p, "publish") /\ pub'[p] # pub[p]
                   /\ pub[p].stale
    <2>1. PICK p \in Publishers : PublishCall(p) /\ EbayPublishesOffer(pub[p].h)
        BY <1>1
        DEF Next, vars, baseVars, PublishStep, Load, ReadListing, Hydrate, StoreHigh, Connect,
            Prepare, OfferCall, PutOrPostOffer, EbayCreatesOffer, Lookup, Adopt, PublishCall,
            Check, Store, Persist, Abort, ebayVars, SellerEnds, EbayEndsListing
    <2>2. /\ pub[p] \in Request /\ Fine(pub[p], TRUE) /\ pub[p].pc = "publish"
          /\ pub[p].h \in Holdings /\ issued \in [Holdings -> 0..MaxListings]
        BY <1>1, <2>1 DEF IInv, TypeOK, BaseTypeOK, PublishCall, At, Fine
    <2>3. pub[p].h = h
        BY <1>1, <2>1, <2>2 DEF EbayPublishesOffer
    <2>4. pub'[p] # pub[p]
        <3>1. CASE Returns(p, "PUBLISHED", TRUE, issued[h] + 1, TRUE)
            BY <1>1, <2>2, <3>1 DEF Returns, Becomes, IInv, TypeOK, Request
        <3>2. CASE RetriesThen(p, "check")
            <4>1. pub[p].try + 1 # pub[p].try
                BY <2>2, RetriesAreNat DEF Request
            <4>2. PICK next \in Request :
                      /\ pub'[p] = next
                      /\ next.try = pub[p].try + 1 \/ next.pc = "check"
                <5>1. pub \in [Publishers -> Request]
                    BY <1>1 DEF IInv, TypeOK
                <5>2. pub' \in [Publishers -> Request]
                    BY <1>1, NextInv DEF IInv, TypeOK
                <5>3. CASE pub'[p] = [pub[p] EXCEPT !.try = @ + 1]
                    BY <2>2, <5>2, <5>3 DEF Request
                <5>4. CASE pub'[p] = [pub[p] EXCEPT !.pc = "check", !.try = 0, !.unhindered = FALSE]
                    BY <2>2, <5>2, <5>4 DEF Request
                <5> QED
                    BY <3>2, <5>1, <5>3, <5>4 DEF RetriesThen, GoesHindered, Becomes
            <4> QED
                BY <2>2, <4>1, <4>2
        <3>3. ~(UNCHANGED ebayVars)
            BY <1>1 DEF ebayVars
        <3> QED
            BY <2>1, <2>3, <3>1, <3>2, <3>3 DEF PublishCall
    <2>5. ~pub[p].stale => row[h].listingId = 0
        BY <2>2, <2>3 DEF Fine, Reading
    <2> QED
        BY <2>1, <2>2, <2>3, <2>4, <2>5 DEF At
<1>2. IInv(TRUE) /\ [Next]_vars => [\A h \in Holdings : Excused(h)]_vars
    BY <1>1
<1> QED
    BY <1>2, Invariance, PTL DEF Spec, NoSecondListing

-----------------------------------------------------------------------------
(* In company: what a request does to what all components share, and what   *)
(* it needs of them                                                         *)

\* eBay takes no offer and no listing id back.
Grows ==
    \A h \in Holdings : (OfferExists(h) => OfferExists(h)') /\ issued[h] <= issued'[h]

\* A step of a request marks nothing sold, and a path only for a listing that
\* eBay issued.
LEMMA StepEffects ==
    ASSUME NEW alone \in BOOLEAN, IInv(alone), NEW p \in Publishers, PublishStep(p)
    PROVE  /\ Grows
           /\ \A h \in Holdings : row'[h].status = "SOLD" => row[h].status = "SOLD"
           /\ \A h \in Holdings :
                 path'[h] # path[h] => path'[h] = "listed_single" /\ issued'[h] # 0
           /\ paid' = paid /\ disp' = disp
<1> DEFINE me == pub[p]
<1>1. /\ me \in Request /\ me.snap \in Row /\ Fine(me, alone) /\ BaseTypeOK
      /\ issued \in [Holdings -> Int]
    BY BoundsAreNat DEF IInv, TypeOK, Request, BaseTypeOK
<1>2. CASE UNCHANGED baseVars
    BY <1>1, <1>2 DEF baseVars, Grows, OfferExists
<1>3. CASE StoreHigh(p) \/ Store(p)
    <2>1. /\ me.h \in Holdings /\ UNCHANGED <<ebayVars, path, disp>>
          /\ \E r \in Row : UpsertListing(me.h, r) /\ r.status # "SOLD"
        <3>1. CASE StoreHigh(p)
            <4>1. [me.snap EXCEPT !.status = "APPROVED"] \in Row
                BY <1>1, RowsTyped DEF Statuses, ActiveStatuses
            <4>2. [me.snap EXCEPT !.status = "APPROVED"].status # "SOLD"
                BY <1>1 DEF Row
            <4> QED
                BY <1>1, <3>1, <4>1, <4>2 DEF StoreHigh, At, Fine
        <3>2. CASE Store(p)
            BY <1>1, <3>2 DEF Store, At, Fine
        <3> QED
            BY <1>3, <3>1, <3>2
    <2> QED
        BY <1>1, <2>1 DEF UpsertListing, BaseTypeOK, ebayVars, Grows, OfferExists
<1>4. CASE OfferCall(p) \/ PublishCall(p)
    <2>1. UNCHANGED dbVars /\ paid' = paid
        BY <1>4
        DEF OfferCall, PublishCall, PutOrPostOffer, EbayCreatesOffer, EbayPublishesOffer, ebayVars
    <2>2. UNCHANGED ebayVars \/ EbayCreatesOffer(me.h) \/ EbayPublishesOffer(me.h)
        BY <1>4 DEF OfferCall, PublishCall, PutOrPostOffer
    <2>3. Grows
        BY <1>1, <2>2
        DEF EbayCreatesOffer, EbayPublishesOffer, ebayVars, Grows, OfferExists, BaseTypeOK
    <2> QED
        BY <2>1, <2>3 DEF dbVars
<1>5. CASE Persist(p)
    <2>1. me.h \in Holdings /\ issued[me.h] # 0
        BY <1>1, <1>5 DEF Persist, At, Fine
    <2> QED
        BY <1>1, <1>5, <2>1
        DEF Persist, PatchSalesPath, BaseTypeOK, ebayVars, Grows, OfferExists
<1>6. CASE Abort(p)
    BY <1>2, <1>6 DEF Abort
<1> QED
    BY <1>2, <1>3, <1>4, <1>5, <1>6
    DEF PublishStep, Load, ReadListing, Hydrate, Connect, Prepare, Lookup, Adopt, Check

\* Requests stay fine while other components write real rows and eBay grows.
LEMMA OthersKeep ==
    ASSUME IInv(FALSE), UNCHANGED pub, BaseTypeOK', ListedWasIssued', RowsAreReal', Grows
    PROVE  IInv(FALSE)'
<1> SUFFICES ASSUME NEW p \in Publishers PROVE Fine(pub[p], FALSE)'
    BY DEF IInv, TypeOK
<1>1. /\ pub[p] \in Request /\ pub[p].snap \in Row /\ Fine(pub[p], FALSE)
      /\ issued \in [Holdings -> Nat] /\ issued' \in [Holdings -> Nat]
    <2>1. pub[p] \in Request /\ Fine(pub[p], FALSE) /\ BaseTypeOK
        BY DEF IInv, TypeOK
    <2>2. 0..MaxListings \subseteq Nat
        BY BoundsAreNat
    <2> QED
        BY <2>1, <2>2 DEF Request, BaseTypeOK
<1>2. \A h \in Holdings, r \in Row : Real(h, r) => Real(h, r)'
    BY <1>1, BoundsAreNat DEF Real, Row, Grows
<1> QED
    BY <1>1, <1>2 DEF Fine, Grows

=============================================================================
