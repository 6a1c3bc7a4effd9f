----------------------------- MODULE EbayPublish -----------------------------
(***************************************************************************)
(* Approve-and-publish: service.ts approveAndPublish and the publishListing *)
(* sequence of the Inventory adapter.  A publisher is one running request;  *)
(* each action is the code between two awaits, so another request, a job    *)
(* process or the seller may act in between.  The row read at the start is  *)
(* the publisher's working copy `snap`: it is what the adapter is given,    *)
(* what its result is laid over, and what is written back at the end.       *)
(***************************************************************************)
EXTENDS EbayBase

CONSTANTS
    Publishers,       \* concurrent approveAndPublish requests
    MaxRetries        \* the HTTP client's maxRetries

ASSUME RetriesAreNat == MaxRetries \in Nat

VARIABLE pub          \* the requests in progress

vars == <<baseVars, pub>>

PublishPcs == {"idle", "read", "hydrate", "storeHigh", "connect", "prepare", "offer",
               "lookup", "adopt", "publish", "check", "store", "persist"}

Request == [pc: PublishPcs, h: Holdings \cup {None}, hold: BOOLEAN, high: BOOLEAN,
            snap: Row, try: 0..MaxRetries, unhindered: BOOLEAN, stale: BOOLEAN]

Idle == [pc |-> "idle", h |-> None, hold |-> FALSE, high |-> FALSE,
         snap |-> NoRow, try |-> 0, unhindered |-> TRUE, stale |-> FALSE]

TypeOK == BaseTypeOK /\ pub \in [Publishers -> Request]

\* A draft was made for every holding; nothing is on eBay yet.
Init ==
    /\ offer = [h \in Holdings |-> "none"]
    /\ issued = [h \in Holdings |-> 0]
    /\ paid = {}
    /\ row = [h \in Holdings |-> [NoRow EXCEPT !.status = "READY_FOR_REVIEW"]]
    /\ path = [h \in Holdings |-> "available"]
    /\ disp \in [Holdings -> Dispositions]
    /\ pub = [p \in Publishers |-> Idle]

-----------------------------------------------------------------------------
(* Moving a request on.  Two parts of it are history.  `unhindered` stays    *)
(* TRUE while nothing but lost answers and earlier attempts stood in the    *)
(* way; `stale` says that another request wrote the row after it was read.  *)

Becomes(p, next) == pub' = [pub EXCEPT ![p] = next]

At(p, pc) == pub[p].pc = pc

Goes(p, pc) == Becomes(p, [pub[p] EXCEPT !.pc = pc, !.try = 0])

GoesHindered(p, pc) ==
    Becomes(p, [pub[p] EXCEPT !.pc = pc, !.try = 0, !.unhindered = FALSE])

\* The request writes the row: what the others read of it is stale.
WritesAndBecomes(p, next) ==
    pub' = [q \in Publishers |->
              IF q = p THEN next
              ELSE [pub[q] EXCEPT !.stale = @ \/ (pub[q].h = pub[p].h /\ pub[q].pc # "read")]]

\* publishListing returns; `clear` says whether the request stays unhindered.
Returns(p, status, offerId, listingId, clear) ==
    Becomes(p, [pub[p] EXCEPT
        !.pc = "store", !.try = 0, !.unhindered = @ /\ clear,
        !.snap = [status |-> status, offerId |-> offerId, listingId |-> listingId]])

\* Mutant: one retry too many is counted.
RetriesThenOffByOne(p, pc) ==
    IF pub[p].try <= MaxRetries
    THEN Becomes(p, [pub[p] EXCEPT !.try = @ + 1])
    ELSE GoesHindered(p, pc)

\* The client saw no answer, or a 5xx: it sends the same request again until
\* its retries are used up, and then reports a failed call.
RetriesThen(p, pc) ==
    IF pub[p].try < MaxRetries
    THEN Becomes(p, [pub[p] EXCEPT !.try = @ + 1])
    ELSE GoesHindered(p, pc)

-----------------------------------------------------------------------------
(* approveAndPublish up to the adapter                                     *)

\* The route loads the holdings, with the disposition stored at that moment.
Load(p, h) ==
    /\ At(p, "idle")
    /\ Becomes(p, [Idle EXCEPT !.pc = "read", !.h = h, !.hold = (disp[h] = "HOLD")])
    /\ UNCHANGED baseVars

\* getListing; without a row the request throws.
ReadListing(p) ==
    /\ At(p, "read")
    /\ LET listing == row[pub[p].h]
       IN  IF listing.status = "NONE"
           THEN Becomes(p, Idle)
           ELSE Becomes(p, [pub[p] EXCEPT !.pc = "hydrate", !.snap = listing])
    /\ UNCHANGED baseVars

\* hydrateHolding, the payload's blockers and the high-value rule.  Missing
\* images, category or identity, and the price, are data: any may be the case.
Hydrate(p) ==
    /\ At(p, "hydrate")
    /\ \E incomplete, high \in BOOLEAN :
          IF incomplete \/ pub[p].hold \/ path[pub[p].h] = "sold"
          THEN Becomes(p, [pub[p] EXCEPT !.pc = "store", !.hold = FALSE,
                               !.snap.status = "ERROR", !.unhindered = FALSE])
          ELSE Becomes(p, [pub[p] EXCEPT !.pc = IF high THEN "storeHigh" ELSE "connect",
                               !.hold = FALSE, !.high = high])
    /\ UNCHANGED baseVars

\* A high-value card that may not publish by itself is parked as APPROVED.
StoreHigh(p) ==
    /\ At(p, "storeHigh")
    /\ UpsertListing(pub[p].h, [pub[p].snap EXCEPT !.status = "APPROVED"])
    /\ WritesAndBecomes(p, [pub[p] EXCEPT !.pc = "connect"])
    /\ UNCHANGED <<ebayVars, path, disp>>

\* connection(): configuration, policies and the stored token decide.
Connect(p) ==
    /\ At(p, "connect")
    /\ \/ Becomes(p, [pub[p] EXCEPT !.pc = "store", !.high = FALSE,
                          !.snap.status = "APPROVED", !.unhindered = FALSE])
       \/ pub[p].high /\ Becomes(p, Idle)
       \/ ~pub[p].high /\ Goes(p, "prepare")
    /\ UNCHANGED baseVars

-----------------------------------------------------------------------------
(* publishListing                                                          *)

\* Location and inventory item; neither is state of the offer.
Prepare(p) ==
    /\ At(p, "prepare")
    /\ LET s == pub[p].snap
       IN  \/ Goes(p, "offer")
           \/ Returns(p, "EBAY_ITEM_CREATED", s.offerId, s.listingId, FALSE)
           \/ Returns(p, "ERROR", s.offerId, s.listingId, FALSE)
    /\ UNCHANGED baseVars

\* Mutant: every retry publishes again, the known listing id is ignored.
OfferKnownIgnoringListing(p, listingId) ==
    Becomes(p, [pub[p] EXCEPT !.pc = "publish", !.snap.offerId = TRUE, !.try = 0])

\* An offer id is now known.  A known listing id ends the sequence there.
OfferKnown(p, listingId) ==
    IF listingId # 0
    THEN Returns(p, "PUBLISHED", TRUE, listingId, TRUE)
    ELSE Becomes(p, [pub[p] EXCEPT !.pc = "publish", !.snap.offerId = TRUE, !.try = 0])

\* PUT /offer/{id} when the id is known, POST /offer when it is not.
PutOrPostOffer(h, known) ==
    IF known THEN OfferExists(h) /\ UNCHANGED ebayVars ELSE EbayCreatesOffer(h)

OfferCall(p) ==
    LET h == pub[p].h
        known == pub[p].snap.offerId
    IN  /\ At(p, "offer")
        /\ \/ PutOrPostOffer(h, known) /\ OfferKnown(p, pub[p].snap.listingId)
           \/ ~known /\ OfferExists(h) /\ Goes(p, "lookup") /\ UNCHANGED ebayVars
           \/ GoesHindered(p, "lookup") /\ UNCHANGED ebayVars
           \/ (PutOrPostOffer(h, known) \/ UNCHANGED ebayVars) /\ RetriesThen(p, "lookup")
        /\ UNCHANGED dbVars

\* Mutant: a rejected create is an error; the left-over offer is not adopted.
LookupWithoutAdoption(p) ==
    /\ At(p, "lookup")
    /\ Returns(p, "EBAY_ITEM_CREATED", pub[p].snap.offerId, pub[p].snap.listingId, TRUE)
    /\ UNCHANGED baseVars

\* GET /offer?sku= after a failed create or update, to adopt a left-over offer.
Lookup(p) ==
    LET s == pub[p].snap
        shown == ListingIdFromOffer(pub[p].h)
        listingId == IF shown # 0 THEN shown ELSE s.listingId
    IN  /\ At(p, "lookup")
        /\ \/ /\ OfferExists(pub[p].h)
              /\ IF listingId # 0
                 THEN Returns(p, "PUBLISHED", TRUE, listingId, TRUE)
                 ELSE Goes(p, "adopt")
           \/ Returns(p, "EBAY_ITEM_CREATED", s.offerId, s.listingId, FALSE)
        /\ UNCHANGED baseVars

\* PUT the adopted offer.
Adopt(p) ==
    /\ At(p, "adopt")
    /\ \/ OfferKnown(p, 0)
       \/ Returns(p, "EBAY_OFFER_CREATED", TRUE, 0, FALSE)
    /\ UNCHANGED baseVars

\* POST /offer/{id}/publish: refused when the offer is live already.
PublishCall(p) ==
    LET h == pub[p].h
    IN  /\ At(p, "publish")
        /\ \/ EbayPublishesOffer(h) /\ Returns(p, "PUBLISHED", TRUE, issued[h] + 1, TRUE)
           \/ Live(h) /\ Goes(p, "check") /\ UNCHANGED ebayVars
           \/ GoesHindered(p, "check") /\ UNCHANGED ebayVars
           \/ (EbayPublishesOffer(h) \/ UNCHANGED ebayVars) /\ RetriesThen(p, "check")
        /\ UNCHANGED dbVars

\* Mutant: a failed publish is taken for an already published offer.
CheckAssumesLive(p) ==
    /\ At(p, "check")
    /\ Returns(p, "PUBLISHED", TRUE, ListingIdFromOffer(pub[p].h), TRUE)
    /\ UNCHANGED baseVars

\* GET /offer/{id} settles what a failed publish really did.
Check(p) ==
    LET settled == ListingIdFromOffer(pub[p].h)
    IN  /\ At(p, "check")
        /\ \/ settled # 0 /\ Returns(p, "PUBLISHED", TRUE, settled, TRUE)
           \/ settled = 0 /\ Returns(p, "EBAY_OFFER_CREATED", TRUE, 0, TRUE)
           \/ Returns(p, "EBAY_OFFER_CREATED", TRUE, 0, FALSE)
        /\ UNCHANGED baseVars

-----------------------------------------------------------------------------
(* approveAndPublish after the adapter                                     *)

\* Mutant: the path is set whatever became of the publish.
StoreThenPersist(p) ==
    /\ At(p, "store")
    /\ UpsertListing(pub[p].h, pub[p].snap)
    /\ WritesAndBecomes(p, [pub[p] EXCEPT !.pc = "persist"])
    /\ UNCHANGED <<ebayVars, path, disp>>

Store(p) ==
    LET s == pub[p].snap
    IN  /\ At(p, "store")
        /\ UpsertListing(pub[p].h, s)
        /\ WritesAndBecomes(p, IF s.status \in ListedStatuses
                               THEN [pub[p] EXCEPT !.pc = "persist"] ELSE Idle)
        /\ UNCHANGED <<ebayVars, path, disp>>

Persist(p) ==
    /\ At(p, "persist")
    /\ PatchSalesPath(pub[p].h, "listed_single")
    /\ Becomes(p, Idle)
    /\ UNCHANGED <<ebayVars, row, disp>>

\* An await throws, or the process goes away: the request leaves what it did.
Abort(p) ==
    /\ ~At(p, "idle")
    /\ Becomes(p, Idle)
    /\ UNCHANGED baseVars

\* The seller, or eBay, ends a listing while requests run.
SellerEnds(h) ==
    /\ EbayEndsListing(h)
    /\ pub' = [p \in Publishers |->
                 [pub[p] EXCEPT !.unhindered = IF pub[p].h = h THEN FALSE ELSE @]]

PublishStep(p) ==
    \/ \E h \in Holdings : Load(p, h)
    \/ ReadListing(p) \/ Hydrate(p) \/ StoreHigh(p) \/ Connect(p)
    \/ Prepare(p) \/ OfferCall(p) \/ Lookup(p) \/ Adopt(p) \/ PublishCall(p) \/ Check(p)
    \/ Store(p) \/ Persist(p) \/ Abort(p)

Next ==
    \/ \E p \in Publishers : PublishStep(p)
    \/ \E h \in Holdings : SellerEnds(h)

Spec == Init /\ [][Next]_vars

-----------------------------------------------------------------------------
(* Properties                                                              *)

\* An external id in a row, or in a result on its way to one, is one eBay
\* really gave out, and a row that claims to be listed carries both ids:
\* whatever answers were lost and whichever attempt's offer was adopted.
IdsAreReal ==
    \A h \in Holdings :
        \A r \in {row[h]} \cup {pub[p].snap : p \in {q \in Publishers : pub[q].h = h}} :
            /\ r.offerId => OfferExists(h)
            /\ r.listingId <= issued[h]
            /\ r.status \in ListedStatuses => r.offerId /\ r.listingId # 0

\* A publish converges.  A request that eBay, the operator's rules and the
\* seller let through ends PUBLISHED, whatever crashed or half-finished
\* attempts left on eBay, and whatever answers its own calls lost.
UnhinderedPublishes ==
    \A p \in Publishers :
        At(p, "store") /\ pub[p].unhindered => pub[p].snap.status = "PUBLISHED"

\* "Reuses existing offer/listing IDs so a retry cannot create a duplicate":
\* once the row has a listing id, eBay is not asked for another listing, but by
\* a request that read the row before another one wrote it.
NoSecondListing ==
    [][\A h \in Holdings :
          issued'[h] # issued[h] =>
              \/ row[h].listingId = 0
              \/ \E p \in Publishers :
                    /\ pub[p].h = h /\ At(p, "publish") /\ pub'[p] # pub[p]
                    /\ pub[p].stale]_vars
=============================================================================
