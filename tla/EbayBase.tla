------------------------------ MODULE EbayBase ------------------------------
(***************************************************************************)
(* The state every part of the eBay selling engine shares: what eBay holds  *)
(* for the seller (its Inventory API and its orders, external to this       *)
(* repository) and the Postgres rows the engine keeps about it.             *)
(*                                                                         *)
(* Every holding is one physical copy (quantity 1) with one durable SKU, so *)
(* a SKU is written as its holding.  The idempotency key "<id>:ebay:single" *)
(* is unique, so a holding has at most one marketplace_listing row, which   *)
(* is therefore indexed by the holding.  eBay refuses a second offer for a  *)
(* SKU, so an offer id is a Boolean: known or not.  The listing ids eBay    *)
(* issues for a SKU are numbered 1, 2, ..., and 0 is the null id.           *)
(***************************************************************************)
EXTENDS Integers, FiniteSets

CONSTANTS
    Holdings,         \* physical copies
    Orders,           \* eBay order ids
    None,             \* "no holding", "no order line"
    MaxListings,      \* bound: listings eBay issues for one SKU
    MaxLines          \* bound: line items in one eBay order

ASSUME NoneIsNoHolding == None \notin Holdings
ASSUME NoneIsNoLine == None \notin Orders \X Holdings
ASSUME BoundsAreNat == MaxListings \in Nat /\ MaxLines \in Nat

VARIABLES
    offer,            \* eBay: the SKU's offer, and what became of its listing
    issued,           \* eBay: how many listings it has issued for the SKU
    paid,             \* eBay: order lines of completed checkouts
    row,              \* marketplace_listing
    path,             \* holding.sales_path_state
    disp              \* holding.current_disposition

ebayVars == <<offer, issued, paid>>
dbVars == <<row, path, disp>>
baseVars == <<offer, issued, paid, row, path, disp>>

-----------------------------------------------------------------------------
(* Types                                                                   *)

OfferStates == {"none", "unpublished", "published", "ended"}

ActiveStatuses ==
    {"APPROVED", "EBAY_ITEM_CREATED", "EBAY_OFFER_CREATED", "PUBLISHED", "ACTIVE"}

\* "NONE" is the status of a row that was never inserted.  Nothing in src/
\* writes the schema's DRAFT.
Statuses == ActiveStatuses \cup {"NONE", "READY_FOR_REVIEW", "ENDED", "SOLD", "ERROR"}

ListedStatuses == {"PUBLISHED", "ACTIVE"}

Row == [status: Statuses, offerId: BOOLEAN, listingId: 0..MaxListings]

NoRow == [status |-> "NONE", offerId |-> FALSE, listingId |-> 0]

\* 'reserved' and 'listed_lot' are in the schema; no code path writes them.
SalesPaths == {"available", "listed_single", "sold"}

\* The dispositions that let a publish through and those that block it.
Dispositions == {"SINGLE", "HOLD"}

Lines == Orders \X Holdings

BaseTypeOK ==
    /\ offer \in [Holdings -> OfferStates]
    /\ issued \in [Holdings -> 0..MaxListings]
    /\ paid \subseteq Lines
    /\ row \in [Holdings -> Row]
    /\ path \in [Holdings -> SalesPaths]
    /\ disp \in [Holdings -> Dispositions]

-----------------------------------------------------------------------------
(* eBay, as far as the engine can tell from its answers.                   *)

OfferExists(h) == offer[h] # "none"

Live(h) == offer[h] = "published"

\* The listing id GET /offer and GET /offer?sku= carry: a listing that ended
\* may still be shown with its offer.
ListingIdFromOffer(h) == IF offer[h] \in {"published", "ended"} THEN issued[h] ELSE 0

EbayCreatesOffer(h) ==
    /\ offer[h] = "none"
    /\ offer' = [offer EXCEPT ![h] = "unpublished"]
    /\ UNCHANGED <<issued, paid>>

EbayPublishesOffer(h) ==
    /\ offer[h] \in {"unpublished", "ended"}
    /\ issued[h] < MaxListings
    /\ offer' = [offer EXCEPT ![h] = "published"]
    /\ issued' = [issued EXCEPT ![h] = @ + 1]
    /\ UNCHANGED paid

\* The seller, or eBay, ends a live listing outside the engine.
EbayEndsListing(h) ==
    /\ Live(h)
    /\ \E gone \in {"ended", "unpublished"} : offer' = [offer EXCEPT ![h] = gone]
    /\ UNCHANGED <<issued, paid, dbVars>>

\* A buyer checks out the live listings of the copies S as one order; a
\* quantity of one each, so every one of those listings is over.
BuyerChecksOut(o, S) ==
    /\ S # {} /\ Cardinality(S) <= MaxLines
    /\ \A h \in S : Live(h)
    /\ \A h \in Holdings : <<o, h>> \notin paid
    /\ paid' = paid \cup ({o} \X S)
    /\ \E gone \in {"ended", "unpublished"} :
           offer' = [h \in Holdings |-> IF h \in S THEN gone ELSE offer[h]]
    /\ UNCHANGED <<issued, dbVars>>

-----------------------------------------------------------------------------
(* Postgres statements of the store.                                       *)

\* INSERT ... ON CONFLICT (id) DO UPDATE, for a row that exists.
UpsertListing(h, next) == row' = [row EXCEPT ![h] = next]

PatchSalesPath(h, state) == path' = [path EXCEPT ![h] = state]
=============================================================================
