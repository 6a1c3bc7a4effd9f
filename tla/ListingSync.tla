----------------------------- MODULE ListingSync -----------------------------
(***************************************************************************)
(* Listing sync: service.ts syncListingStates.  A syncer is one running     *)
(* call.  It reads every row once, then asks eBay for one offer after the   *)
(* other and writes each row back as it was read, with what eBay said laid  *)
(* over it.                                                                 *)
(***************************************************************************)
EXTENDS EbayBase

CONSTANTS
    Syncers,          \* concurrent listing-sync calls
    Crashes           \* whether a call may die between two statements

ASSUME CrashesIsBoolean == Crashes \in BOOLEAN

VARIABLE syn          \* the calls in progress

syncVars == <<baseVars, syn>>

Call == [pc: {"idle", "ask", "write"}, seen: [Holdings -> Row], todo: SUBSET Holdings,
         h: Holdings \cup {None}, next: Row]

Idle == [pc |-> "idle", seen |-> [h \in Holdings |-> NoRow], todo |-> {},
         h |-> None, next |-> NoRow]

SyncTypeOK ==
    /\ BaseTypeOK
    /\ syn \in [Syncers -> Call]
    /\ \A s \in Syncers : syn[s].pc = "write" => syn[s].h \in Holdings

\* Every copy was listed; some publish did not get to know its listing id.
SyncInit ==
    /\ MaxListings > 0
    /\ offer = [h \in Holdings |-> "published"]
    /\ issued = [h \in Holdings |-> 1]
    /\ paid = {}
    /\ row \in [Holdings ->
          {[status |-> "PUBLISHED", offerId |-> TRUE, listingId |-> 1],
           [status |-> "EBAY_OFFER_CREATED", offerId |-> TRUE, listingId |-> 0]}]
    /\ path = [h \in Holdings |-> "listed_single"]
    /\ disp = [h \in Holdings |-> "SINGLE"]
    /\ syn = [s \in Syncers |-> Idle]

-----------------------------------------------------------------------------

Becomes(s, next) == syn' = [syn EXCEPT ![s] = next]

At(s, pc) == syn[s].pc = pc

\* listListings, and the rows the loop does not skip.
List(s) ==
    LET todo == {h \in Holdings : row[h].offerId /\ row[h].status # "SOLD"}
    IN  /\ At(s, "idle") /\ todo # {}
        /\ Becomes(s, [Idle EXCEPT !.pc = "ask", !.seen = row, !.todo = todo])
        /\ UNCHANGED baseVars

\* Mutant: a listing container without status ACTIVE counts as ended.
StatusesFromOfferNeedingContainer(h, current) ==
    IF Live(h) THEN {"ACTIVE", "ENDED"}
    ELSE IF offer[h] = "ended" \/ current \in ListedStatuses THEN {"ENDED"}
    ELSE {current}

\* Mutant: an unpublished offer leaves the row alone.
StatusesFromOfferKeepingUnpublished(h, current) ==
    IF Live(h) THEN {"ACTIVE", "PUBLISHED"}
    ELSE IF offer[h] = "ended" THEN {"ENDED"}
    ELSE {current}

\* Mutant: eBay's own offer status is stored.
StatusesFromOfferAsGiven(h, current) ==
    IF Live(h) THEN {"PUBLISHED"} ELSE {"UNPUBLISHED"}

\* listingStatusFromOffer: what the row's status may become, by the answer.  A
\* live offer may come with or without its listing container.
StatusesFromOffer(h, current) ==
    IF Live(h) THEN {"ACTIVE", "PUBLISHED"}
    ELSE IF offer[h] = "ended" \/ current \in ListedStatuses THEN {"ENDED"}
    ELSE {current}

Writes(s, h, next) ==
    Becomes(s, [syn[s] EXCEPT !.pc = "write", !.h = h, !.todo = @ \ {h}, !.next = next])

\* GET /offer/{id} answered.
AskAnswered(s, h) ==
    LET seen == syn[s].seen[h]
        shown == ListingIdFromOffer(h)
    IN  /\ At(s, "ask") /\ h \in syn[s].todo
        /\ \E status \in StatusesFromOffer(h, seen.status) :
              Writes(s, h, [seen EXCEPT !.status = status,
                                        !.listingId = IF shown # 0 THEN shown ELSE @])
        /\ UNCHANGED baseVars

\* GET /offer/{id} failed, after the client's retries.
AskFailed(s, h) ==
    /\ At(s, "ask") /\ h \in syn[s].todo
    /\ Writes(s, h, syn[s].seen[h])
    /\ UNCHANGED baseVars

\* The row is not any more what the call read: another call wrote it meanwhile.
Overtaken(s) == syn[s].seen[syn[s].h] # row[syn[s].h]

WriteBack(s) ==
    /\ At(s, "write")
    /\ UpsertListing(syn[s].h, syn[s].next)
    /\ Becomes(s, IF syn[s].todo = {} THEN Idle
                  ELSE [syn[s] EXCEPT !.pc = "ask", !.h = None, !.next = NoRow])
    /\ UNCHANGED <<ebayVars, path, disp>>

Crash(s) ==
    /\ Crashes /\ ~At(s, "idle")
    /\ Becomes(s, Idle)
    /\ UNCHANGED baseVars

\* What happens on eBay meanwhile: the seller ends or relists, a buyer buys.
SellerEnds(h) == EbayEndsListing(h) /\ UNCHANGED syn

SellerRelists(h) == EbayPublishesOffer(h) /\ UNCHANGED <<dbVars, syn>>

Checkout(o, S) == BuyerChecksOut(o, S) /\ UNCHANGED syn

SyncNext ==
    \/ \E s \in Syncers :
          \/ List(s) \/ WriteBack(s) \/ Crash(s)
          \/ \E h \in Holdings : AskAnswered(s, h) \/ AskFailed(s, h)
    \/ \E h \in Holdings : SellerEnds(h) \/ SellerRelists(h)
    \/ \E o \in Orders, S \in SUBSET Holdings : Checkout(o, S)

SyncSpec == SyncInit /\ [][SyncNext]_syncVars

\* The job is scheduled again and again, writes go through, eBay answers for
\* every offer again and again, if not every time, and calls that die do not
\* go on dying for ever.  A call that ends with writing what the row says already
\* is no death, though the step looks the same.
SyncFairSpec ==
    /\ SyncSpec
    /\ \A s \in Syncers : WF_syncVars(List(s)) /\ WF_syncVars(WriteBack(s))
    /\ \A s \in Syncers, h \in Holdings : SF_syncVars(AskAnswered(s, h))
    /\ <>[][\A s \in Syncers : Crash(s) => WriteBack(s)]_syncVars
    /\ <>[][\A s \in Syncers : WriteBack(s) => ~Overtaken(s)]_syncVars

-----------------------------------------------------------------------------
(* Properties                                                              *)

\* However the job's call and the route's interleave, an ended row comes back as
\* listed only with the id of a newer listing.  No answer, late or failed,
\* revives a dead one; what can is a call that was overtaken.
OnlyNewListingsRevive ==
    [][\A h \in Holdings :
          row[h].status = "ENDED" /\ row'[h].status \in ListedStatuses =>
              \/ row'[h].listingId > row[h].listingId
              \/ \E s \in Syncers : WriteBack(s) /\ syn[s].h = h /\ Overtaken(s)]_syncVars

\* Once eBay stops changing its mind about a listing, the row says for good what
\* eBay says, and names the newest listing.
RowSettles ==
    \A h \in Holdings :
        /\ <>[]Live(h) => <>[](row[h].status \in ListedStatuses
                                  /\ row[h].listingId = issued[h])
        /\ <>[]~Live(h) => <>[](row[h].status \notin ListedStatuses)
=============================================================================
