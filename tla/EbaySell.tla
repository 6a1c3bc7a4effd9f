------------------------------- MODULE EbaySell -------------------------------
(***************************************************************************)
(* The eBay selling engine as one system: drafts and lots, publishes, order *)
(* ingest and listing sync run side by side, in the API server and in the   *)
(* job processes, over the same rows and the same eBay account, while the   *)
(* operator sets dispositions, the seller ends listings and buyers buy.     *)
(***************************************************************************)
EXTENDS EbayBase

CONSTANTS
    Publishers, MaxRetries,
    Ingesters, Crashes,
    Drafters, Lots, LotRequests, MinMembers,
    Syncers,
    Recommended       \* the dispositions the rules or the operator choose

ASSUME RetriesAreNat == MaxRetries \in Nat
ASSUME CrashesIsBoolean == Crashes \in BOOLEAN
ASSUME LotsAreLots == None \notin Lots /\ MinMembers \in Nat \ {0}
ASSUME RecommendedAreDispositions == Recommended \subseteq Dispositions

VARIABLES
    pub,
    dbOrders, dbLines, observed, ing,
    lot, member, dra, req,
    syn

publishVars == <<pub>>
ingestVars == <<dbOrders, dbLines, observed, ing>>
draftVars == <<lot, member, dra, req>>
syncVars == <<syn>>
vars == <<baseVars, publishVars, ingestVars, draftVars, syncVars>>

Publish == INSTANCE EbayPublish
Ingest == INSTANCE OrderIngest
Drafts == INSTANCE ListingDraft
Sync == INSTANCE ListingSync

\* Nothing is listed or sold yet; a copy may have its draft already.
Init ==
    /\ offer = [h \in Holdings |-> "none"]
    /\ issued = [h \in Holdings |-> 0]
    /\ paid = {}
    /\ row \in [Holdings -> {NoRow, [NoRow EXCEPT !.status = "READY_FOR_REVIEW"]}]
    /\ path = [h \in Holdings |-> "available"]
    /\ disp = [h \in Holdings |-> "SINGLE"]
    /\ pub = [p \in Publishers |-> Publish!Idle]
    /\ dbOrders = {} /\ dbLines = {}
    /\ observed = [l \in Lines |-> 0]
    /\ ing = [i \in Ingesters |-> Ingest!Idle]
    /\ Drafts!DraftInit
    /\ syn = [s \in Syncers |-> Sync!Idle]

\* recommendFor: the rules', or the operator's, disposition is stored.
Recommend(h, new) ==
    /\ disp' = [disp EXCEPT ![h] = new]
    /\ UNCHANGED <<ebayVars, row, path, publishVars, ingestVars, draftVars, syncVars>>

PublishSteps ==
    /\ \E p \in Publishers : Publish!PublishStep(p)
    /\ UNCHANGED <<ingestVars, draftVars, syncVars>>

IngestSteps ==
    /\ \E i \in Ingesters : Ingest!Fetch(i) \/ Ingest!Proceed(i) \/ Ingest!Crash(i)
    /\ UNCHANGED <<publishVars, draftVars, syncVars>>

DraftSteps ==
    /\ \/ \E d \in Drafters : Drafts!DraftStep(d)
       \/ \E r \in LotRequests : Drafts!LotStep(r)
    /\ UNCHANGED <<publishVars, ingestVars, syncVars>>

SyncSteps ==
    /\ \E s \in Syncers :
          \/ Sync!List(s) \/ Sync!WriteBack(s) \/ Sync!Crash(s)
          \/ \E h \in Holdings : Sync!AskAnswered(s, h) \/ Sync!AskFailed(s, h)
    /\ UNCHANGED <<publishVars, ingestVars, draftVars>>

SellerEnds(h) ==
    Publish!SellerEnds(h) /\ UNCHANGED <<ingestVars, draftVars, syncVars>>

Checkout(o, S) ==
    BuyerChecksOut(o, S) /\ UNCHANGED <<publishVars, ingestVars, draftVars, syncVars>>

Next ==
    \/ PublishSteps \/ IngestSteps \/ DraftSteps \/ SyncSteps
    \/ \E h \in Holdings : SellerEnds(h)
    \/ \E h \in Holdings, new \in Recommended : Recommend(h, new)
    \/ \E o \in Orders, S \in SUBSET Holdings : Checkout(o, S)

Spec == Init /\ [][Next]_vars

-----------------------------------------------------------------------------
(* Properties                                                              *)

TypeOK ==
    /\ Publish!TypeOK /\ Ingest!TypeOK /\ Drafts!TypeOK /\ Sync!SyncTypeOK

\* Whoever writes a row last, over whatever it read before: a row that claims
\* to be listed names a listing eBay issued.
ListedRowsAreReal ==
    \A h \in Holdings :
        /\ row[h].offerId => OfferExists(h)
        /\ row[h].listingId <= issued[h]
        /\ row[h].status \in ListedStatuses => row[h].offerId /\ row[h].listingId # 0

\* A path that claims a single listing stands on a listing eBay issued.
ListedPathWasIssued ==
    \A h \in Holdings : path[h] = "listed_single" => issued[h] # 0

\* The books follow the money with every component running.
SalesArePaid == Ingest!SoldIsPaid /\ Ingest!OneObservationPerLine
=============================================================================
