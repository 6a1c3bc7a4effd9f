---------------------------- MODULE EbaySell_proofs ----------------------------
(***************************************************************************)
(* What the selling engine guarantees with every component running, for any *)
(* number of copies, orders, lots and requests: types, rows that name what  *)
(* eBay gave out, paths that stand on an issued listing, and books that     *)
(* follow the money.                                                       *)
(*                                                                         *)
(* Each component brings its own invariant, in the form it keeps in the     *)
(* company of the others.  What has to be added is that every copy of a row *)
(* that some component has in hand, and will write back over whatever the   *)
(* others wrote meanwhile, is itself real; and that nobody but an ingest    *)
(* marks a row sold.  Then a step of one component keeps what it needs by   *)
(* the lemmas of its module, and what the others need because it shows them *)
(* only a grown eBay, real rows and no new sale.                           *)
(***************************************************************************)
EXTENDS EbaySell, TLAPS

P == INSTANCE EbayPublish_proofs
I == INSTANCE OrderIngest_proofs
L == INSTANCE ListingRows_proofs

-----------------------------------------------------------------------------
(* The invariant                                                           *)

\* The ids of a row of h, stored or in hand, are ids eBay gave out.
Real(h, r) ==
    /\ r.offerId => OfferExists(h)
    /\ r.listingId <= issued[h]
    /\ r.status \in ListedStatuses => r.offerId /\ r.listingId # 0

RowsAreReal == \A h \in Holdings : Real(h, row[h])

ListedWasIssued ==
    \A h \in Holdings : offer[h] \in {"published", "ended"} => issued[h] # 0

\* The row an ingest found and will write back as sold.
IngestsAreReal ==
    \A i \in Ingesters :
        ing[i].pc \in {"order", "line", "sold"} => Real(ing[i].line[2], ing[i].snap)

\* The row a draft found and will write back as ready.
DraftsAreReal ==
    \A d \in Drafters : dra[d].pc \notin {"idle", "find"} => Real(dra[d].h, dra[d].snap)

\* The rows a sync has yet to ask about, which have an offer and are not sold,
\* and the one it is about to write.
SyncsAreReal ==
    \A s \in Syncers :
        /\ syn[s].pc # "idle" =>
              \A h \in syn[s].todo :
                  /\ Real(h, syn[s].seen[h])
                  /\ syn[s].seen[h].offerId /\ syn[s].seen[h].status # "SOLD"
        /\ syn[s].pc = "write" =>
              Real(syn[s].h, syn[s].next) /\ syn[s].next.status # "SOLD"

IInv ==
    /\ P!IInv(FALSE)
    /\ I!Books
    /\ L!DraftsTyped
    /\ L!SyncTypeOK
    /\ IngestsAreReal /\ DraftsAreReal /\ SyncsAreReal
    /\ ListedPathWasIssued

-----------------------------------------------------------------------------
(* The components' modules speak of the same state: what each calls a row,  *)
(* a real row or a step is what EbaySell calls so.                          *)

LEMMA SameTypes ==
    /\ BaseTypeOK <=> P!BaseTypeOK
    /\ BaseTypeOK <=> I!BaseTypeOK
    /\ BaseTypeOK <=> L!BaseTypeOK
<1>1. BaseTypeOK <=> P!BaseTypeOK
    BY DEF BaseTypeOK, OfferStates, Lines, Row, Statuses, ActiveStatuses, SalesPaths, Dispositions,
           P!BaseTypeOK, P!OfferStates, P!Lines, P!Row, P!Statuses, P!ActiveStatuses,
           P!SalesPaths, P!Dispositions
<1>2. BaseTypeOK <=> I!BaseTypeOK
    BY DEF BaseTypeOK, OfferStates, Lines, Row, Statuses, ActiveStatuses, SalesPaths, Dispositions,
           I!BaseTypeOK, I!OfferStates, I!Lines, I!Row, I!Statuses, I!ActiveStatuses,
           I!SalesPaths, I!Dispositions
<1>3. BaseTypeOK <=> L!BaseTypeOK
    BY DEF BaseTypeOK, OfferStates, Lines, Row, Statuses, ActiveStatuses, SalesPaths, Dispositions,
           L!BaseTypeOK, L!OfferStates, L!Lines, L!Row, L!Statuses, L!ActiveStatuses,
           L!SalesPaths, L!Dispositions
<1> QED
    BY <1>1, <1>2, <1>3

LEMMA SameTypesNext ==
    /\ BaseTypeOK' <=> P!BaseTypeOK'
    /\ BaseTypeOK' <=> I!BaseTypeOK'
    /\ BaseTypeOK' <=> L!BaseTypeOK'
BY SameTypes, PTL

LEMMA SameRows ==
    /\ Row = P!Row /\ Row = I!Row /\ Row = L!Row
    /\ Lines = I!Lines
    /\ ListedStatuses = P!ListedStatuses /\ ListedStatuses = L!ListedStatuses
BY DEF Row, Statuses, ActiveStatuses, Lines, ListedStatuses,
       P!Row, P!Statuses, P!ActiveStatuses, P!ListedStatuses,
       I!Row, I!Statuses, I!ActiveStatuses, I!Lines,
       L!Row, L!Statuses, L!ActiveStatuses, L!ListedStatuses

LEMMA SameReal ==
    /\ P!RowsAreReal <=> RowsAreReal
    /\ P!ListedWasIssued <=> ListedWasIssued
    /\ \A h, r : P!Real(h, r) <=> Real(h, r)
BY DEF RowsAreReal, ListedWasIssued, Real, OfferExists, ListedStatuses,
       P!RowsAreReal, P!ListedWasIssued, P!Real, P!OfferExists, P!ListedStatuses

LEMMA SameRealNext ==
    /\ P!RowsAreReal' <=> RowsAreReal'
    /\ P!ListedWasIssued' <=> ListedWasIssued'
BY DEF RowsAreReal, ListedWasIssued, Real, OfferExists, ListedStatuses,
       P!RowsAreReal, P!ListedWasIssued, P!Real, P!OfferExists, P!ListedStatuses

LEMMA SamePublish ==
    ASSUME NEW p \in Publishers, Publish!PublishStep(p)
    PROVE  P!PublishStep(p)
BY DEF Publish!PublishStep, Publish!Load, Publish!ReadListing, Publish!Hydrate, Publish!StoreHigh,
       Publish!Connect, Publish!Prepare, Publish!OfferCall, Publish!Lookup, Publish!Adopt,
       Publish!PublishCall, Publish!Check, Publish!Store, Publish!Persist, Publish!Abort,
       Publish!Becomes, Publish!At, Publish!Goes, Publish!GoesHindered, Publish!WritesAndBecomes,
       Publish!Returns, Publish!RetriesThen, Publish!OfferKnown, Publish!PutOrPostOffer,
       Publish!Idle, Publish!NoRow, Publish!UpsertListing, Publish!PatchSalesPath,
       Publish!OfferExists, Publish!Live, Publish!ListingIdFromOffer, Publish!EbayCreatesOffer,
       Publish!EbayPublishesOffer, Publish!ListedStatuses, Publish!ebayVars, Publish!dbVars,
       Publish!baseVars,
       P!PublishStep, P!Load, P!ReadListing, P!Hydrate, P!StoreHigh,
       P!Connect, P!Prepare, P!OfferCall, P!Lookup, P!Adopt,
       P!PublishCall, P!Check, P!Store, P!Persist, P!Abort,
       P!Becomes, P!At, P!Goes, P!GoesHindered, P!WritesAndBecomes,
       P!Returns, P!RetriesThen, P!OfferKnown, P!PutOrPostOffer,
       P!Idle, P!NoRow, P!UpsertListing, P!PatchSalesPath,
       P!OfferExists, P!Live, P!ListingIdFromOffer, P!EbayCreatesOffer,
       P!EbayPublishesOffer, P!ListedStatuses, P!ebayVars, P!dbVars, P!baseVars

LEMMA SameIngest ==
    ASSUME NEW i \in Ingesters, Ingest!Fetch(i) \/ Ingest!Proceed(i) \/ Ingest!Crash(i)
    PROVE  I!Fetch(i) \/ I!Proceed(i) \/ I!Crash(i)
BY DEF Ingest!Fetch, Ingest!Proceed, Ingest!Crash, Ingest!TakeLine, Ingest!FindListing,
       Ingest!InsertOrder, Ingest!InsertLine, Ingest!MarkSold, Ingest!InsertObservation,
       Ingest!PatchPath, Ingest!Hold, Ingest!Copy, Ingest!OrderOf, Ingest!Becomes, Ingest!At,
       Ingest!Goes, Ingest!Continues, Ingest!Idle, Ingest!NoRow, Ingest!UpsertListing,
       Ingest!PatchSalesPath, Ingest!Lines, Ingest!ebayVars, Ingest!baseVars, Ingest!ledgerVars,
       I!Fetch, I!Proceed, I!Crash, I!TakeLine, I!FindListing,
       I!InsertOrder, I!InsertLine, I!MarkSold, I!InsertObservation,
       I!PatchPath, I!Hold, I!Copy, I!OrderOf, I!Becomes, I!At,
       I!Goes, I!Continues, I!Idle, I!NoRow, I!UpsertListing,
       I!PatchSalesPath, I!Lines, I!ebayVars, I!baseVars, I!ledgerVars

LEMMA SameDraft ==
    ASSUME NEW d \in Drafters, Drafts!DraftStep(d)
    PROVE  L!DraftStep(d)
BY DEF Drafts!DraftStep, Drafts!DraftLoad, Drafts!DraftFind, Drafts!DraftCheckRow,
       Drafts!DraftCheckLots, Drafts!DraftRefused, Drafts!DraftStore, Drafts!DraftDies, Drafts!DraftBecomes,
       Drafts!DraftAt, Drafts!DraftGoes, Drafts!NoDraft, Drafts!NoRow, Drafts!ActiveStatuses,
       Drafts!ActiveLotStates, Drafts!UpsertListing, Drafts!lotVars, Drafts!ebayVars,
       Drafts!baseVars,
       L!DraftStep, L!DraftLoad, L!DraftFind, L!DraftCheckRow,
       L!DraftCheckLots, L!DraftRefused, L!DraftStore, L!DraftDies, L!DraftBecomes,
       L!DraftAt, L!DraftGoes, L!NoDraft, L!NoRow, L!ActiveStatuses,
       L!ActiveLotStates, L!UpsertListing, L!lotVars, L!ebayVars, L!baseVars

LEMMA SameLot ==
    ASSUME NEW r \in LotRequests, Drafts!LotStep(r)
    PROVE  L!LotStep(r)
<1>1. \A S \in SUBSET Holdings : Drafts!Propose(r, S) => L!Propose(r, S)
    BY DEF Drafts!Propose, Drafts!RequestBecomes, Drafts!RequestAt, Drafts!NoRequest,
           Drafts!lotVars, Drafts!baseVars, Drafts!Cardinality, L!Cardinality,
           L!Propose, L!RequestBecomes, L!RequestAt, L!NoRequest, L!lotVars, L!baseVars
<1>2. \A l \in Lots : /\ Drafts!AcceptLot(r, l) => L!AcceptLot(r, l)
                      /\ Drafts!FindLot(r, l) => L!FindLot(r, l)
    BY DEF Drafts!AcceptLot, Drafts!FindLot, Drafts!Accepting, Drafts!RequestBecomes,
           Drafts!RequestAt, Drafts!NoLot, Drafts!lotVars, Drafts!baseVars,
           L!AcceptLot, L!FindLot, L!Accepting, L!RequestBecomes, L!RequestAt, L!NoLot,
           L!lotVars, L!baseVars
<1>3. Drafts!RejectLot(r) => L!RejectLot(r)
    BY DEF Drafts!RejectLot, Drafts!RequestBecomes, Drafts!RequestAt, Drafts!NoRequest,
           Drafts!baseVars,
           L!RejectLot, L!RequestBecomes, L!RequestAt, L!NoRequest, L!baseVars
<1>4. \A h \in Holdings : Drafts!WriteMember(r, h) => L!WriteMember(r, h)
    BY DEF Drafts!WriteMember, Drafts!HeldByAnotherLot, Drafts!ActiveLotStates,
           Drafts!RequestBecomes, Drafts!RequestAt, Drafts!NoRequest, Drafts!lotVars,
           Drafts!baseVars,
           L!WriteMember, L!HeldByAnotherLot, L!ActiveLotStates,
           L!RequestBecomes, L!RequestAt, L!NoRequest, L!lotVars, L!baseVars
<1>5. Drafts!LotDies(r) => L!LotDies(r)
    BY DEF Drafts!LotDies, Drafts!RequestBecomes, Drafts!RequestAt, Drafts!NoRequest,
           Drafts!lotVars, Drafts!baseVars,
           L!LotDies, L!RequestBecomes, L!RequestAt, L!NoRequest, L!lotVars, L!baseVars
<1> QED
    BY <1>1, <1>2, <1>3, <1>4, <1>5 DEF Drafts!LotStep, L!LotStep

LEMMA SameSync ==
    ASSUME NEW s \in Syncers,
           \/ Sync!List(s) \/ Sync!WriteBack(s) \/ Sync!Crash(s)
           \/ \E h \in Holdings : Sync!AskAnswered(s, h) \/ Sync!AskFailed(s, h)
    PROVE  L!SyncStep(s)
BY DEF Sync!List, Sync!WriteBack, Sync!Crash, Sync!AskAnswered, Sync!AskFailed, Sync!Becomes,
       Sync!At, Sync!Writes, Sync!StatusesFromOffer, Sync!ListingIdFromOffer, Sync!Live,
       Sync!Idle, Sync!NoRow, Sync!ListedStatuses, Sync!UpsertListing, Sync!ebayVars,
       Sync!baseVars,
       L!SyncStep, L!List, L!WriteBack, L!Crash, L!AskAnswered, L!AskFailed, L!Becomes,
       L!At, L!Writes, L!StatusesFromOffer, L!ListingIdFromOffer, L!Live,
       L!Idle, L!NoRow, L!ListedStatuses, L!UpsertListing, L!ebayVars, L!baseVars

-----------------------------------------------------------------------------
(* What a step of one component leaves to the others                       *)

\* What the others see of a step: a grown eBay, well-typed real rows, and
\* nothing sold but by an ingest.
GrowsOnly ==
    /\ BaseTypeOK' /\ RowsAreReal' /\ ListedWasIssued'
    /\ \A h \in Holdings : (OfferExists(h) => OfferExists(h)') /\ issued[h] <= issued'[h]
    /\ paid \subseteq paid'

NothingSold ==
    \A h \in Holdings :
        /\ row'[h].status = "SOLD" => row[h].status = "SOLD"
        /\ path'[h] = "sold" => path[h] = "sold"

LEMMA Parts ==
    ASSUME IInv
    PROVE  /\ BaseTypeOK /\ RowsAreReal /\ ListedWasIssued
           /\ pub \in [Publishers -> P!Request]
           /\ issued \in [Holdings -> Nat]
           /\ ing \in [Ingesters -> I!Call] /\ dra \in [Drafters -> L!Draft]
           /\ syn \in [Syncers -> L!Call]
           /\ \A i \in Ingesters : ing[i].pc \notin {"idle", "next"} => ing[i].line \in Lines
           /\ \A d \in Drafters : dra[d].pc # "idle" => dra[d].h \in Holdings
           /\ \A s \in Syncers : syn[s].pc = "write" => syn[s].h \in Holdings
<1>1. BaseTypeOK /\ RowsAreReal /\ ListedWasIssued /\ pub \in [Publishers -> P!Request]
    BY SameTypes, SameReal DEF IInv, P!IInv, P!TypeOK
<1>2. issued \in [Holdings -> Nat]
    BY <1>1, BoundsAreNat DEF BaseTypeOK
<1>3. /\ ing \in [Ingesters -> I!Call]
      /\ \A i \in Ingesters : ing[i].pc \notin {"idle", "next"} => ing[i].line \in Lines
    BY SameRows DEF IInv, I!Books, I!TypeOK
<1>4. /\ dra \in [Drafters -> L!Draft] /\ syn \in [Syncers -> L!Call]
      /\ \A d \in Drafters : dra[d].pc # "idle" => dra[d].h \in Holdings
      /\ \A s \in Syncers : syn[s].pc = "write" => syn[s].h \in Holdings
    BY DEF IInv, L!DraftsTyped, L!DraftsHaveCopies, L!TypeOK, L!DraftTypeOK, L!SyncTypeOK
<1> QED
    BY <1>1, <1>2, <1>3, <1>4

\* A row that is real stays real as eBay grows.
LEMMA RealStays ==
    ASSUME IInv, GrowsOnly, NEW h \in Holdings, NEW r \in Row, Real(h, r)
    PROVE  Real(h, r)'
<1>1. issued[h] \in Nat /\ issued'[h] \in Nat /\ r.listingId \in Nat
    BY Parts, BoundsAreNat DEF GrowsOnly, BaseTypeOK, Row
<1> QED
    BY <1>1 DEF GrowsOnly, Real

LEMMA PublishesStand ==
    ASSUME IInv, GrowsOnly, UNCHANGED pub
    PROVE  P!IInv(FALSE)'
<1>1. P!BaseTypeOK' /\ P!ListedWasIssued' /\ P!RowsAreReal' /\ P!Grows
    BY SameTypesNext, SameRealNext DEF GrowsOnly, P!Grows, P!OfferExists, OfferExists
<1> QED
    BY <1>1, P!OthersKeep, NoneIsNoHolding, NoneIsNoLine, BoundsAreNat, RetriesAreNat DEF IInv

LEMMA BooksStand ==
    ASSUME IInv, GrowsOnly, NothingSold, UNCHANGED ingestVars
    PROVE  I!Books'
<1>1. UNCHANGED <<I!ledgerVars, ing>> /\ I!BaseTypeOK'
    BY SameTypesNext DEF GrowsOnly, ingestVars, I!ledgerVars
<1>2. I!SoldIsPaid'
    BY DEF IInv, I!Books, I!SoldIsPaid, GrowsOnly, NothingSold, ingestVars
<1> QED
    BY <1>1, <1>2, I!OthersKeepBooks, NoneIsNoHolding, NoneIsNoLine, BoundsAreNat, CrashesIsBoolean
    DEF IInv, GrowsOnly

LEMMA IngestsStand ==
    ASSUME IInv, GrowsOnly, UNCHANGED ing
    PROVE  IngestsAreReal'
<1>1. \A i \in Ingesters :
         /\ ing[i].snap \in Row
         /\ ing[i].pc \in {"order", "line", "sold"} => ing[i].line[2] \in Holdings
    BY Parts, SameRows DEF I!Call, Lines
<1> QED
    BY <1>1, RealStays DEF IInv, IngestsAreReal

LEMMA DraftsStand ==
    ASSUME IInv, GrowsOnly, UNCHANGED draftVars
    PROVE  L!DraftsTyped' /\ DraftsAreReal'
<1>1. \A d \in Drafters :
         dra[d].snap \in Row /\ (dra[d].pc # "idle" => dra[d].h \in Holdings)
    BY Parts, SameRows DEF L!Draft
<1>2. DraftsAreReal'
    BY <1>1, RealStays DEF IInv, DraftsAreReal, draftVars
<1>3. L!DraftsTyped'
    BY SameTypesNext DEF IInv, GrowsOnly, draftVars, L!DraftsTyped, L!DraftsHaveCopies, L!TypeOK,
                     L!DraftTypeOK
<1> QED
    BY <1>2, <1>3

LEMMA SyncsStand ==
    ASSUME IInv, GrowsOnly, UNCHANGED syncVars
    PROVE  L!SyncTypeOK' /\ SyncsAreReal'
<1>1. \A s \in Syncers :
         /\ syn[s].todo \subseteq Holdings
         /\ \A h \in Holdings : syn[s].seen[h] \in Row
         /\ syn[s].next \in Row /\ (syn[s].pc = "write" => syn[s].h \in Holdings)
    BY Parts, SameRows DEF L!Call
<1>2. SyncsAreReal'
    BY <1>1, RealStays DEF IInv, SyncsAreReal, syncVars
<1>3. L!SyncTypeOK'
    BY SameTypesNext DEF IInv, GrowsOnly, syncVars, L!SyncTypeOK
<1> QED
    BY <1>2, <1>3

\* A path that says listed goes on standing on an issued listing.
LEMMA PathsStand ==
    ASSUME IInv, GrowsOnly,
           \A h \in Holdings :
               path'[h] # path[h] /\ path'[h] = "listed_single" => issued'[h] # 0
    PROVE  ListedPathWasIssued'
<1>1. \A h \in Holdings : issued[h] \in Nat /\ issued'[h] \in Nat
    BY Parts, BoundsAreNat DEF GrowsOnly, BaseTypeOK
<1> QED
    BY <1>1 DEF IInv, GrowsOnly, ListedPathWasIssued

-----------------------------------------------------------------------------
(* The steps                                                               *)

LEMMA PublishKeeps == IInv /\ PublishSteps => IInv'
<1> SUFFICES ASSUME IInv, PublishSteps PROVE IInv'
    OBVIOUS
<1>1. PICK p \in Publishers : P!PublishStep(p)
    BY SamePublish DEF PublishSteps
<1>2. P!IInv(FALSE) /\ FALSE \in BOOLEAN
    BY DEF IInv
<1>3. P!IInv(FALSE)'
    BY <1>1, <1>2, P!StepKeeps, NoneIsNoHolding, NoneIsNoLine, BoundsAreNat, RetriesAreNat
<1>4. /\ P!Grows /\ paid' = paid
      /\ \A h \in Holdings : row'[h].status = "SOLD" => row[h].status = "SOLD"
      /\ \A h \in Holdings :
            path'[h] # path[h] => path'[h] = "listed_single" /\ issued'[h] # 0
    BY <1>1, <1>2, P!StepEffects, NoneIsNoHolding, NoneIsNoLine, BoundsAreNat, RetriesAreNat
<1>5. GrowsOnly
    BY <1>3, <1>4, SameTypesNext, SameRealNext
    DEF GrowsOnly, P!IInv, P!TypeOK, P!Grows, P!OfferExists, OfferExists
<1>6. NothingSold
    BY <1>4 DEF NothingSold
<1>7. UNCHANGED <<ingestVars, draftVars, syncVars>> /\ UNCHANGED ing
    BY DEF PublishSteps, ingestVars
<1> QED
    BY <1>3, <1>4, <1>5, <1>6, <1>7, BooksStand, IngestsStand, DraftsStand, SyncsStand, PathsStand
    DEF IInv

LEMMA IngestKeeps == IInv /\ IngestSteps => IInv'
<1> SUFFICES ASSUME IInv, IngestSteps PROVE IInv'
    OBVIOUS
<1>1. PICK i \in Ingesters : I!Fetch(i) \/ I!Proceed(i) \/ I!Crash(i)
    BY SameIngest DEF IngestSteps
<1>2. I!Books /\ I!TypeOK
    BY DEF IInv, I!Books
<1>3. I!Books'
    BY <1>1, <1>2, I!EdgesInv, I!ProceedInv, NoneIsNoHolding, NoneIsNoLine, BoundsAreNat,
       CrashesIsBoolean
<1>4. /\ UNCHANGED I!ebayVars
      /\ UNCHANGED row \/ I!MarkSold(i)
      /\ \A h \in Holdings : path'[h] # path[h] => path'[h] = "sold"
    BY <1>1, <1>2, I!CallEffects, NoneIsNoHolding, NoneIsNoLine, BoundsAreNat, CrashesIsBoolean
<1>5. UNCHANGED <<offer, issued, paid>>
    BY <1>4 DEF I!ebayVars
<1>6. RowsAreReal'
    <2>1. \A h, r : Real(h, r) => Real(h, r)'
        BY <1>5 DEF Real, OfferExists
    <2>2. CASE UNCHANGED row
        BY <2>1, <2>2, Parts DEF RowsAreReal
    <2>3. CASE I!MarkSold(i)
        <3> DEFINE h == ing[i].line[2]
                   r == [ing[i].snap EXCEPT !.status = "SOLD"]
        <3>1. row' = [row EXCEPT ![h] = r] /\ ing[i].pc = "sold"
            BY <2>3 DEF I!MarkSold, I!UpsertListing, I!Copy, I!At
        <3>2. ing[i].snap \in Row /\ Real(h, ing[i].snap)
            BY <3>1, Parts, SameRows DEF IInv, IngestsAreReal, I!Call
        <3>3. Real(h, r)
            <4>1. /\ r.status = "SOLD" /\ r.offerId = ing[i].snap.offerId
                  /\ r.listingId = ing[i].snap.listingId
                BY <3>2 DEF Row
            <4> HIDE DEF r
            <4> QED
                BY <3>2, <4>1 DEF Real, ListedStatuses
        <3>4. \A k \in Holdings : row'[k] = row[k] \/ (k = h /\ row'[k] = r)
            BY <3>1, Parts DEF BaseTypeOK
        <3> HIDE DEF h, r
        <3> QED
            BY <2>1, <3>3, <3>4, Parts DEF RowsAreReal
    <2> QED
        BY <1>4, <2>2, <2>3
<1>7. GrowsOnly
    <2>1. BaseTypeOK'
        BY <1>3, SameTypesNext DEF I!Books, I!TypeOK
    <2> QED
        BY <1>5, <1>6, <2>1, Parts DEF GrowsOnly, ListedWasIssued, OfferExists
<1>8. IngestsAreReal'
    <2> SUFFICES ASSUME NEW j \in Ingesters, I!Holds(j)'
                 PROVE  Real(ing[j].line[2], ing[j].snap)'
        BY DEF IngestsAreReal, I!Holds
    <2>1. \/ /\ I!Holds(j)
             /\ ing'[j].line = ing[j].line /\ ing'[j].snap = ing[j].snap
          \/ /\ ing'[j].line \in I!Lines
             /\ ing'[j].snap = row[I!Copy(ing'[j].line)]
        BY <1>1, <1>2, I!CallFinds, NoneIsNoHolding, NoneIsNoLine, BoundsAreNat, CrashesIsBoolean
    <2>2. Real(ing'[j].line[2], ing'[j].snap)
        BY <2>1, Parts DEF IInv, IngestsAreReal, RowsAreReal, I!Holds, I!Copy, I!Lines
    <2> QED
        BY <1>5, <2>2 DEF Real, OfferExists
<1>9. UNCHANGED <<pub, draftVars, syncVars>>
    BY DEF IngestSteps, publishVars
<1> QED
    BY <1>3, <1>4, <1>7, <1>8, <1>9, PublishesStand, DraftsStand, SyncsStand, PathsStand DEF IInv

LEMMA DraftKeeps == IInv /\ DraftSteps => IInv'
<1> SUFFICES ASSUME IInv, DraftSteps PROVE IInv'
    OBVIOUS
<1>1. L!DraftsTyped /\ UNCHANGED <<pub, ing, ingestVars, syncVars>>
    BY DEF IInv, DraftSteps, publishVars, ingestVars
<1> USE NoneIsNoHolding, NoneIsNoLine, BoundsAreNat, CrashesIsBoolean, LotsAreLots
<1>2. CASE \E d \in Drafters : Drafts!DraftStep(d)
    <2>1. PICK d \in Drafters : L!DraftStep(d)
        BY <1>2, SameDraft
    <2>2. L!DraftsTyped' /\ L!DraftMoves(d)
        BY <1>1, <2>1, L!DraftStepTyped, L!DraftStepMoves
    <2>3. /\ UNCHANGED <<offer, issued, paid, path>>
          /\ dra[d].snap \in Row /\ DOMAIN row = Holdings
          /\ \/ UNCHANGED row
             \/ /\ dra[d].pc = "store" /\ dra[d].h \in Holdings
                /\ row' = [row EXCEPT ![dra[d].h] =
                               [dra[d].snap EXCEPT !.status = "READY_FOR_REVIEW"]]
        BY <2>2, Parts, SameRows
        DEF L!DraftMoves, L!StoresDraft, L!UpsertListing, L!ebayVars, L!Draft, BaseTypeOK
    <2>4. /\ \A h \in Holdings : Real(h, row'[h])
          /\ \A h \in Holdings : row'[h].status = "SOLD" => row[h].status = "SOLD"
        <3> DEFINE r == [dra[d].snap EXCEPT !.status = "READY_FOR_REVIEW"]
        <3>1. CASE UNCHANGED row
            BY <3>1, Parts DEF RowsAreReal
        <3>2. CASE ~UNCHANGED row
            <4>1. Real(dra[d].h, dra[d].snap)
                BY <2>3, <3>2 DEF IInv, DraftsAreReal
            <4>2. /\ r.status = "READY_FOR_REVIEW" /\ r.offerId = dra[d].snap.offerId
                  /\ r.listingId = dra[d].snap.listingId
                BY <2>3 DEF Row
            <4>3. \A h \in Holdings : row'[h] = row[h] \/ (h = dra[d].h /\ row'[h] = r)
                BY <2>3, <3>2
            <4> HIDE DEF r
            <4>4. Real(dra[d].h, r)
                BY <4>1, <4>2 DEF Real, ListedStatuses
            <4> QED
                BY <4>2, <4>3, <4>4, Parts DEF RowsAreReal
        <3> QED
            BY <3>1, <3>2
    <2>5. GrowsOnly /\ NothingSold
        <3>1. BaseTypeOK'
            BY <2>2, SameTypesNext DEF L!DraftsTyped, L!TypeOK
        <3>2. RowsAreReal'
            BY <2>3, <2>4 DEF RowsAreReal, Real, OfferExists
        <3> QED
            BY <2>3, <2>4, <3>1, <3>2, Parts
            DEF GrowsOnly, NothingSold, ListedWasIssued, OfferExists
    <2>6. DraftsAreReal'
        <3> SUFFICES ASSUME NEW e \in Drafters, dra'[e].pc \notin {"idle", "find"}
                     PROVE  Real(dra[e].h, dra[e].snap)'
            BY DEF DraftsAreReal
        <3>1. PICK next \in L!Draft : dra' = [dra EXCEPT ![d] = next] /\ L!Carries(d, next)
            BY <2>2 DEF L!DraftMoves, L!DraftBecomes
        <3>2. \/ dra'[e] = dra[e]
              \/ e = d /\ dra'[e] = next
            BY <3>1, Parts
        <3>3. Real(dra'[e].h, dra'[e].snap)
            BY <3>1, <3>2, Parts DEF L!Carries, IInv, DraftsAreReal, RowsAreReal
        <3> QED
            BY <2>3, <3>3 DEF Real, OfferExists
    <2> QED
        BY <1>1, <2>2, <2>3, <2>5, <2>6, PublishesStand, BooksStand, IngestsStand, SyncsStand,
           PathsStand
        DEF IInv
<1>3. CASE \E r \in LotRequests : Drafts!LotStep(r)
    <2>1. PICK r \in LotRequests : L!LotStep(r)
        BY <1>3, SameLot
    <2>2. L!DraftsTyped' /\ UNCHANGED <<L!baseVars, dra>>
        BY <1>1, <2>1, L!LotStepTyped
    <2>3. UNCHANGED <<offer, issued, paid, row, path, disp>>
        BY <2>2 DEF L!baseVars
    <2>4. GrowsOnly /\ NothingSold
        BY <2>3, Parts
        DEF GrowsOnly, NothingSold, BaseTypeOK, RowsAreReal, Real, ListedWasIssued, OfferExists
    <2>5. DraftsAreReal'
        BY <2>2, <2>3 DEF IInv, DraftsAreReal, Real, OfferExists
    <2> QED
        BY <1>1, <2>2, <2>3, <2>4, <2>5, PublishesStand, BooksStand, IngestsStand, SyncsStand,
           PathsStand
        DEF IInv
<1> QED
    BY <1>2, <1>3 DEF DraftSteps

\* What eBay answers about a real row with an offer makes a real row of it, and
\* none that is sold.
LEMMA AnswersAreReal ==
    ASSUME IInv, NEW h \in Holdings, NEW r \in Row, NEW a \in L!Answers(h, r),
           Real(h, r), r.offerId, r.status # "SOLD"
    PROVE  Real(h, a) /\ a.status # "SOLD"
<1>1. issued[h] \in Nat /\ r.listingId \in Nat
    BY Parts, BoundsAreNat DEF Row
<1>2. CASE a # r
    <2> DEFINE shown == L!ListingIdFromOffer(h)
               id == IF shown # 0 THEN shown ELSE r.listingId
    <2>1. PICK status \in L!StatusesFromOffer(h, r.status) :
             a = [r EXCEPT !.status = status, !.listingId = id]
        BY <1>2 DEF L!Answers
    <2>2. a.status = status /\ a.listingId = id /\ a.offerId = r.offerId
        BY <2>1 DEF Row
    <2>3. id <= issued[h]
        BY <1>1 DEF L!ListingIdFromOffer, Real
    <2>4. status \in ListedStatuses => id # 0
        <3>1. CASE offer[h] = "published"
            BY <3>1, Parts DEF ListedWasIssued, L!ListingIdFromOffer
        <3>2. CASE offer[h] # "published"
            <4>1. status \in ListedStatuses => r.status = status
                BY <2>1, <3>2 DEF L!StatusesFromOffer, L!Live, ListedStatuses
            <4> QED
                BY <4>1, <1>1 DEF Real
        <3> QED
            BY <3>1, <3>2
    <2>5. status # "SOLD"
        BY <2>1 DEF L!StatusesFromOffer
    <2> HIDE DEF id
    <2> QED
        BY <2>2, <2>3, <2>4, <2>5 DEF Real
<1> QED
    BY <1>2

LEMMA SyncKeeps == IInv /\ SyncSteps => IInv'
<1> SUFFICES ASSUME IInv, SyncSteps PROVE IInv'
    OBVIOUS
<1>1. L!SyncTypeOK /\ UNCHANGED <<pub, ing, ingestVars, draftVars>>
    BY DEF IInv, SyncSteps, publishVars, ingestVars
<1> USE NoneIsNoHolding, NoneIsNoLine, BoundsAreNat, CrashesIsBoolean, LotsAreLots
<1>2. PICK s \in Syncers : L!SyncStep(s)
    BY SameSync DEF SyncSteps
<1>3. L!SyncTypeOK' /\ L!SyncMoves(s)
    BY <1>1, <1>2, L!SyncStepTyped, L!SyncStepMoves
<1>4. /\ UNCHANGED <<offer, issued, paid, path>>
      /\ DOMAIN row = Holdings
      /\ \/ UNCHANGED row
         \/ syn[s].pc = "write" /\ row' = [row EXCEPT ![syn[s].h] = syn[s].next]
    BY <1>3, Parts DEF L!SyncMoves, L!StoresAnswer, L!UpsertListing, L!ebayVars, BaseTypeOK
<1>5. /\ \A h \in Holdings : Real(h, row'[h])
      /\ \A h \in Holdings : row'[h].status = "SOLD" => row[h].status = "SOLD"
    <2>1. CASE UNCHANGED row
        BY <2>1, Parts DEF RowsAreReal
    <2>2. CASE ~UNCHANGED row
        <3>1. Real(syn[s].h, syn[s].next) /\ syn[s].next.status # "SOLD"
            BY <1>4, <2>2 DEF IInv, SyncsAreReal
        <3>2. \A h \in Holdings : row'[h] = row[h] \/ (h = syn[s].h /\ row'[h] = syn[s].next)
            BY <1>4, <2>2
        <3> QED
            BY <3>1, <3>2, Parts DEF RowsAreReal
    <2> QED
        BY <2>1, <2>2
<1>6. GrowsOnly /\ NothingSold
    <2>1. BaseTypeOK'
        BY <1>3, SameTypesNext DEF L!SyncTypeOK
    <2>2. RowsAreReal'
        BY <1>4, <1>5 DEF RowsAreReal, Real, OfferExists
    <2> QED
        BY <1>4, <1>5, <2>1, <2>2, Parts DEF GrowsOnly, NothingSold, ListedWasIssued, OfferExists
<1>7. SyncsAreReal'
    <2> DEFINE SoundHand(q) ==
            /\ q.pc # "idle" =>
                  \A h \in q.todo :
                      Real(h, q.seen[h]) /\ q.seen[h].offerId /\ q.seen[h].status # "SOLD"
            /\ q.pc = "write" => Real(q.h, q.next) /\ q.next.status # "SOLD"
    <2>1. PICK next \in L!Call : syn' = [syn EXCEPT ![s] = next] /\ L!Syncs(syn[s], next)
        BY <1>3 DEF L!SyncMoves, L!Becomes
    <2>2. syn[s] \in L!Call /\ SoundHand(syn[s])
        BY Parts DEF IInv, SyncsAreReal
    <2>3. SoundHand(next)
        <3>1. CASE next.pc = "idle"
            BY <3>1
        <3>2. CASE next.pc = "ask" /\ next.seen = row /\ next.todo = L!ToSync
            BY <3>2, Parts DEF RowsAreReal, L!ToSync
        <3>3. CASE next.pc = "ask" /\ next.seen = syn[s].seen /\ next.todo = syn[s].todo
                   /\ syn[s].pc = "write"
            BY <2>2, <3>3
        <3>4. CASE /\ next.pc = "write" /\ next.seen = syn[s].seen /\ syn[s].pc = "ask"
                   /\ next.h \in syn[s].todo /\ next.todo = syn[s].todo \ {next.h}
                   /\ next.next \in L!Answers(next.h, syn[s].seen[next.h])
            <4>1. next.h \in Holdings /\ syn[s].seen[next.h] \in Row
                BY <2>2, <3>4, SameRows DEF L!Call
            <4>2. Real(next.h, next.next) /\ next.next.status # "SOLD"
                BY <2>2, <3>4, <4>1, AnswersAreReal
            <4> QED
                BY <2>2, <3>4, <4>2
        <3> QED
            BY <2>1, <3>1, <3>2, <3>3, <3>4 DEF L!Syncs
    <2>4. \A t \in Syncers : SoundHand(syn'[t])
        BY <2>1, <2>3, Parts DEF IInv, SyncsAreReal
    <2> QED
        BY <1>4, <2>4 DEF SyncsAreReal, Real, OfferExists
<1> QED
    BY <1>1, <1>3, <1>4, <1>6, <1>7, PublishesStand, BooksStand, IngestsStand, DraftsStand, PathsStand
    DEF IInv

\* The seller ends a listing: an offer that is over still is one.
LEMMA EndingKeeps == IInv /\ (\E h \in Holdings : SellerEnds(h)) => IInv'
<1> SUFFICES ASSUME IInv, NEW h \in Holdings, SellerEnds(h) PROVE IInv'
    OBVIOUS
<1>1. P!SellerEnds(h)
    BY DEF SellerEnds, Publish!SellerEnds, Publish!EbayEndsListing, Publish!Live, Publish!dbVars,
           P!SellerEnds, P!EbayEndsListing, P!Live, P!dbVars
<1>2. P!IInv(FALSE)'
    BY <1>1, P!SellerEndsKeeps, NoneIsNoHolding, NoneIsNoLine, BoundsAreNat, RetriesAreNat DEF IInv
<1>3. /\ offer[h] = "published" /\ UNCHANGED <<issued, paid, row, path>>
      /\ \E gone \in {"ended", "unpublished"} : offer' = [offer EXCEPT ![h] = gone]
    BY <1>1 DEF P!SellerEnds, P!EbayEndsListing, P!Live, P!dbVars
<1>4. GrowsOnly /\ NothingSold
    <2>1. BaseTypeOK' /\ RowsAreReal' /\ ListedWasIssued'
        BY <1>2, SameTypesNext, SameRealNext DEF P!IInv, P!TypeOK
    <2>2. \A k \in Holdings : OfferExists(k) => OfferExists(k)'
        BY <1>3, Parts DEF OfferExists, BaseTypeOK
    <2> QED
        BY <1>3, <2>1, <2>2, Parts DEF GrowsOnly, NothingSold
<1>5. UNCHANGED <<ing, ingestVars, draftVars, syncVars>>
    BY DEF SellerEnds, ingestVars
<1> QED
    BY <1>2, <1>3, <1>4, <1>5, BooksStand, IngestsStand, DraftsStand, SyncsStand, PathsStand DEF IInv

LEMMA RecommendKeeps ==
    IInv /\ (\E h \in Holdings, new \in Recommended : Recommend(h, new)) => IInv'
<1> SUFFICES ASSUME IInv, NEW h \in Holdings, NEW new \in Recommended, Recommend(h, new)
             PROVE  IInv'
    OBVIOUS
<1>1. /\ UNCHANGED <<offer, issued, paid, row, path>>
      /\ UNCHANGED <<pub, ing, ingestVars, draftVars, syncVars>>
      /\ disp' = [disp EXCEPT ![h] = new]
    BY DEF Recommend, ebayVars, publishVars, ingestVars
<1>2. GrowsOnly /\ NothingSold
    BY <1>1, Parts, RecommendedAreDispositions
    DEF GrowsOnly, NothingSold, BaseTypeOK, RowsAreReal, Real, ListedWasIssued, OfferExists
<1> QED
    BY <1>1, <1>2, PublishesStand, BooksStand, IngestsStand, DraftsStand, SyncsStand, PathsStand
    DEF IInv

LEMMA CheckoutKeeps ==
    IInv /\ (\E o \in Orders, S \in SUBSET Holdings : Checkout(o, S)) => IInv'
<1> SUFFICES ASSUME IInv, NEW o \in Orders, NEW S \in SUBSET Holdings, Checkout(o, S)
             PROVE  IInv'
    OBVIOUS
<1>1. /\ UNCHANGED <<issued, row, path, disp>>
      /\ UNCHANGED <<pub, ing, ingestVars, draftVars, syncVars>>
      /\ \A h \in S : offer[h] = "published"
      /\ paid' = paid \cup ({o} \X S)
    BY DEF Checkout, BuyerChecksOut, Live, dbVars, publishVars, ingestVars
<1>2. PICK gone \in {"ended", "unpublished"} :
         offer' = [h \in Holdings |-> IF h \in S THEN gone ELSE offer[h]]
    BY DEF Checkout, BuyerChecksOut
<1>3. BaseTypeOK'
    <2>1. offer' \in [Holdings -> OfferStates]
        BY <1>2, Parts DEF BaseTypeOK, OfferStates
    <2>2. paid' \subseteq Lines
        BY <1>1, Parts DEF BaseTypeOK, Lines
    <2> QED
        BY <1>1, <2>1, <2>2, Parts DEF BaseTypeOK
<1>4. \A h \in Holdings : /\ OfferExists(h) => OfferExists(h)'
                          /\ offer'[h] \in {"published", "ended"} =>
                                offer[h] \in {"published", "ended"}
    BY <1>1, <1>2 DEF OfferExists
<1>5. RowsAreReal' /\ ListedWasIssued'
    BY <1>1, <1>4, Parts DEF RowsAreReal, Real, ListedWasIssued
<1>6. GrowsOnly /\ NothingSold
    BY <1>1, <1>3, <1>4, <1>5, Parts DEF GrowsOnly, NothingSold
<1> QED
    BY <1>1, <1>6, PublishesStand, BooksStand, IngestsStand, DraftsStand, SyncsStand, PathsStand
    DEF IInv

-----------------------------------------------------------------------------
(* The theorems                                                            *)

LEMMA InitInv == Init => IInv
<1> SUFFICES ASSUME Init PROVE IInv
    OBVIOUS
<1> USE DEF Init
<1>1. BaseTypeOK
    <2>1. 0 \in 0..MaxListings
        BY BoundsAreNat
    <2>2. NoRow \in Row /\ [NoRow EXCEPT !.status = "READY_FOR_REVIEW"] \in Row
        BY <2>1 DEF NoRow, Row, Statuses
    <2>3. row \in [Holdings -> Row]
        BY <2>2
    <2> QED
        BY <2>1, <2>3 DEF BaseTypeOK, OfferStates, SalesPaths, Dispositions
<1>2. \A h \in Holdings : /\ row[h].status \in {"NONE", "READY_FOR_REVIEW"}
                          /\ row[h].offerId = FALSE /\ row[h].listingId = 0
    <2>1. \A r \in {NoRow, [NoRow EXCEPT !.status = "READY_FOR_REVIEW"]} :
             /\ r.status \in {"NONE", "READY_FOR_REVIEW"}
             /\ r.offerId = FALSE /\ r.listingId = 0
        BY DEF NoRow
    <2> QED
        BY <2>1
<1>3. RowsAreReal /\ ListedWasIssued /\ ListedPathWasIssued
    BY <1>2 DEF RowsAreReal, ListedWasIssued, ListedPathWasIssued, Real, ListedStatuses
<1>4. P!IInv(FALSE)
    <2>1. P!Idle \in P!Request /\ P!Fine(P!Idle, FALSE)
        BY P!RowsTyped, NoneIsNoHolding, NoneIsNoLine, BoundsAreNat, RetriesAreNat
    <2>2. pub = [p \in Publishers |-> P!Idle]
        BY DEF Publish!Idle, P!Idle, Publish!NoRow, P!NoRow
    <2> QED
        BY <1>1, <1>3, <2>1, <2>2, SameTypes, SameReal DEF P!IInv, P!TypeOK
<1>5. I!Books
    <2>1. \A h \in Holdings : row[h].status # "SOLD" /\ path[h] # "sold"
        BY <1>2
    <2>2. /\ ing = [i \in Ingesters |-> I!Idle] /\ observed = [l \in I!Lines |-> 0]
          /\ I!BaseTypeOK
        BY <1>1, SameTypes, SameRows DEF Ingest!Idle, I!Idle, Ingest!NoRow, I!NoRow
    <2> QED
        BY <2>1, <2>2, I!EmptyBooks, NoneIsNoHolding, NoneIsNoLine, BoundsAreNat, CrashesIsBoolean
<1>6. L!DraftsTyped /\ DraftsAreReal
    <2>1. L!DraftInit
        BY DEF Drafts!DraftInit, Drafts!NoDraft, Drafts!NoRequest, Drafts!NoLot, Drafts!NoRow,
               L!DraftInit, L!NoDraft, L!NoRequest, L!NoLot, L!NoRow
    <2>2. L!DraftTypeOK /\ L!DraftsHaveCopies
        BY <2>1, L!EmptyDesk, NoneIsNoHolding, NoneIsNoLine, BoundsAreNat, CrashesIsBoolean,
           LotsAreLots
    <2>3. \A d \in Drafters : dra[d].pc = "idle"
        BY <2>1 DEF L!DraftInit, L!NoDraft
    <2> QED
        BY <1>1, <2>2, <2>3, SameTypes DEF L!DraftsTyped, L!TypeOK, DraftsAreReal
<1>7. L!SyncTypeOK /\ SyncsAreReal
    <2>1. syn = [s \in Syncers |-> L!Idle]
        BY DEF Sync!Idle, L!Idle, Sync!NoRow, L!NoRow
    <2>2. L!Idle \in L!Call /\ L!Idle.pc = "idle"
        BY L!SyncRecords, NoneIsNoHolding, NoneIsNoLine, BoundsAreNat, CrashesIsBoolean,
           LotsAreLots
    <2> QED
        BY <1>1, <2>1, <2>2, SameTypes DEF L!SyncTypeOK, SyncsAreReal
<1>8. IngestsAreReal
    BY DEF IngestsAreReal, Ingest!Idle
<1> QED
    BY <1>3, <1>4, <1>5, <1>6, <1>7, <1>8 DEF IInv

LEMMA StutterKeeps == IInv /\ UNCHANGED vars => IInv'
<1> SUFFICES ASSUME IInv, UNCHANGED vars PROVE IInv'
    OBVIOUS
<1>1. /\ UNCHANGED <<offer, issued, paid, row, path, disp>>
      /\ UNCHANGED <<pub, ing, ingestVars, draftVars, syncVars>>
    BY DEF vars, baseVars, publishVars, ingestVars
<1>2. GrowsOnly /\ NothingSold
    BY <1>1, Parts
    DEF GrowsOnly, NothingSold, BaseTypeOK, RowsAreReal, Real, ListedWasIssued, OfferExists
<1> QED
    BY <1>1, <1>2, PublishesStand, BooksStand, IngestsStand, DraftsStand, SyncsStand, PathsStand
    DEF IInv

LEMMA NextInv == IInv /\ [Next]_vars => IInv'
BY PublishKeeps, IngestKeeps, DraftKeeps, SyncKeeps, EndingKeeps, RecommendKeeps, CheckoutKeeps,
   StutterKeeps
DEF Next

\* The inductive invariant of the engine.
LEMMA Invariance == Spec => []IInv
BY InitInv, NextInv, PTL DEF Spec

\* Every table, offer and call keeps its type with all components running.
THEOREM TypeCorrect == Spec => []TypeOK
<1>1. IInv => TypeOK
    <2> SUFFICES ASSUME IInv PROVE TypeOK
        OBVIOUS
    <2>1. Publish!TypeOK
        BY DEF IInv, P!IInv, P!TypeOK, Publish!TypeOK, P!Request, Publish!Request, P!PublishPcs,
               Publish!PublishPcs,
               P!BaseTypeOK, P!OfferStates, P!Lines, P!Row, P!Statuses, P!ActiveStatuses,
               P!SalesPaths, P!Dispositions,
               Publish!BaseTypeOK, Publish!OfferStates, Publish!Lines, Publish!Row,
               Publish!Statuses, Publish!ActiveStatuses, Publish!SalesPaths, Publish!Dispositions
    <2>2. Ingest!TypeOK
        BY DEF IInv, I!Books, I!TypeOK, Ingest!TypeOK, I!Call, Ingest!Call, I!IngestPcs,
               Ingest!IngestPcs,
               I!BaseTypeOK, I!OfferStates, I!Lines, I!Row, I!Statuses, I!ActiveStatuses,
               I!SalesPaths, I!Dispositions,
               Ingest!BaseTypeOK, Ingest!OfferStates, Ingest!Lines, Ingest!Row,
               Ingest!Statuses, Ingest!ActiveStatuses, Ingest!SalesPaths, Ingest!Dispositions
    <2>3. Drafts!TypeOK
        BY DEF IInv, L!DraftsTyped, L!TypeOK, Drafts!TypeOK, L!DraftTypeOK, Drafts!DraftTypeOK,
               L!Draft, Drafts!Draft, L!LotRequest, Drafts!LotRequest, L!LotStatuses,
               Drafts!LotStatuses, L!Lot, Drafts!Lot,
               L!BaseTypeOK, L!OfferStates, L!Lines, L!Row, L!Statuses, L!ActiveStatuses,
               L!SalesPaths, L!Dispositions,
               Drafts!BaseTypeOK, Drafts!OfferStates, Drafts!Lines, Drafts!Row,
               Drafts!Statuses, Drafts!ActiveStatuses, Drafts!SalesPaths, Drafts!Dispositions
    <2>4. Sync!SyncTypeOK
        BY DEF IInv, L!SyncTypeOK, Sync!SyncTypeOK, L!Call, Sync!Call,
               L!BaseTypeOK, L!OfferStates, L!Lines, L!Row, L!Statuses, L!ActiveStatuses,
               L!SalesPaths, L!Dispositions,
               Sync!BaseTypeOK, Sync!OfferStates, Sync!Lines, Sync!Row,
               Sync!Statuses, Sync!ActiveStatuses, Sync!SalesPaths, Sync!Dispositions
    <2> QED
        BY <2>1, <2>2, <2>3, <2>4 DEF TypeOK
<1> QED
    BY <1>1, Invariance, PTL

\* However publishes, drafts, ingests and syncs write over one another's rows,
\* a row that claims to be listed names a listing eBay issued.
THEOREM RowsStayReal == Spec => []ListedRowsAreReal
<1>1. IInv => ListedRowsAreReal
    BY Parts DEF RowsAreReal, Real, ListedRowsAreReal
<1> QED
    BY <1>1, Invariance, PTL

\* A path says a copy is listed only when eBay has issued a listing for it.
THEOREM PathsStayReal == Spec => []ListedPathWasIssued
<1>1. IInv => ListedPathWasIssued
    BY DEF IInv
<1> QED
    BY <1>1, Invariance, PTL

\* With every component running, a copy is sold in the books only after one of
\* its lines was recorded, lines are paid, and each is completed at most once.
THEOREM BooksFollowMoney == Spec => []SalesArePaid
<1>1. IInv => SalesArePaid
    BY DEF IInv, I!Books, SalesArePaid, I!SoldIsPaid, Ingest!SoldIsPaid,
           I!OneObservationPerLine, Ingest!OneObservationPerLine, I!Lines, Ingest!Lines
<1> QED
    BY <1>1, Invariance, PTL
=============================================================================
