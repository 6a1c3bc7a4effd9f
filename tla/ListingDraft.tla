----------------------------- MODULE ListingDraft -----------------------------
(***************************************************************************)
(* The two ways a copy gets onto a sales path before anything is on eBay:   *)
(* drafting a single listing (service.ts draftFromHolding, with the          *)
(* exclusivity assertion) and accepting or rejecting a lot proposal         *)
(* (acceptLot, rejectLot and the store's upsertLot).  Every awaited          *)
(* statement is an action, but for listLots, whose two SELECTs are one.     *)
(* There is no transaction: a request may die between any two of them.      *)
(***************************************************************************)
EXTENDS EbayBase

CONSTANTS
    Drafters,         \* concurrent draft requests
    Lots,             \* lot ids
    LotRequests,      \* concurrent accept and reject requests
    MinMembers        \* smallest lot proposed

ASSUME LotsAreLots == None \notin Lots /\ MinMembers \in Nat \ {0}

VARIABLES
    lot,              \* listing_lot: status, and the copies it is priced for
                      \* (freed is history, see RejectLot)
    member,           \* listing_lot_member: lot_status per lot and copy
    dra,              \* draft requests in progress
    req               \* lot requests in progress

lotVars == <<lot, member>>
vars == <<baseVars, lotVars, dra, req>>

\* "none" is the status of a row that is not there.
LotStatuses == {"none", "accepted", "rejected"}
\* Of the statuses ACTIVE_LOT_STATES lists, the code stores "accepted" alone.
ActiveLotStates == {"accepted"}

Draft == [pc: {"idle", "find", "row", "lots", "inLot", "store"},
          h: Holdings \cup {None}, sold: BOOLEAN, snap: Row]

NoDraft == [pc |-> "idle", h |-> None, sold |-> FALSE, snap |-> NoRow]

\* whole is history: a rejection that found the lot while nobody was accepting it.
LotRequest == [pc: {"idle", "accept", "reject", "member"}, lot: Lots \cup {None},
               status: LotStatuses, todo: SUBSET Holdings, whole: BOOLEAN]

NoRequest == [pc |-> "idle", lot |-> None, status |-> "none", todo |-> {}, whole |-> FALSE]

Lot == [status: LotStatuses, priced: SUBSET Holdings, freed: BOOLEAN]

NoLot == [status |-> "none", priced |-> {}, freed |-> FALSE]

DraftTypeOK ==
    /\ lot \in [Lots -> Lot]
    /\ member \in [Lots -> [Holdings -> LotStatuses]]
    /\ dra \in [Drafters -> Draft]
    /\ req \in [LotRequests -> LotRequest]

TypeOK == BaseTypeOK /\ DraftTypeOK

DraftInit ==
    /\ lot = [l \in Lots |-> NoLot]
    /\ member = [l \in Lots |-> [h \in Holdings |-> "none"]]
    /\ dra = [d \in Drafters |-> NoDraft]
    /\ req = [r \in LotRequests |-> NoRequest]

\* A copy was never drafted, is listed, or was listed and ended.
Init ==
    /\ MaxListings > 0
    /\ offer \in [Holdings -> {"none", "published", "ended"}]
    /\ issued = [h \in Holdings |-> IF OfferExists(h) THEN 1 ELSE 0]
    /\ paid = {}
    /\ row = [h \in Holdings |->
                 IF OfferExists(h)
                 THEN [status |-> IF Live(h) THEN "ACTIVE" ELSE "ENDED",
                       offerId |-> TRUE, listingId |-> 1]
                 ELSE NoRow]
    /\ path = [h \in Holdings |-> IF OfferExists(h) THEN "listed_single" ELSE "available"]
    /\ disp \in [Holdings -> Dispositions]
    /\ DraftInit

-----------------------------------------------------------------------------
(* draftFromHolding                                                        *)

DraftBecomes(d, next) == dra' = [dra EXCEPT ![d] = next]

DraftAt(d, pc) == dra[d].pc = pc

DraftGoes(d, pc) == DraftBecomes(d, [dra[d] EXCEPT !.pc = pc])

\* hydrateHolding
DraftLoad(d, h) ==
    /\ DraftAt(d, "idle")
    /\ DraftBecomes(d, [NoDraft EXCEPT !.pc = "find", !.h = h, !.sold = (path[h] = "sold")])
    /\ UNCHANGED <<baseVars, lotVars, req>>

\* findListingByIdempotency; an active listing is returned as it is.
DraftFind(d) ==
    LET existing == row[dra[d].h]
    IN  /\ DraftAt(d, "find")
        /\ IF existing.status \in ActiveStatuses
           THEN DraftBecomes(d, NoDraft)
           ELSE DraftBecomes(d, [dra[d] EXCEPT !.pc = "row", !.snap = existing])
        /\ UNCHANGED <<baseVars, lotVars, req>>

\* listListings, for assertListingExclusivity.
DraftCheckRow(d) ==
    /\ DraftAt(d, "row")
    /\ IF row[dra[d].h].status \in ActiveStatuses
       THEN DraftBecomes(d, NoDraft)
       ELSE DraftGoes(d, "lots")
    /\ UNCHANGED <<baseVars, lotVars, req>>

\* listLots and the assertion.  The memberships of every lot are passed on,
\* and a membership has the status of its lot.
DraftCheckLots(d) ==
    LET lotMemberships == {m \in Lots \X Holdings : member[m[1]][m[2]] # "none"}
        activeLots == {m \in lotMemberships : lot[m[1]].status \in ActiveLotStates}
    IN  /\ DraftAt(d, "lots")
        /\ \/ dra[d].sold /\ DraftBecomes(d, NoDraft)
           \/ ~dra[d].sold /\ activeLots # {} /\ DraftGoes(d, "inLot")
           \/ ~dra[d].sold /\ activeLots = {} /\ DraftGoes(d, "store")
        /\ UNCHANGED <<baseVars, lotVars, req>>

\* The error "is in an active lot and cannot list as a single" is answered.
DraftRefused(d) ==
    /\ DraftAt(d, "inLot")
    /\ DraftBecomes(d, NoDraft)
    /\ UNCHANGED <<baseVars, lotVars, req>>

\* Mutant: a new draft starts without the ids of the earlier listing.
DraftStoreAfresh(d) ==
    /\ DraftAt(d, "store")
    /\ UpsertListing(dra[d].h, [NoRow EXCEPT !.status = "READY_FOR_REVIEW"])
    /\ DraftBecomes(d, NoDraft)
    /\ UNCHANGED <<ebayVars, path, disp, lotVars, req>>

\* Mutant: the store writes the schema's default status.
DraftStoreDefault(d) ==
    /\ DraftAt(d, "store")
    /\ UpsertListing(dra[d].h, [dra[d].snap EXCEPT !.status = "DRAFT"])
    /\ DraftBecomes(d, NoDraft)
    /\ UNCHANGED <<ebayVars, path, disp, lotVars, req>>

\* upsertListing.  Without a row the draft has a fresh id, and the unique
\* idempotency key refuses it when another draft was stored meanwhile.
DraftStore(d) ==
    LET h == dra[d].h
    IN  /\ DraftAt(d, "store")
        /\ IF dra[d].snap.status = "NONE" /\ row[h].status # "NONE"
           THEN UNCHANGED row
           ELSE UpsertListing(h, [dra[d].snap EXCEPT !.status = "READY_FOR_REVIEW"])
        /\ DraftBecomes(d, NoDraft)
        /\ UNCHANGED <<ebayVars, path, disp, lotVars, req>>

\* A statement fails, or the process ends.
DraftDies(d) ==
    /\ ~DraftAt(d, "idle")
    /\ DraftBecomes(d, NoDraft)
    /\ UNCHANGED <<baseVars, lotVars, req>>

DraftStep(d) ==
    \/ \E h \in Holdings : DraftLoad(d, h)
    \/ DraftFind(d) \/ DraftCheckRow(d) \/ DraftCheckLots(d) \/ DraftRefused(d) \/ DraftStore(d)
    \/ DraftDies(d)

-----------------------------------------------------------------------------
(* Lots                                                                    *)

RequestBecomes(r, next) == req' = [req EXCEPT ![r] = next]

RequestAt(r, pc) == req[r].pc = pc

\* GET /lots: the operator is shown a proposal, and will post it back.
Propose(r, S) ==
    /\ RequestAt(r, "idle")
    /\ Cardinality(S) >= MinMembers
    /\ \A h \in S : path[h] = "available" /\ disp[h] # "HOLD"
    /\ RequestBecomes(r, [NoRequest EXCEPT !.pc = "accept", !.status = "accepted", !.todo = S])
    /\ UNCHANGED <<baseVars, lotVars, dra>>

\* acceptLot: the lot's row, for the copies of the proposal.
AcceptLot(r, l) ==
    /\ RequestAt(r, "accept") /\ lot[l].status = "none"
    /\ lot' = [lot EXCEPT ![l] = [NoLot EXCEPT !.status = "accepted", !.priced = req[r].todo]]
    /\ RequestBecomes(r, [req[r] EXCEPT !.pc = "member", !.lot = l])
    /\ UNCHANGED <<baseVars, member, dra>>

Accepting(r, l) == RequestAt(r, "member") /\ req[r].status = "accepted" /\ req[r].lot = l

\* rejectLot reads the lot and its members ...
FindLot(r, l) ==
    /\ RequestAt(r, "idle") /\ lot[l].status # "none"
    /\ RequestBecomes(r, [pc |-> "reject", lot |-> l, status |-> "rejected",
                          todo |-> {h \in Holdings : member[l][h] # "none"},
                          whole |-> \A q \in LotRequests : ~Accepting(q, l)])
    /\ UNCHANGED <<baseVars, lotVars, dra>>

\* Mutant: only the lot's own row is rejected.
RejectLotRowOnly(r) ==
    LET l == req[r].lot
    IN  /\ RequestAt(r, "reject")
        /\ lot' = [lot EXCEPT ![l].status = "rejected", ![l].freed = @ \/ req[r].whole]
        /\ RequestBecomes(r, NoRequest)
        /\ UNCHANGED <<baseVars, member, dra>>

\* ... and writes its row.  freed is history: a whole rejection was answered.
RejectLot(r) ==
    LET l == req[r].lot
        last == req[r].todo = {}
    IN  /\ RequestAt(r, "reject")
        /\ lot' = [lot EXCEPT ![l].status = "rejected", ![l].freed = @ \/ (last /\ req[r].whole)]
        /\ RequestBecomes(r, IF last THEN NoRequest ELSE [req[r] EXCEPT !.pc = "member"])
        /\ UNCHANGED <<baseVars, member, dra>>

\* uq_lot_member_active: an active membership of the copy in another lot.
HeldByAnotherLot(h, l) == \E k \in Lots \ {l} : member[k][h] \in ActiveLotStates

\* upsertLot writes one member after the other; one the unique index refuses
\* ends the request.
WriteMember(r, h) ==
    LET l == req[r].lot
        status == req[r].status
        todo == req[r].todo \ {h}
    IN  /\ RequestAt(r, "member") /\ h \in req[r].todo
        /\ IF status \in ActiveLotStates /\ HeldByAnotherLot(h, l)
           THEN RequestBecomes(r, NoRequest) /\ UNCHANGED lotVars
           ELSE /\ member' = [member EXCEPT ![l][h] = status]
                /\ lot' = [lot EXCEPT ![l].freed = @ \/ (todo = {} /\ req[r].whole)]
                /\ RequestBecomes(r, IF todo = {} THEN NoRequest
                                     ELSE [req[r] EXCEPT !.todo = todo])
        /\ UNCHANGED <<baseVars, dra>>

\* A statement fails, or the process ends: the rows written so far stay, the
\* members not written yet keep the status they had.
LotDies(r) ==
    /\ ~RequestAt(r, "idle")
    /\ RequestBecomes(r, NoRequest)
    /\ UNCHANGED <<baseVars, lotVars, dra>>

LotStep(r) ==
    \/ \E S \in SUBSET Holdings : Propose(r, S)
    \/ \E l \in Lots : AcceptLot(r, l) \/ FindLot(r, l)
    \/ RejectLot(r)
    \/ \E h \in Holdings : WriteMember(r, h)
    \/ LotDies(r)

Next ==
    \/ \E d \in Drafters : DraftStep(d)
    \/ \E r \in LotRequests : LotStep(r)

Spec == Init /\ [][Next]_vars

-----------------------------------------------------------------------------
(* Properties                                                              *)

\* A draft made over an old row keeps the external ids the row had: they are
\* what a later publish reuses.
DraftKeepsIds ==
    [][\A h \in Holdings :
          row[h].offerId => row'[h].offerId /\ row'[h].listingId = row[h].listingId]_vars

\* Once a rejection of a lot that nobody was accepting any more is answered, no
\* copy is locked by the lot ever again, whatever died before and whoever
\* accepts or rejects what else meanwhile.
AnsweredRejectionFrees ==
    \A l \in Lots, h \in Holdings : lot[l].freed => member[l][h] \notin ActiveLotStates
=============================================================================
