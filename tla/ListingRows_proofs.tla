-------------------------- MODULE ListingRows_proofs --------------------------
(***************************************************************************)
(* What drafting, lots and listing sync guarantee for any holdings, lots    *)
(* and requests: types, external ids that survive a redraft, copies that a  *)
(* rejected lot gives back, and ended listings that no sync revives.        *)
(*                                                                         *)
(* Drafts first.  Every draft in progress carries the ids its row has, for  *)
(* nobody but drafts writes rows here and a draft writes back the ids it    *)
(* read.  Then lots: a lot that nobody is accepting is accepted by nobody   *)
(* ever again, so its active memberships only get fewer, and those left are *)
(* what a rejection in progress is yet to write.  Then sync: what a call has *)
(* read and will write names no listing eBay has not issued, and not the one *)
(* that is live if it says ended; and a call writes a listed row over the   *)
(* ended one it read only under a newer id.                                 *)
(***************************************************************************)
EXTENDS ListingDraft, ListingSync, TLAPS

-----------------------------------------------------------------------------
(* Drafts                                                                  *)

\* A draft in progress is for a copy.
DraftsHaveCopies == \A d \in Drafters : dra[d].pc # "idle" => dra[d].h \in Holdings

DraftsTyped == TypeOK /\ DraftsHaveCopies

\* A draft carries the ids of the row it was made from, which are still there.
SameIds(r, s) == r.offerId = s.offerId /\ r.listingId = s.listingId

DraftsCarryIds ==
    \A d \in Drafters : dra[d].pc \notin {"idle", "find"} => SameIds(dra[d].snap, row[dra[d].h])

\* The rows that drafts start from and store.
LEMMA DraftRows ==
    /\ NoRow \in Row
    /\ \A r \in Row : [r EXCEPT !.status = "READY_FOR_REVIEW"] \in Row
<1>1. 0 \in 0..MaxListings
    BY BoundsAreNat
<1>2. {"READY_FOR_REVIEW", "NONE"} \subseteq Statuses
    BY DEF Statuses
<1>3. \A r \in Row : [r EXCEPT !.status = "READY_FOR_REVIEW"] \in Row
    BY <1>2, Zenon DEF Row
<1> QED
    BY <1>1, <1>2, <1>3 DEF NoRow, Row

\* A draft request that begins, and one that finds its row.
LEMMA DraftRecords ==
    /\ NoDraft \in Draft
    /\ \A h \in Holdings, sold \in BOOLEAN :
          [NoDraft EXCEPT !.pc = "find", !.h = h, !.sold = sold] \in Draft
    /\ \A q \in Draft, r \in Row : [q EXCEPT !.pc = "row", !.snap = r] \in Draft
    /\ \A q \in Draft, pc \in {"lots", "inLot", "store"} : [q EXCEPT !.pc = pc] \in Draft
BY DraftRows DEF NoDraft, Draft

\* A step of a draft moves it on, with the row it had or the one that is there,
\* and writes a row only as it had it, ready for review.
Carries(d, next) ==
    \/ next.pc = "idle"
    \/ next.pc = "find" /\ next.h \in Holdings
    \/ /\ next.h = dra[d].h /\ dra[d].pc # "idle"
       /\ \/ next.snap = row[dra[d].h]
          \/ dra[d].pc # "find" /\ next.snap = dra[d].snap

StoresDraft(d) ==
    /\ dra[d].pc = "store"
    /\ UpsertListing(dra[d].h, [dra[d].snap EXCEPT !.status = "READY_FOR_REVIEW"])

DraftMoves(d) ==
    /\ \E next \in Draft : DraftBecomes(d, next) /\ Carries(d, next)
    /\ UNCHANGED <<ebayVars, path, disp, lotVars, req>>
    /\ UNCHANGED row \/ StoresDraft(d)

LEMMA DraftStepMoves ==
    ASSUME DraftsTyped, NEW d \in Drafters, DraftStep(d)
    PROVE  DraftMoves(d)
<1>1. /\ dra[d] \in Draft /\ row \in [Holdings -> Row] /\ DOMAIN dra = Drafters
      /\ dra[d].pc # "idle" => dra[d].h \in Holdings
    BY DEF DraftsTyped, DraftsHaveCopies, TypeOK, DraftTypeOK, BaseTypeOK
<1>2. NoDraft \in Draft /\ Carries(d, NoDraft)
    BY DraftRecords DEF NoDraft, Carries
<1>3. ASSUME UNCHANGED <<baseVars, lotVars, req>>,
             NEW next \in Draft, DraftBecomes(d, next), Carries(d, next)
      PROVE  DraftMoves(d)
    BY <1>3 DEF DraftMoves, baseVars, ebayVars
<1>4. CASE \E h \in Holdings : DraftLoad(d, h)
    <2>1. PICK h \in Holdings : DraftLoad(d, h)
        BY <1>4
    <2> DEFINE next == [NoDraft EXCEPT !.pc = "find", !.h = h, !.sold = (path[h] = "sold")]
    <2>2. next \in Draft /\ Carries(d, next)
        <3>1. (path[h] = "sold") \in BOOLEAN
            OBVIOUS
        <3>2. next \in Draft
            BY <3>1, DraftRecords, Zenon
        <3>3. next.pc = "find" /\ next.h = h
            BY DEF NoDraft
        <3> QED
            BY <3>2, <3>3 DEF Carries
    <2>3. DraftBecomes(d, next) /\ UNCHANGED <<baseVars, lotVars, req>>
        BY <2>1 DEF DraftLoad
    <2> QED
        BY <1>3, <2>2, <2>3
<1>5. CASE DraftFind(d)
    <2> DEFINE next == [dra[d] EXCEPT !.pc = "row", !.snap = row[dra[d].h]]
    <2>1. dra[d].h \in Holdings /\ dra[d].pc = "find" /\ UNCHANGED <<baseVars, lotVars, req>>
        BY <1>1, <1>5 DEF DraftFind, DraftAt
    <2>2. next \in Draft
        BY <1>1, <2>1, DraftRecords
    <2>3. Carries(d, next)
        BY <1>1, <2>1 DEF Carries, Draft
    <2>4. DraftBecomes(d, NoDraft) \/ DraftBecomes(d, next)
        BY <1>5 DEF DraftFind
    <2> HIDE DEF next
    <2> QED
        BY <1>2, <1>3, <2>1, <2>2, <2>3, <2>4
<1>6. ASSUME NEW pc \in {"lots", "inLot", "store"}, DraftGoes(d, pc),
             dra[d].pc \notin {"idle", "find"}, UNCHANGED <<baseVars, lotVars, req>>
      PROVE  DraftMoves(d)
    <2> DEFINE next == [dra[d] EXCEPT !.pc = pc]
    <2>1. next \in Draft
        BY <1>1, DraftRecords
    <2>2. next.h = dra[d].h /\ next.snap = dra[d].snap
        BY <1>1 DEF Draft
    <2>3. Carries(d, next) /\ DraftBecomes(d, next)
        BY <1>6, <2>2 DEF Carries, DraftGoes
    <2> QED
        BY <1>3, <1>6, <2>1, <2>3
<1>7. CASE DraftCheckRow(d) \/ DraftCheckLots(d) \/ DraftRefused(d)
    BY <1>2, <1>3, <1>6, <1>7 DEF DraftCheckRow, DraftCheckLots, DraftRefused, DraftAt
<1>8. CASE DraftStore(d)
    BY <1>2, <1>8
    DEF DraftStore, DraftAt, DraftMoves, StoresDraft, DraftBecomes, ebayVars
<1>9. CASE DraftDies(d)
    BY <1>2, <1>3, <1>9 DEF DraftDies
<1> QED
    BY <1>4, <1>5, <1>7, <1>8, <1>9 DEF DraftStep

LEMMA DraftStepTyped ==
    ASSUME DraftsTyped, NEW d \in Drafters, DraftStep(d)
    PROVE  DraftsTyped'
<1>1. /\ dra \in [Drafters -> Draft] /\ row \in [Holdings -> Row]
      /\ \A e \in Drafters : dra[e].pc # "idle" => dra[e].h \in Holdings
    BY DEF DraftsTyped, DraftsHaveCopies, TypeOK, DraftTypeOK, BaseTypeOK
<1>2. DraftMoves(d)
    BY DraftStepMoves
<1>3. PICK next \in Draft : DraftBecomes(d, next) /\ Carries(d, next)
    BY <1>2 DEF DraftMoves
<1>4. dra' \in [Drafters -> Draft] /\ DraftsHaveCopies'
    BY <1>1, <1>3 DEF DraftBecomes, Carries, DraftsHaveCopies
<1>5. row' \in [Holdings -> Row]
    <2>1. dra[d].snap \in Row
        BY <1>1 DEF Draft
    <2> QED
        BY <1>1, <1>2, <2>1, DraftRows DEF DraftMoves, StoresDraft, UpsertListing
<1> QED
    BY <1>2, <1>4, <1>5
    DEF DraftMoves, DraftsTyped, TypeOK, DraftTypeOK, BaseTypeOK, lotVars, ebayVars

LEMMA DraftStepCarries ==
    ASSUME DraftsTyped, DraftsCarryIds, NEW d \in Drafters, DraftStep(d)
    PROVE  /\ DraftsCarryIds'
           /\ \A h \in Holdings : SameIds(row[h], row'[h])
<1>1. /\ dra \in [Drafters -> Draft] /\ row \in [Holdings -> Row]
      /\ \A e \in Drafters : dra[e].pc # "idle" => dra[e].h \in Holdings
    BY DEF DraftsTyped, DraftsHaveCopies, TypeOK, DraftTypeOK, BaseTypeOK
<1>2. DraftMoves(d)
    BY DraftStepMoves
<1>3. PICK next \in Draft : DraftBecomes(d, next) /\ Carries(d, next)
    BY <1>2 DEF DraftMoves
<1>4. \A h \in Holdings : SameIds(row[h], row'[h])
    <2>1. ASSUME StoresDraft(d) PROVE SameIds(row[dra[d].h], row'[dra[d].h])
        <3>1. SameIds(dra[d].snap, row[dra[d].h]) /\ dra[d].h \in Holdings
            BY <1>1, <2>1 DEF StoresDraft, DraftsCarryIds
        <3>2. row'[dra[d].h] = [dra[d].snap EXCEPT !.status = "READY_FOR_REVIEW"]
            BY <1>1, <2>1, <3>1 DEF StoresDraft, UpsertListing
        <3>3. dra[d].snap \in Row
            BY <1>1 DEF Draft
        <3>4. SameIds([dra[d].snap EXCEPT !.status = "READY_FOR_REVIEW"], dra[d].snap)
            BY <3>3 DEF SameIds, Row
        <3> QED
            BY <3>1, <3>2, <3>4 DEF SameIds
    <2> QED
        BY <1>1, <1>2, <2>1 DEF DraftMoves, StoresDraft, UpsertListing, SameIds
<1>5. ASSUME NEW e \in Drafters, dra'[e].pc \notin {"idle", "find"}
      PROVE  SameIds(dra'[e].snap, row'[dra'[e].h])
    <2>1. CASE e # d
        <3>1. dra'[e] = dra[e]
            BY <1>1, <1>3, <2>1 DEF DraftBecomes
        <3> QED
            BY <1>1, <1>4, <1>5, <3>1 DEF DraftsCarryIds, SameIds
    <2>2. CASE e = d
        <3>1. dra'[d] = next
            BY <1>1, <1>3 DEF DraftBecomes
        <3>2. next.h = dra[d].h /\ dra[d].h \in Holdings /\ SameIds(next.snap, row[dra[d].h])
            BY <1>1, <1>3, <1>5, <2>2, <3>1 DEF Carries, DraftsCarryIds, SameIds
        <3> QED
            BY <1>4, <2>2, <3>1, <3>2 DEF SameIds
    <2> QED
        BY <2>1, <2>2
<1> QED
    BY <1>4, <1>5 DEF DraftsCarryIds

-----------------------------------------------------------------------------
(* Lots                                                                    *)

LEMMA LotStepTyped ==
    ASSUME DraftsTyped, NEW r \in LotRequests, LotStep(r)
    PROVE  DraftsTyped' /\ UNCHANGED <<baseVars, dra>>
<1> DEFINE me == req[r]
<1>1. /\ me \in LotRequest /\ req \in [LotRequests -> LotRequest]
      /\ lot \in [Lots -> Lot]
      /\ member \in [Lots -> [Holdings -> LotStatuses]]
    BY DEF DraftsTyped, TypeOK, DraftTypeOK
<1>2. NoRequest \in LotRequest
    BY DEF NoRequest, LotRequest, LotStatuses
<1>3. ASSUME NEW next \in LotRequest, RequestBecomes(r, next) PROVE req' \in [LotRequests -> LotRequest]
    BY <1>1, <1>3 DEF RequestBecomes
<1>4. ASSUME NEW S \in SUBSET Holdings, Propose(r, S)
      PROVE  req' \in [LotRequests -> LotRequest] /\ UNCHANGED <<baseVars, lotVars, dra>>
    <2>1. [NoRequest EXCEPT !.pc = "accept", !.status = "accepted", !.todo = S] \in LotRequest
        BY <1>2 DEF LotRequest, LotStatuses
    <2> QED
        BY <1>3, <1>4, <2>1 DEF Propose
<1>5. ASSUME NEW l \in Lots, AcceptLot(r, l)
      PROVE  /\ req' \in [LotRequests -> LotRequest]
             /\ lot' \in [Lots -> Lot]
             /\ UNCHANGED <<baseVars, member, dra>>
    <2>1. [req[r] EXCEPT !.pc = "member", !.lot = l] \in LotRequest
        BY <1>1 DEF LotRequest
    <2>2. [NoLot EXCEPT !.status = "accepted", !.priced = req[r].todo] \in Lot
        BY <1>1 DEF LotRequest, Lot, NoLot, LotStatuses
    <2> QED
        BY <1>1, <1>3, <1>5, <2>1, <2>2 DEF AcceptLot
<1>6. ASSUME NEW l \in Lots, FindLot(r, l)
      PROVE  req' \in [LotRequests -> LotRequest] /\ UNCHANGED <<baseVars, lotVars, dra>>
    <2> DEFINE whole == \A q \in LotRequests : ~Accepting(q, l)
               next == [pc |-> "reject", lot |-> l, status |-> "rejected",
                        todo |-> {h \in Holdings : member[l][h] # "none"}, whole |-> whole]
    <2>1. whole \in BOOLEAN
        OBVIOUS
    <2>2. RequestBecomes(r, next) /\ UNCHANGED <<baseVars, lotVars, dra>>
        BY <1>6 DEF FindLot
    <2> HIDE DEF whole
    <2>3. next \in LotRequest
        BY <2>1 DEF LotRequest, LotStatuses
    <2> QED
        BY <1>3, <2>2, <2>3
<1>7. \A l \in Lots, status \in LotStatuses, freed \in BOOLEAN :
         /\ [lot[l] EXCEPT !.status = status, !.freed = freed] \in Lot
         /\ [lot[l] EXCEPT !.freed = freed] \in Lot
    BY <1>1 DEF Lot
<1>8. ASSUME RejectLot(r)
      PROVE  /\ req' \in [LotRequests -> LotRequest]
             /\ lot' \in [Lots -> Lot]
             /\ UNCHANGED <<baseVars, member, dra>>
    <2>1. [req[r] EXCEPT !.pc = "member"] \in LotRequest
        BY <1>1 DEF LotRequest
    <2>2. PICK freed \in BOOLEAN :
             lot' = [lot EXCEPT ![me.lot].status = "rejected", ![me.lot].freed = freed]
        BY <1>8 DEF RejectLot
    <2>3. lot' \in [Lots -> Lot]
        BY <1>1, <1>7, <2>2 DEF LotStatuses
    <2> QED
        BY <1>2, <1>3, <1>8, <2>1, <2>3 DEF RejectLot
<1>9. ASSUME NEW h \in Holdings, WriteMember(r, h)
      PROVE  /\ req' \in [LotRequests -> LotRequest]
             /\ member' \in [Lots -> [Holdings -> LotStatuses]]
             /\ lot' \in [Lots -> Lot]
             /\ UNCHANGED <<baseVars, dra>>
    <2>1. [req[r] EXCEPT !.todo = req[r].todo \ {h}] \in LotRequest
        BY <1>1 DEF LotRequest
    <2>2. me.status \in LotStatuses
        BY <1>1 DEF LotRequest
    <2>3. [member EXCEPT ![me.lot][h] = me.status] \in [Lots -> [Holdings -> LotStatuses]]
        BY <1>1, <2>2
    <2>4. UNCHANGED lotVars \/ \E freed \in BOOLEAN : lot' = [lot EXCEPT ![me.lot].freed = freed]
        BY <1>9 DEF WriteMember
    <2>5. CASE \E freed \in BOOLEAN : lot' = [lot EXCEPT ![me.lot].freed = freed]
        <3>1. PICK freed \in BOOLEAN : lot' = [lot EXCEPT ![me.lot].freed = freed]
            BY <2>5
        <3>2. lot' \in [Lots -> Lot]
            BY <1>1, <1>7, <3>1
        <3> QED
            BY <1>1, <1>2, <1>3, <1>9, <2>1, <2>3, <3>2 DEF WriteMember, lotVars
    <2> QED
        BY <1>1, <1>2, <1>3, <1>9, <2>1, <2>3, <2>4, <2>5 DEF WriteMember, lotVars
<1>10. CASE LotDies(r)
    BY <1>1, <1>2, <1>3, <1>10
    DEF LotDies, DraftsTyped, DraftsHaveCopies, TypeOK, DraftTypeOK, BaseTypeOK, baseVars, lotVars
<1> QED
    BY <1>1, <1>4, <1>5, <1>6, <1>8, <1>9, <1>10
    DEF LotStep, DraftsTyped, DraftsHaveCopies, TypeOK, DraftTypeOK, BaseTypeOK, baseVars, lotVars

\* A lot that was stored and that nobody is accepting any more.
Quiet(l) ==
    /\ lot[l].status # "none"
    /\ \A q \in LotRequests : ~Accepting(q, l)

\* What is left of a lot's active memberships is what the request is yet to write.
LeftFor(r) ==
    LET l == req[r].lot
    IN  /\ req[r].status = "rejected" /\ Quiet(l)
        /\ \A h \in Holdings : member[l][h] \in ActiveLotStates => h \in req[r].todo

Freed(l) == Quiet(l) /\ \A h \in Holdings : member[l][h] \notin ActiveLotStates

LotsAgree ==
    /\ \A r \in LotRequests :
          /\ req[r].pc \in {"reject", "member"} => req[r].lot \in Lots
          /\ req[r].pc = "reject" => req[r].status = "rejected"
          /\ req[r].whole => req[r].pc \in {"reject", "member"} /\ LeftFor(r)
    /\ \A l \in Lots : lot[l].freed => Freed(l)

LEMMA QuietStays ==
    ASSUME DraftsTyped, LotsAgree, NEW r \in LotRequests, LotStep(r), NEW l \in Lots, Quiet(l)
    PROVE  /\ Quiet(l)'
           /\ \A h \in Holdings :
                 member'[l][h] \in ActiveLotStates => member[l][h] \in ActiveLotStates
<1> DEFINE me == req[r]
<1>1. /\ me \in LotRequest /\ req \in [LotRequests -> LotRequest]
      /\ lot \in [Lots -> Lot]
      /\ member \in [Lots -> [Holdings -> LotStatuses]]
    BY DEF DraftsTyped, TypeOK, DraftTypeOK
<1>2. me.pc \in {"reject", "member"} => me.lot \in Lots
    BY DEF LotsAgree
<1>3. lot'[l].status # "none"
    <2>1. CASE UNCHANGED lot
        BY <2>1 DEF Quiet
    <2>2. CASE \E k \in Lots : AcceptLot(r, k)
        <3>1. PICK k \in Lots : AcceptLot(r, k)
            BY <2>2
        <3>2. [NoLot EXCEPT !.status = "accepted", !.priced = req[r].todo].status = "accepted"
            BY DEF NoLot
        <3> QED
            BY <1>1, <3>1, <3>2 DEF AcceptLot, Quiet
    <2>3. CASE RejectLot(r)
        BY <1>1, <1>2, <2>3 DEF RejectLot, RequestAt, Quiet, Lot
    <2>4. CASE \E h \in Holdings : WriteMember(r, h)
        <3>1. \/ UNCHANGED lot
              \/ me.lot \in Lots /\ \E freed : lot' = [lot EXCEPT ![me.lot].freed = freed]
            BY <1>2, <2>4 DEF WriteMember, RequestAt, lotVars
        <3>2. \A freed : [lot[l] EXCEPT !.freed = freed].status = lot[l].status
            BY <1>1 DEF Lot
        <3>3. CASE me.lot \in Lots /\ \E freed : lot' = [lot EXCEPT ![me.lot].freed = freed]
            <4>1. PICK freed : lot' = [lot EXCEPT ![me.lot].freed = freed]
                BY <3>3
            <4>2. lot'[l] = IF l = me.lot THEN [lot[l] EXCEPT !.freed = freed] ELSE lot[l]
                BY <1>1, <4>1
            <4> QED
                BY <3>2, <4>2 DEF Quiet
        <3> QED
            BY <3>1, <3>3 DEF Quiet
    <2> QED
        BY <2>1, <2>2, <2>3, <2>4 DEF LotStep, Propose, FindLot, LotDies, lotVars
<1>4. ASSUME NEW q \in LotRequests PROVE ~Accepting(q, l)'
    <2>1. ~Accepting(q, l)
        BY DEF Quiet
    <2>2. CASE req'[q] = req[q]
        BY <2>1, <2>2 DEF Accepting, RequestAt
    <2>3. ASSUME NEW next, RequestBecomes(r, next), req'[q] # req[q] PROVE req'[q] = next /\ q = r
        BY <1>1, <2>3 DEF RequestBecomes
    <2>4. CASE \E S \in SUBSET Holdings : Propose(r, S)
        <3>1. PICK S \in SUBSET Holdings : Propose(r, S)
            BY <2>4
        <3>2. [NoRequest EXCEPT !.pc = "accept", !.status = "accepted", !.todo = S].pc = "accept"
            BY DEF NoRequest
        <3> QED
            BY <2>2, <2>3, <3>1, <3>2 DEF Propose, Accepting, RequestAt
    <2>5. CASE \E k \in Lots : AcceptLot(r, k)
        <3>1. PICK k \in Lots : AcceptLot(r, k)
            BY <2>5
        <3>2. [req[r] EXCEPT !.pc = "member", !.lot = k].lot = k /\ k # l
            BY <1>1, <3>1 DEF LotRequest, AcceptLot, Quiet
        <3> QED
            BY <2>2, <2>3, <3>1, <3>2 DEF AcceptLot, Accepting
    <2>6. CASE \E k \in Lots : FindLot(r, k)
        BY <2>2, <2>3, <2>6 DEF FindLot, Accepting, RequestAt
    <2>7. CASE RejectLot(r)
        <3>1. /\ NoRequest.pc = "idle" /\ me.status = "rejected"
              /\ [req[r] EXCEPT !.pc = "member"].status = me.status
            BY <1>1, <2>7 DEF NoRequest, LotRequest, RejectLot, RequestAt, LotsAgree
        <3> QED
            BY <2>2, <2>3, <2>7, <3>1 DEF RejectLot, Accepting, RequestAt
    <2>8. CASE \E h \in Holdings : WriteMember(r, h)
        <3>1. PICK h \in Holdings : WriteMember(r, h)
            BY <2>8
        <3> DEFINE next == [req[r] EXCEPT !.todo = req[r].todo \ {h}]
        <3>2. NoRequest.pc = "idle" /\ next.status = me.status /\ next.pc = me.pc /\ next.lot = me.lot
            BY <1>1 DEF NoRequest, LotRequest
        <3>3. RequestBecomes(r, NoRequest) \/ RequestBecomes(r, next)
            BY <3>1 DEF WriteMember
        <3> HIDE DEF next
        <3> QED
            BY <2>1, <2>2, <2>3, <3>2, <3>3 DEF Accepting, RequestAt
    <2>9. CASE LotDies(r)
        <3>1. NoRequest.pc = "idle"
            BY DEF NoRequest
        <3> QED
            BY <2>2, <2>3, <2>9, <3>1 DEF LotDies, Accepting, RequestAt
    <2> QED
        BY <2>4, <2>5, <2>6, <2>7, <2>8, <2>9 DEF LotStep
<1>5. ASSUME NEW h \in Holdings, member'[l][h] \in ActiveLotStates
      PROVE  member[l][h] \in ActiveLotStates
    <2>1. CASE UNCHANGED member
        BY <1>5, <2>1
    <2>2. CASE \E g \in Holdings : WriteMember(r, g) /\ ~UNCHANGED member
        <3>1. PICK g \in Holdings : WriteMember(r, g) /\ ~UNCHANGED member
            BY <2>2
        <3>2. member' = [member EXCEPT ![me.lot][g] = me.status] /\ me.pc = "member"
            BY <3>1 DEF WriteMember, RequestAt, lotVars
        <3>3. CASE me.lot = l /\ g = h
            <4>1. me.status = "accepted"
                BY <1>1, <1>5, <3>2, <3>3 DEF ActiveLotStates
            <4> QED
                BY <3>2, <3>3, <4>1 DEF Quiet, Accepting, RequestAt
        <3>4. CASE me.lot # l \/ g # h
            <4>1. member'[l][h] = member[l][h]
                BY <1>1, <1>2, <3>2, <3>4
            <4> QED
                BY <1>5, <4>1
        <3> QED
            BY <3>3, <3>4
    <2> QED
        BY <2>1, <2>2 DEF LotStep, Propose, AcceptLot, FindLot, RejectLot, LotDies, lotVars
<1> QED
    BY <1>3, <1>4, <1>5 DEF Quiet

LEMMA LotStepAgrees ==
    ASSUME DraftsTyped, LotsAgree, NEW r \in LotRequests, LotStep(r)
    PROVE  LotsAgree'
<1> DEFINE me == req[r]
           Right(q) == /\ req[q].pc \in {"reject", "member"} => req[q].lot \in Lots
                       /\ req[q].pc = "reject" => req[q].status = "rejected"
                       /\ req[q].whole => req[q].pc \in {"reject", "member"} /\ LeftFor(q)
<1>1. /\ me \in LotRequest /\ req \in [LotRequests -> LotRequest]
      /\ lot \in [Lots -> Lot]
      /\ member \in [Lots -> [Holdings -> LotStatuses]]
    BY DEF DraftsTyped, TypeOK, DraftTypeOK
<1>2. /\ \A q \in LotRequests : Right(q)
      /\ \A l \in Lots : lot[l].freed => Freed(l)
    BY DEF LotsAgree
<1>3. \A l \in Lots : Quiet(l) =>
         /\ Quiet(l)'
         /\ \A h \in Holdings :
               member'[l][h] \in ActiveLotStates => member[l][h] \in ActiveLotStates
    BY QuietStays
<1>4. NoRequest.pc = "idle" /\ ~NoRequest.whole
    BY DEF NoRequest
<1>5. ASSUME NEW next, RequestBecomes(r, next)
      PROVE  req'[r] = next /\ \A q \in LotRequests \ {r} : req'[q] = req[q]
    BY <1>1, <1>5 DEF RequestBecomes
<1>6. \A q \in LotRequests : req'[q] = req[q] => Right(q)'
    BY <1>2, <1>3 DEF LeftFor
<1>7. \A l \in Lots : lot[l].freed => Freed(l)'
    BY <1>2, <1>3 DEF Freed
<1>8. ASSUME Right(r)', \E next : RequestBecomes(r, next),
             \A l \in Lots : lot'[l].freed => lot[l].freed \/ Freed(l)'
      PROVE  LotsAgree'
    <2>1. \A q \in LotRequests : Right(q)'
        BY <1>5, <1>6, <1>8
    <2> QED
        BY <1>7, <1>8, <2>1 DEF LotsAgree
<1>9. ASSUME RequestBecomes(r, NoRequest) PROVE Right(r)'
    BY <1>4, <1>5, <1>9
<1>10. CASE \E S \in SUBSET Holdings : Propose(r, S)
    <2>1. PICK S \in SUBSET Holdings : Propose(r, S)
        BY <1>10
    <2> DEFINE next == [NoRequest EXCEPT !.pc = "accept", !.status = "accepted", !.todo = S]
    <2>2. next.pc = "accept" /\ ~next.whole
        BY DEF NoRequest
    <2>3. RequestBecomes(r, next) /\ UNCHANGED lotVars
        BY <2>1 DEF Propose
    <2> HIDE DEF next
    <2> QED
        BY <1>5, <1>8, <2>2, <2>3 DEF lotVars
<1>11. CASE \E l \in Lots : AcceptLot(r, l)
    <2>1. PICK l \in Lots : AcceptLot(r, l)
        BY <1>11
    <2> DEFINE next == [req[r] EXCEPT !.pc = "member", !.lot = l]
               new == [NoLot EXCEPT !.status = "accepted", !.priced = req[r].todo]
    <2>2. next.pc = "member" /\ next.lot = l /\ next.whole = me.whole /\ ~new.freed
        BY <1>1 DEF LotRequest, NoLot
    <2>3. RequestBecomes(r, next) /\ lot' = [lot EXCEPT ![l] = new] /\ me.pc = "accept"
        BY <2>1 DEF AcceptLot, RequestAt
    <2>4. ~me.whole
        BY <1>2, <2>3
    <2> HIDE DEF next, new
    <2> QED
        BY <1>1, <1>5, <1>8, <2>2, <2>3, <2>4
<1>12. CASE \E l \in Lots : FindLot(r, l)
    <2>1. PICK l \in Lots : FindLot(r, l)
        BY <1>12
    <2> DEFINE whole == \A q \in LotRequests : ~Accepting(q, l)
               todo == {h \in Holdings : member[l][h] # "none"}
               next == [pc |-> "reject", lot |-> l, status |-> "rejected", todo |-> todo,
                        whole |-> whole]
    <2>2. /\ next.pc = "reject" /\ next.lot = l /\ next.status = "rejected"
          /\ next.todo = todo /\ next.whole = whole
        OBVIOUS
    <2>3. RequestBecomes(r, next) /\ UNCHANGED lotVars /\ lot[l].status # "none"
        BY <2>1 DEF FindLot
    <2>4. whole => Quiet(l)
        BY <2>3 DEF Quiet
    <2>5. \A h \in Holdings : member[l][h] \in ActiveLotStates => h \in todo
        BY DEF ActiveLotStates
    <2> HIDE DEF next, todo, whole
    <2>6. req'[r] = next
        BY <1>5, <2>3
    <2>7. whole => LeftFor(r)'
        BY <1>3, <2>2, <2>4, <2>5, <2>6 DEF LeftFor
    <2> QED
        BY <1>8, <2>2, <2>3, <2>6, <2>7 DEF lotVars
<1>13. CASE RejectLot(r)
    <2> DEFINE next == [req[r] EXCEPT !.pc = "member"]
    <2>1. /\ next.pc = "member" /\ next.lot = me.lot /\ next.status = me.status
          /\ next.todo = me.todo /\ next.whole = me.whole
        BY <1>1 DEF LotRequest
    <2>2. /\ me.pc = "reject" /\ me.lot \in Lots /\ UNCHANGED member
          /\ RequestBecomes(r, IF me.todo = {} THEN NoRequest ELSE next)
          /\ lot' = [lot EXCEPT ![me.lot].status = "rejected",
                                ![me.lot].freed = @ \/ (me.todo = {} /\ me.whole)]
        BY <1>2, <1>13 DEF RejectLot, RequestAt
    <2> HIDE DEF next
    <2>a. PICK k \in Lots : k = me.lot
        BY <2>2
    <2>3. me.whole => /\ me.status = "rejected" /\ Quiet(k)'
                      /\ \A h \in Holdings :
                            member'[me.lot][h] \in ActiveLotStates => h \in me.todo
        <3>1. ASSUME me.whole
              PROVE  /\ me.status = "rejected" /\ Quiet(me.lot)
                     /\ \A h \in Holdings :
                           member[me.lot][h] \in ActiveLotStates => h \in me.todo
            BY <1>2, <3>1 DEF LeftFor
        <3> QED
            BY <1>3, <2>2, <2>a, <3>1
    <2>4. Right(r)'
        <3>1. CASE me.todo = {}
            BY <1>9, <2>2, <3>1
        <3>2. CASE me.todo # {}
            <4>1. req'[r] = next
                BY <1>5, <2>2, <3>2
            <4> QED
                BY <2>1, <2>2, <2>a, <2>3, <4>1 DEF LeftFor
        <3> QED
            BY <3>1, <3>2
    <2>5. ASSUME NEW l \in Lots, lot'[l].freed PROVE lot[l].freed \/ Freed(l)'
        <3>1. lot[l].freed \/ (l = me.lot /\ me.todo = {} /\ me.whole)
            <4>1. CASE l # me.lot
                BY <1>1, <2>2, <2>5, <4>1
            <4>2. CASE l = me.lot
                <5>1. lot'[l].freed = (lot[l].freed \/ (me.todo = {} /\ me.whole))
                    BY <1>1, <2>2, <4>2 DEF Lot
                <5> QED
                    BY <2>5, <4>2, <5>1
            <4> QED
                BY <4>1, <4>2
        <3> QED
            BY <2>2, <2>a, <2>3, <3>1 DEF Freed
    <2> QED
        BY <1>8, <2>2, <2>4, <2>5
<1>14. CASE \E h \in Holdings : WriteMember(r, h)
    <2>1. PICK h \in Holdings : WriteMember(r, h)
        BY <1>14
    <2> DEFINE todo == req[r].todo \ {h}
               next == [req[r] EXCEPT !.todo = todo]
    <2>2. /\ next.pc = me.pc /\ next.lot = me.lot /\ next.status = me.status
          /\ next.todo = todo /\ next.whole = me.whole
        BY <1>1 DEF LotRequest
    <2>3. me.pc = "member" /\ me.lot \in Lots
        BY <1>2, <2>1 DEF WriteMember, RequestAt
    <2>4. CASE RequestBecomes(r, NoRequest) /\ UNCHANGED lotVars
        BY <1>8, <1>9, <2>4 DEF lotVars
    <2>5. CASE /\ RequestBecomes(r, IF todo = {} THEN NoRequest ELSE next)
               /\ member' = [member EXCEPT ![me.lot][h] = me.status]
               /\ lot' = [lot EXCEPT ![me.lot].freed = @ \/ (todo = {} /\ me.whole)]
        <3> HIDE DEF next
        <3>1. member'[me.lot][h] = me.status
            BY <1>1, <2>3, <2>5
        <3>a. PICK k \in Lots : k = me.lot
            BY <2>3
        <3>2. me.whole => /\ me.status = "rejected" /\ Quiet(k)'
                          /\ \A g \in Holdings :
                                member'[me.lot][g] \in ActiveLotStates => g \in todo
            <4>1. ASSUME me.whole
                  PROVE  /\ me.status = "rejected" /\ Quiet(me.lot)
                         /\ \A g \in Holdings :
                               member[me.lot][g] \in ActiveLotStates => g \in me.todo
                BY <1>2, <4>1 DEF LeftFor
            <4>2. ASSUME me.whole PROVE member'[me.lot][h] \notin ActiveLotStates
                BY <3>1, <4>1, <4>2 DEF ActiveLotStates
            <4> QED
                BY <1>3, <3>a, <4>1, <4>2
        <3> HIDE DEF todo
        <3>3. Right(r)'
            <4>1. CASE todo = {}
                BY <1>9, <2>5, <4>1
            <4>2. CASE todo # {}
                <5>1. req'[r] = next
                    BY <1>5, <2>5, <4>2
                <5> QED
                    BY <2>2, <2>3, <3>a, <3>2, <5>1 DEF LeftFor
            <4> QED
                BY <4>1, <4>2
        <3>4. ASSUME NEW l \in Lots, lot'[l].freed PROVE lot[l].freed \/ Freed(l)'
            <4>1. lot[l].freed \/ (l = me.lot /\ todo = {} /\ me.whole)
                <5>1. CASE l # me.lot
                    BY <1>1, <2>5, <3>4, <5>1
                <5>2. CASE l = me.lot
                    <6>1. lot'[l].freed = (lot[l].freed \/ (todo = {} /\ me.whole))
                        BY <1>1, <2>5, <5>2 DEF Lot
                    <6> QED
                        BY <3>4, <5>2, <6>1
                <5> QED
                    BY <5>1, <5>2
            <4> QED
                BY <3>a, <3>2, <4>1 DEF Freed
        <3> QED
            BY <1>8, <2>5, <3>3, <3>4
    <2> QED
        BY <2>1, <2>4, <2>5 DEF WriteMember
<1>15. CASE LotDies(r)
    BY <1>8, <1>9, <1>15 DEF LotDies, lotVars
<1> QED
    BY <1>10, <1>11, <1>12, <1>13, <1>14, <1>15 DEF LotStep

-----------------------------------------------------------------------------
(* The theorems on drafts and lots                                         *)

IInv ==
    /\ DraftsTyped
    /\ DraftsCarryIds
    /\ LotsAgree

LEMMA EmptyDesk ==
    ASSUME DraftInit
    PROVE  DraftTypeOK /\ DraftsHaveCopies /\ DraftsCarryIds /\ LotsAgree
<1> USE DEF DraftInit
<1>1. NoRequest \in LotRequest
    BY DEF NoRequest, LotRequest, LotStatuses
<1>2. DraftTypeOK
    BY <1>1, DraftRecords DEF DraftTypeOK, LotStatuses, Lot, NoLot
<1>3. DraftsHaveCopies /\ DraftsCarryIds
    BY DEF DraftsHaveCopies, DraftsCarryIds, NoDraft
<1>4. LotsAgree
    BY DEF LotsAgree, NoRequest, NoLot
<1> QED
    BY <1>2, <1>3, <1>4

LEMMA InitInv == Init => IInv
<1> SUFFICES ASSUME Init PROVE IInv
    OBVIOUS
<1> USE DEF Init
<1>1. BaseTypeOK
    <2>1. MaxListings \in Nat /\ MaxListings > 0
        BY BoundsAreNat
    <2>2. issued \in [Holdings -> 0..MaxListings]
        BY <2>1
    <2>3. \A h \in Holdings : [status |-> IF Live(h) THEN "ACTIVE" ELSE "ENDED",
                               offerId |-> TRUE, listingId |-> 1] \in Row
        <3>1. {"ACTIVE", "ENDED"} \subseteq Statuses
            BY DEF Statuses, ActiveStatuses
        <3> QED
            BY <2>1, <3>1 DEF Row
    <2>4. row \in [Holdings -> Row]
        BY <2>3, DraftRows
    <2> QED
        BY <2>2, <2>4 DEF BaseTypeOK, OfferStates, SalesPaths
<1> QED
    BY <1>1, EmptyDesk DEF IInv, DraftsTyped, TypeOK

LEMMA NextInv == IInv /\ [Next]_vars => IInv'
<1> SUFFICES ASSUME IInv, [Next]_vars PROVE IInv'
    OBVIOUS
<1>1. CASE \E d \in Drafters : DraftStep(d)
    <2>1. PICK d \in Drafters : DraftStep(d)
        BY <1>1
    <2>2. UNCHANGED <<lotVars, req>>
        BY <2>1, DraftStepMoves DEF IInv, DraftMoves
    <2>3. LotsAgree => LotsAgree'
        BY <2>2 DEF LotsAgree, LeftFor, Freed, Quiet, Accepting, RequestAt, lotVars
    <2> QED
        BY <2>1, <2>3, DraftStepTyped, DraftStepCarries DEF IInv
<1>2. CASE \E r \in LotRequests : LotStep(r)
    <2>1. PICK r \in LotRequests : LotStep(r)
        BY <1>2
    <2>2. DraftsTyped' /\ UNCHANGED <<baseVars, dra>>
        BY <2>1, LotStepTyped DEF IInv
    <2>3. DraftsCarryIds'
        BY <2>2 DEF IInv, DraftsCarryIds, SameIds, baseVars
    <2> QED
        BY <2>1, <2>2, <2>3, LotStepAgrees DEF IInv
<1>3. CASE UNCHANGED vars
    BY <1>3
    DEF vars, baseVars, lotVars, IInv, DraftsTyped, DraftsHaveCopies, DraftsCarryIds, SameIds,
        TypeOK, BaseTypeOK, DraftTypeOK, LotsAgree, LeftFor, Freed, Quiet, Accepting, RequestAt
<1> QED
    BY <1>1, <1>2, <1>3 DEF Next

LEMMA Invariance == Spec => []IInv
<1> QED
    BY InitInv, NextInv, PTL DEF Spec

\* Drafts, lots and the requests on them stay well-typed.
THEOREM DraftTypeCorrect == Spec => []TypeOK
<1>1. IInv => TypeOK
    BY DEF IInv, DraftsTyped
<1> QED
    BY <1>1, Invariance, PTL

\* However many drafts of one copy run at once, the row keeps the external ids
\* that a later publish reuses.
THEOREM RedraftKeepsIds == Spec => DraftKeepsIds
<1> DEFINE Keeps(h) == row[h].offerId => row'[h].offerId /\ row'[h].listingId = row[h].listingId
<1>1. IInv /\ [Next]_vars => [\A h \in Holdings : Keeps(h)]_vars
    <2> SUFFICES ASSUME IInv, Next PROVE \A h \in Holdings : Keeps(h)
        OBVIOUS
    <2>1. CASE \E d \in Drafters : DraftStep(d)
        BY <2>1, DraftStepCarries DEF IInv, SameIds
    <2>2. CASE \E r \in LotRequests : LotStep(r)
        BY <2>2, LotStepTyped DEF IInv, baseVars
    <2> QED
        BY <2>1, <2>2 DEF Next
<1> QED
    BY <1>1, Invariance, PTL DEF Spec, DraftKeepsIds

\* However requests on lots interleave and wherever they die, a rejection that
\* was answered leaves no copy locked, if nobody was accepting the lot when it began.
THEOREM RejectionFrees == Spec => []AnsweredRejectionFrees
<1>1. IInv => AnsweredRejectionFrees
    BY DEF IInv, LotsAgree, Freed, AnsweredRejectionFrees
<1> QED
    BY <1>1, Invariance, PTL

-----------------------------------------------------------------------------
(* Sync                                                                    *)

\* What GET /offer makes of a row that was read, when it answers or fails.
Answers(h, r) ==
    {r} \cup {[r EXCEPT !.status = status,
                        !.listingId = IF ListingIdFromOffer(h) # 0
                                      THEN ListingIdFromOffer(h) ELSE @] :
                 status \in StatusesFromOffer(h, r.status)}

ToSync == {h \in Holdings : row[h].offerId /\ row[h].status # "SOLD"}

\* What a sync has in hand after a step, beside what it had.
Syncs(q, next) ==
    \/ next.pc = "idle"
    \/ next.pc = "ask" /\ next.seen = row /\ next.todo = ToSync /\ UNCHANGED row
    \/ next.pc = "ask" /\ next.seen = q.seen /\ next.todo = q.todo /\ q.pc = "write"
    \/ /\ next.pc = "write" /\ next.seen = q.seen /\ q.pc = "ask"
       /\ next.h \in q.todo /\ next.todo = q.todo \ {next.h}
       /\ next.next \in Answers(next.h, q.seen[next.h])
       /\ UNCHANGED row

StoresAnswer(s) ==
    syn[s].pc = "write" /\ UpsertListing(syn[s].h, syn[s].next)

SyncMoves(s) ==
    /\ \E next \in Call : Becomes(s, next) /\ Syncs(syn[s], next)
    /\ UNCHANGED <<ebayVars, path, disp>>
    /\ UNCHANGED row \/ StoresAnswer(s)

SyncStep(s) ==
    \/ List(s) \/ WriteBack(s) \/ Crash(s)
    \/ \E h \in Holdings : AskAnswered(s, h) \/ AskFailed(s, h)

LEMMA SyncRecords ==
    /\ NoRow \in Row
    /\ Idle \in Call /\ Idle.pc = "idle"
<1>1. 0 \in 0..MaxListings
    BY BoundsAreNat
<1>2. "NONE" \in Statuses
    BY DEF Statuses
<1>3. NoRow \in Row
    BY <1>1, <1>2 DEF NoRow, Row
<1> QED
    BY <1>3 DEF Idle, Call

\* What eBay answers makes a row of a row.
LEMMA AnswersTyped ==
    ASSUME BaseTypeOK, NEW h \in Holdings, NEW r \in Row, NEW a \in Answers(h, r)
    PROVE  a \in Row
<1>1. \A status \in StatusesFromOffer(h, r.status) : status \in Statuses
    BY DEF StatusesFromOffer, Row, Statuses, ActiveStatuses
<1>2. ListingIdFromOffer(h) \in 0..MaxListings
    BY BoundsAreNat DEF ListingIdFromOffer, BaseTypeOK
<1>3. \A status \in Statuses, id \in 0..MaxListings :
         [r EXCEPT !.status = status, !.listingId = id] \in Row
    BY DEF Row
<1>4. r.listingId \in 0..MaxListings
    BY DEF Row
<1>5. ASSUME a # r PROVE a \in Row
    <2> DEFINE shown == ListingIdFromOffer(h)
               id == IF shown # 0 THEN shown ELSE r.listingId
    <2>1. PICK status \in StatusesFromOffer(h, r.status) :
             a = [r EXCEPT !.status = status, !.listingId = id]
        BY <1>5 DEF Answers
    <2>2. id \in 0..MaxListings /\ status \in Statuses
        BY <1>1, <1>2, <1>4
    <2> HIDE DEF id
    <2> QED
        BY <1>3, <2>1, <2>2
<1> QED
    BY <1>5

LEMMA SyncStepMoves ==
    ASSUME SyncTypeOK, NEW s \in Syncers, SyncStep(s)
    PROVE  SyncMoves(s)
<1> DEFINE me == syn[s]
<1>1. /\ me \in Call /\ row \in [Holdings -> Row]
      /\ BaseTypeOK
    BY DEF SyncTypeOK, BaseTypeOK
<1>2. ASSUME NEW next \in Call, Becomes(s, next), UNCHANGED baseVars,
             Syncs(me, next)
      PROVE  SyncMoves(s)
    BY <1>2 DEF SyncMoves, baseVars, ebayVars
<1>3. CASE List(s)
    <2> DEFINE next == [Idle EXCEPT !.pc = "ask", !.seen = row, !.todo = ToSync]
    <2>1. ToSync \in SUBSET Holdings
        BY DEF ToSync
    <2>2. next \in Call
        BY <1>1, <2>1, SyncRecords DEF Call
    <2>3. next.pc = "ask" /\ next.seen = row /\ next.todo = ToSync
        BY SyncRecords DEF Call
    <2>4. Becomes(s, next) /\ UNCHANGED baseVars
        BY <1>3 DEF List, ToSync
    <2>5. Syncs(me, next)
        BY <2>3, <2>4 DEF Syncs, baseVars
    <2> HIDE DEF next
    <2> QED
        BY <1>2, <2>2, <2>4, <2>5
<1>4. CASE Crash(s)
    <2>1. Idle \in Call /\ Syncs(me, Idle)
        BY SyncRecords DEF Syncs
    <2> QED
        BY <1>2, <1>4, <2>1 DEF Crash
<1>5. ASSUME NEW h \in Holdings, NEW a \in Answers(h, me.seen[h]), h \in me.todo, me.pc = "ask",
             Writes(s, h, a), UNCHANGED baseVars
      PROVE  SyncMoves(s)
    <2> DEFINE next == [syn[s] EXCEPT !.pc = "write", !.h = h, !.todo = syn[s].todo \ {h}, !.next = a]
    <2>1. a \in Row
        BY <1>1, <1>5, AnswersTyped DEF Call
    <2>2. next \in Call
        BY <1>1, <1>5, <2>1 DEF Call
    <2>3. /\ next.pc = "write" /\ next.seen = me.seen /\ next.h = h
          /\ next.todo = me.todo \ {h} /\ next.next = a
        BY <1>1 DEF Call
    <2>4. Becomes(s, next)
        BY <1>5 DEF Writes
    <2> HIDE DEF next
    <2>5. Syncs(me, next)
        BY <1>5, <2>3 DEF Syncs, baseVars
    <2> QED
        BY <1>2, <1>5, <2>2, <2>4, <2>5
<1>6. CASE \E h \in Holdings : AskAnswered(s, h)
    <2>1. PICK h \in Holdings : AskAnswered(s, h)
        BY <1>6
    <2>2. PICK status \in StatusesFromOffer(h, me.seen[h].status) :
             Writes(s, h, [me.seen[h] EXCEPT
                 !.status = status,
                 !.listingId = IF ListingIdFromOffer(h) # 0
                               THEN ListingIdFromOffer(h) ELSE @])
        BY <2>1 DEF AskAnswered
    <2>3. [me.seen[h] EXCEPT
                 !.status = status,
                 !.listingId = IF ListingIdFromOffer(h) # 0
                               THEN ListingIdFromOffer(h) ELSE @] \in Answers(h, me.seen[h])
        BY DEF Answers
    <2>4. h \in me.todo /\ me.pc = "ask" /\ UNCHANGED baseVars
        BY <2>1 DEF AskAnswered, At
    <2> QED
        BY <1>5, <2>2, <2>3, <2>4
<1>7. CASE \E h \in Holdings : AskFailed(s, h)
    BY <1>5, <1>7 DEF AskFailed, At, Answers
<1>8. CASE WriteBack(s)
    <2> DEFINE next == [syn[s] EXCEPT !.pc = "ask", !.h = None, !.next = NoRow]
    <2>1. next \in Call
        BY <1>1, SyncRecords DEF Call
    <2>2. next.pc = "ask" /\ next.seen = me.seen /\ next.todo = me.todo
        BY <1>1 DEF Call
    <2>3. /\ Becomes(s, IF me.todo = {} THEN Idle ELSE next)
          /\ me.pc = "write" /\ UNCHANGED <<ebayVars, path, disp>> /\ StoresAnswer(s)
        BY <1>8 DEF WriteBack, At, StoresAnswer
    <2> HIDE DEF next
    <2>4. Syncs(me, next) /\ Syncs(me, Idle)
        BY <2>2, <2>3, SyncRecords DEF Syncs
    <2> QED
        BY <2>1, <2>3, <2>4, SyncRecords DEF SyncMoves
<1> QED
    BY <1>3, <1>4, <1>6, <1>7, <1>8 DEF SyncStep

LEMMA SyncStepTyped ==
    ASSUME SyncTypeOK, NEW s \in Syncers, SyncStep(s)
    PROVE  SyncTypeOK'
<1>1. /\ syn \in [Syncers -> Call] /\ row \in [Holdings -> Row]
      /\ \A t \in Syncers : syn[t].pc = "write" => syn[t].h \in Holdings
    BY DEF SyncTypeOK, BaseTypeOK
<1>2. SyncMoves(s)
    BY SyncStepMoves
<1>3. PICK next \in Call : Becomes(s, next) /\ Syncs(syn[s], next)
    BY <1>2 DEF SyncMoves
<1>4. /\ syn' \in [Syncers -> Call]
      /\ \A t \in Syncers : syn'[t].pc = "write" => syn'[t].h \in Holdings
    BY <1>1, <1>3 DEF Becomes, Syncs, Call
<1>5. row' \in [Holdings -> Row]
    <2>1. syn[s].next \in Row
        BY <1>1 DEF Call
    <2> QED
        BY <1>1, <1>2, <2>1 DEF SyncMoves, StoresAnswer, UpsertListing
<1> QED
    BY <1>2, <1>4, <1>5 DEF SyncMoves, SyncTypeOK, BaseTypeOK, ebayVars

-----------------------------------------------------------------------------
(* The theorems on sync                                                    *)

\* What a row may say: no id that eBay has not issued, and of a listing that is
\* over not the id of one that is live.
Renewed(h, r) == r.status = "ENDED" /\ Live(h) => issued[h] > r.listingId

Past(h, r) == Renewed(h, r) /\ r.listingId <= issued[h]

\* The rows, those a call has read and the one it is about to write; and what the
\* latter makes of the one that was read.
SyncAgrees ==
    /\ \A h \in Holdings : Past(h, row[h])
    /\ \A s \in Syncers :
          /\ syn[s].pc # "idle" => \A h \in Holdings : Past(h, syn[s].seen[h])
          /\ syn[s].pc = "write" =>
                LET h == syn[s].h
                    seen == syn[s].seen[h]
                    next == syn[s].next
                IN  /\ Past(h, next)
                    /\ seen.status = "ENDED" /\ next.status \in ListedStatuses =>
                          next.listingId > seen.listingId

SyncInv == SyncTypeOK /\ SyncAgrees

LEMMA SyncInitInv == SyncInit => SyncInv
<1> SUFFICES ASSUME SyncInit PROVE SyncInv
    OBVIOUS
<1> USE DEF SyncInit
<1>1. MaxListings \in Nat /\ MaxListings > 0 /\ 0 \in 0..MaxListings /\ 1 \in 0..MaxListings
    BY BoundsAreNat
<1>2. \A h \in Holdings : row[h] \in Row /\ row[h].status # "ENDED" /\ row[h].listingId <= 1
    <2>1. {"PUBLISHED", "EBAY_OFFER_CREATED"} \subseteq Statuses
        BY DEF Statuses, ActiveStatuses
    <2>2. \A status \in {"PUBLISHED", "EBAY_OFFER_CREATED"}, id \in {0, 1} :
             [status |-> status, offerId |-> TRUE, listingId |-> id] \in Row
        BY <1>1, <2>1 DEF Row
    <2> SUFFICES ASSUME NEW h \in Holdings
                 PROVE  row[h] \in Row /\ row[h].status # "ENDED" /\ row[h].listingId <= 1
        OBVIOUS
    <2>3. \/ row[h] = [status |-> "PUBLISHED", offerId |-> TRUE, listingId |-> 1]
          \/ row[h] = [status |-> "EBAY_OFFER_CREATED", offerId |-> TRUE, listingId |-> 0]
        OBVIOUS
    <2>4. /\ row[h].status \in {"PUBLISHED", "EBAY_OFFER_CREATED"}
          /\ row[h].listingId \in {0, 1}
        BY <2>3
    <2>5. row[h] \in Row
        BY <2>2, <2>3
    <2> QED
        BY <2>4, <2>5
<1>3. BaseTypeOK
    BY <1>1, <1>2
    DEF BaseTypeOK, OfferStates, SalesPaths, Dispositions
<1>4. SyncTypeOK
    BY <1>3, SyncRecords DEF SyncTypeOK
<1>5. SyncAgrees
    BY <1>2, SyncRecords DEF SyncAgrees, Past, Renewed
<1> QED
    BY <1>4, <1>5 DEF SyncInv

\* The row an answer makes is no older than eBay, and what was ended comes back
\* only with a newer id.
LEMMA AnswersRenew ==
    ASSUME BaseTypeOK, NEW h \in Holdings, NEW r \in Row, NEW a \in Answers(h, r),
           Past(h, r)
    PROVE  /\ Past(h, a)
           /\ r.status = "ENDED" /\ a.status \in ListedStatuses => a.listingId > r.listingId
<1>1. issued[h] \in Nat /\ r.listingId \in Nat
    BY BoundsAreNat DEF BaseTypeOK, Row
<1>2. CASE a = r
    BY <1>2 DEF ListedStatuses
<1>3. CASE a # r
    <2> DEFINE shown == ListingIdFromOffer(h)
               id == IF shown # 0 THEN shown ELSE r.listingId
    <2>1. PICK status \in StatusesFromOffer(h, r.status) :
             a = [r EXCEPT !.status = status, !.listingId = id]
        BY <1>3 DEF Answers
    <2>2. a.status = status /\ a.listingId = id
        BY <2>1 DEF Row
    <2>3. id <= issued[h]
        BY <1>1 DEF Past, ListingIdFromOffer
    <2>4. CASE Live(h)
        <3>1. status \in {"ACTIVE", "PUBLISHED"}
            BY <2>1, <2>4 DEF StatusesFromOffer
        <3>2. r.status = "ENDED" => id > r.listingId
            BY <1>1, <2>4 DEF Past, Renewed, Live, ListingIdFromOffer
        <3> HIDE DEF id
        <3> QED
            BY <2>2, <2>3, <3>1, <3>2 DEF Past, Renewed
    <2>5. CASE ~Live(h)
        <3>1. r.status = "ENDED" => status \notin ListedStatuses
            BY <2>1, <2>5 DEF StatusesFromOffer, ListedStatuses
        <3> HIDE DEF id
        <3> QED
            BY <2>2, <2>3, <2>5, <3>1 DEF Past, Renewed
    <2> QED
        BY <2>4, <2>5
<1> QED
    BY <1>2, <1>3

LEMMA SyncStepAgrees ==
    ASSUME SyncTypeOK, SyncAgrees, NEW s \in Syncers, SyncStep(s)
    PROVE  /\ SyncAgrees'
           /\ \A h \in Holdings :
                 row[h].status = "ENDED" /\ row'[h].status \in ListedStatuses =>
                     \/ row'[h].listingId > row[h].listingId
                     \/ syn[s].h = h /\ Overtaken(s)
<1> DEFINE me == syn[s]
           Right(q) == /\ q.pc # "idle" => \A h \in Holdings : Past(h, q.seen[h])
                       /\ q.pc = "write" =>
                             /\ Past(q.h, q.next)
                             /\ q.seen[q.h].status = "ENDED" /\ q.next.status \in ListedStatuses =>
                                   q.next.listingId > q.seen[q.h].listingId
<1>1. /\ syn \in [Syncers -> Call] /\ row \in [Holdings -> Row]
      /\ me \in Call /\ BaseTypeOK
      /\ me.pc = "write" => me.h \in Holdings
    BY DEF SyncTypeOK, BaseTypeOK
<1>2. \A t \in Syncers : Right(syn[t])
    BY DEF SyncAgrees
<1>3. SyncMoves(s)
    BY SyncStepMoves
<1>4. PICK next \in Call : Becomes(s, next) /\ Syncs(me, next)
    BY <1>3 DEF SyncMoves
<1>5. syn'[s] = next /\ \A t \in Syncers \ {s} : syn'[t] = syn[t]
    BY <1>1, <1>4 DEF Becomes
<1>6. \A r : \A h \in Holdings : Past(h, r)' <=> Past(h, r)
    BY <1>3 DEF SyncMoves, Past, Renewed, Live, ebayVars
<1>7. ASSUME NEW q \in Call, Right(q), q.pc = "write" => q.h \in Holdings PROVE Right(q)'
    BY <1>6, <1>7
<1>8. \A h \in Holdings : Past(h, row[h])
    BY DEF SyncAgrees
<1>9. Right(next) /\ (next.pc = "write" => next.h \in Holdings)
    <2>1. CASE next.pc = "idle"
        BY <2>1
    <2>2. CASE next.pc = "ask"
        BY <1>2, <1>4, <1>8, <2>2 DEF Syncs
    <2>3. CASE next.pc = "write"
        <3>1. /\ next.h \in me.todo /\ me.pc = "ask" /\ next.seen = me.seen
              /\ next.next \in Answers(next.h, me.seen[next.h])
            BY <1>4, <2>3 DEF Syncs
        <3>2. next.h \in Holdings /\ me.seen[next.h] \in Row
            BY <1>1, <3>1 DEF Call
        <3>3. \A h \in Holdings : Past(h, me.seen[h])
            BY <1>2, <3>1
        <3> QED
            BY <1>1, <2>3, <3>1, <3>2, <3>3, AnswersRenew
    <2> QED
        BY <2>1, <2>2, <2>3 DEF Call
<1>10. ASSUME NEW t \in Syncers PROVE Right(syn[t])'
    <2>1. PICK q \in Call : q = syn'[t] /\ Right(q) /\ (q.pc = "write" => q.h \in Holdings)
        <3>1. CASE t = s
            BY <1>5, <1>9, <3>1
        <3>2. CASE t # s
            <4>1. syn'[t] = syn[t] /\ syn[t] \in Call /\ Right(syn[t])
                BY <1>1, <1>2, <1>5, <3>2
            <4>2. syn[t].pc = "write" => syn[t].h \in Holdings
                BY DEF SyncTypeOK
            <4> HIDE DEF Right
            <4> QED
                BY <4>1, <4>2
        <3> QED
            BY <3>1, <3>2
    <2>2. Right(q)'
        BY <1>7, <2>1
    <2> QED
        BY <2>1, <2>2
<1>11. CASE UNCHANGED row
    <2>1. \A h \in Holdings : Past(h, row[h])'
        BY <1>6, <1>8, <1>11
    <2>2. \A h \in Holdings : ~(row[h].status = "ENDED" /\ row[h].status \in ListedStatuses)
        BY DEF ListedStatuses
    <2>3. SyncAgrees'
        BY <1>10, <2>1 DEF SyncAgrees
    <2> QED
        BY <1>11, <2>2, <2>3
<1>12. CASE StoresAnswer(s)
    <2>1. /\ me.pc = "write" /\ me.h \in Holdings
          /\ row' = [row EXCEPT ![me.h] = me.next]
        BY <1>1, <1>12 DEF StoresAnswer, UpsertListing
    <2>2. row'[me.h] = me.next /\ \A h \in Holdings \ {me.h} : row'[h] = row[h]
        BY <1>1, <2>1
    <2>3. Right(me)
        BY <1>2
    <2>4. \A h \in Holdings : Past(h, row'[h])
        BY <1>8, <2>1, <2>2, <2>3
    <2>5. \A h \in Holdings : Past(h, row[h])'
        BY <1>3, <2>4 DEF SyncMoves, Past, Renewed, Live, ebayVars
    <2>6. ASSUME NEW h \in Holdings, row[h].status = "ENDED", row'[h].status \in ListedStatuses
          PROVE  row'[h].listingId > row[h].listingId \/ (me.h = h /\ Overtaken(s))
        <3>1. h = me.h
            BY <2>2, <2>6 DEF ListedStatuses
        <3> QED
            BY <2>1, <2>2, <2>3, <2>6, <3>1 DEF Overtaken
    <2>7. SyncAgrees'
        BY <1>10, <2>5 DEF SyncAgrees
    <2> QED
        BY <2>6, <2>7
<1> QED
    BY <1>3, <1>11, <1>12 DEF SyncMoves

\* The seller and the buyers end listings; a listing that comes back is newer.
LEMMA EbayKeepsSync ==
    ASSUME SyncTypeOK,
           \/ \E h \in Holdings : SellerEnds(h) \/ SellerRelists(h)
           \/ \E o \in Orders, S \in SUBSET Holdings : Checkout(o, S)
    PROVE  /\ SyncTypeOK' /\ UNCHANGED <<row, syn>>
           /\ SyncAgrees => SyncAgrees'
<1>1. /\ offer \in [Holdings -> OfferStates] /\ issued \in [Holdings -> 0..MaxListings]
      /\ issued \in [Holdings -> Nat] /\ BaseTypeOK
    BY BoundsAreNat DEF SyncTypeOK, BaseTypeOK
<1>2. UNCHANGED <<row, path, disp, syn>>
    BY DEF SellerEnds, SellerRelists, Checkout, EbayEndsListing,
           BuyerChecksOut, dbVars
<1>4. /\ BaseTypeOK'
      /\ \A h \in Holdings : issued'[h] >= issued[h]
      /\ \A h \in Holdings : Live(h)' => Live(h) \/ issued'[h] > issued[h]
    <2>1. CASE \E h \in Holdings : SellerEnds(h)
        <3>1. PICK h \in Holdings, gone \in {"ended", "unpublished"} :
                 offer' = [offer EXCEPT ![h] = gone] /\ UNCHANGED <<issued, paid>>
            BY <2>1 DEF SellerEnds, EbayEndsListing
        <3> QED
            BY <1>1, <1>2, <3>1 DEF OfferStates, BaseTypeOK, Live
    <2>2. CASE \E h \in Holdings : SellerRelists(h)
        <3>1. PICK h \in Holdings : EbayPublishesOffer(h)
            BY <2>2 DEF SellerRelists
        <3>2. issued[h] + 1 \in 0..MaxListings
            BY <1>1, <3>1, BoundsAreNat DEF EbayPublishesOffer
        <3> QED
            BY <1>1, <1>2, <3>1, <3>2
            DEF EbayPublishesOffer, OfferStates, BaseTypeOK, Live
    <2>3. CASE \E o \in Orders, S \in SUBSET Holdings : Checkout(o, S)
        <3>1. PICK o \in Orders, S \in SUBSET Holdings : BuyerChecksOut(o, S)
            BY <2>3 DEF Checkout
        <3>2. PICK gone \in {"ended", "unpublished"} :
                 offer' = [h \in Holdings |-> IF h \in S THEN gone ELSE offer[h]]
            BY <3>1 DEF BuyerChecksOut
        <3>3. paid' \subseteq Lines /\ issued' = issued
            BY <1>1, <3>1 DEF BuyerChecksOut, BaseTypeOK, Lines
        <3> QED
            BY <1>1, <1>2, <3>2, <3>3 DEF OfferStates, BaseTypeOK, Live
    <2> QED
        BY <2>1, <2>2, <2>3
<1>5. SyncTypeOK'
    BY <1>2, <1>4 DEF SyncTypeOK
<1>6. ASSUME SyncAgrees PROVE SyncAgrees'
    <2>1. issued' \in [Holdings -> Nat]
        BY <1>4, BoundsAreNat DEF BaseTypeOK
    <2>2. \A h \in Holdings, r \in Row : Past(h, r) => Past(h, r)'
        BY <1>1, <1>4, <2>1, BoundsAreNat DEF Past, Renewed, Row
    <2>3. \A s \in Syncers : /\ syn[s].next \in Row
                             /\ \A h \in Holdings : syn[s].seen[h] \in Row
                             /\ syn[s].pc = "write" => syn[s].h \in Holdings
        BY DEF SyncTypeOK, Call
    <2>4. \A h \in Holdings : row[h] \in Row
        BY <1>1 DEF BaseTypeOK
    <2> QED
        BY <1>2, <1>6, <2>2, <2>3, <2>4 DEF SyncAgrees
<1> QED
    BY <1>2, <1>5, <1>6

LEMMA SyncNextInv == SyncInv /\ [SyncNext]_syncVars => SyncInv'
<1> SUFFICES ASSUME SyncInv, [SyncNext]_syncVars PROVE SyncInv'
    OBVIOUS
<1>1. CASE \E s \in Syncers : SyncStep(s)
    BY <1>1, SyncStepTyped, SyncStepAgrees DEF SyncInv
<1>2. CASE \/ \E h \in Holdings : SellerEnds(h) \/ SellerRelists(h)
           \/ \E o \in Orders, S \in SUBSET Holdings : Checkout(o, S)
    BY <1>2, EbayKeepsSync DEF SyncInv
<1>3. CASE UNCHANGED syncVars
    <2>1. UNCHANGED <<offer, issued, paid, row, path, disp, syn>>
        BY <1>3 DEF syncVars, baseVars
    <2>2. SyncTypeOK'
        BY <2>1 DEF SyncInv, SyncTypeOK, BaseTypeOK
    <2>3. SyncAgrees => SyncAgrees'
        BY <2>1 DEF SyncAgrees, Past, Renewed, Live
    <2> QED
        BY <2>2, <2>3 DEF SyncInv
<1> QED
    BY <1>1, <1>2, <1>3 DEF SyncNext, SyncStep

LEMMA SyncInvariance == SyncSpec => []SyncInv
<1> QED
    BY SyncInitInv, SyncNextInv, PTL DEF SyncSpec

\* Rows and sync calls stay well-typed.
THEOREM SyncTypeCorrect == SyncSpec => []SyncTypeOK
<1>1. SyncInv => SyncTypeOK
    BY DEF SyncInv
<1> QED
    BY <1>1, SyncInvariance, PTL

\* However many syncs run at once, no answer, late or failed, revives an ended
\* listing, unless the call that writes it was overtaken by another.
THEOREM EndedStaysEnded == SyncSpec => OnlyNewListingsRevive
<1> DEFINE Newer(h) ==
               row[h].status = "ENDED" /\ row'[h].status \in ListedStatuses =>
                   \/ row'[h].listingId > row[h].listingId
                   \/ \E s \in Syncers : WriteBack(s) /\ syn[s].h = h /\ Overtaken(s)
<1>1. SyncInv /\ [SyncNext]_syncVars => [\A h \in Holdings : Newer(h)]_syncVars
    <2> SUFFICES ASSUME SyncInv, SyncNext PROVE \A h \in Holdings : Newer(h)
        OBVIOUS
    <2>1. CASE UNCHANGED row
        BY <2>1 DEF ListedStatuses
    <2>2. ASSUME NEW s \in Syncers, SyncStep(s), ~UNCHANGED row
          PROVE  \A h \in Holdings : Newer(h)
        <3>1. WriteBack(s)
            BY <2>2 DEF SyncStep, List, Crash, AskAnswered, AskFailed, baseVars
        <3> QED
            BY <2>2, <3>1, SyncStepAgrees DEF SyncInv
    <2> QED
        BY <2>1, <2>2, EbayKeepsSync DEF SyncNext, SyncStep, SyncInv
<1> QED
    BY <1>1, SyncInvariance, PTL DEF SyncSpec, OnlyNewListingsRevive
=============================================================================
