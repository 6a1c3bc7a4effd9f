-------------------------- MODULE BinderVault_proofs --------------------------
(***************************************************************************)
(* Proofs about BinderVault, for any pages, pockets, cards and requests:    *)
(* its types, that every row of VIP is of a card that was marked in that    *)
(* very pocket, and that a projection nobody hinders leaves the rows as the *)
(* binder has its pockets.                                                  *)
(*                                                                         *)
(* Sane says what a request may hold at each step of its way; it speaks of  *)
(* no other request, and of the pages and the history only in ways that    *)
(* survive their growth.  OnItsWay is what a request that is alone knows of *)
(* the pockets it has done, has in hand and has still to do.                *)
(***************************************************************************)
EXTENDS BinderVault, TLAPS

-----------------------------------------------------------------------------
(* The inductive invariant                                                 *)

Projecting == {"asset", "insert", "link", "holding", "watch"}

\* What request q may hold when `pages' were made and `seen' was marked: a
\* filled pocket in hand was marked, if it is, with that very card.
Sane(q, pages, seen) ==
    /\ q \in Request
    /\ q.pc \in {"source", "target", "back", "flag"} \cup Projecting => q.slot \in Slots
    /\ q.pc \in {"source", "target", "back"} => q.from \in Slots
    /\ q.pc = "flag" => q.set \in {"owned", "wish"}
    /\ q.pc = "insertPage" => DOMAIN q.copies \subseteq SlotsOf(pages)
    /\ q.pc \in {"asset", "insert", "link"} => q.read.card # NoCard
    /\ q.pc = "link" => q.read.card \notin Uploads
    /\ q.pc \in Projecting /\ (q.read.owned \/ q.read.wish) => <<q.slot, q.read>> \in seen

\* The pockets there are, and that every mark is remembered.
Pockets ==
    /\ made \subseteq Pages
    /\ DOMAIN slot \subseteq SlotsOf(made)
    /\ slot \in [DOMAIN slot -> Pocket]
    /\ MarkedNow(slot) \subseteq marked

\* VIP's tables.
Vip ==
    /\ assets \subseteq Cards \cup Slots
    /\ linked \subseteq Cards \ Uploads
    /\ holding \in [Slots -> Cards \cup {NoCard}]
    /\ watch \in [Slots -> Cards \cup {NoCard}]

Inv ==
    /\ Pockets /\ Vip
    /\ binders \subseteq {BinderOf[p] : p \in Pages}
    /\ req \in [Requests -> Request]
    /\ \A r \in Requests : Sane(req[r], made, marked)
    /\ edits \in 0..MaxEdits
    /\ RowsWereMarked

\* A request that is alone: the others are at rest.
Lonely ==
    \A r, q \in Requests : req[r].alone /\ q # r => req[q].pc \in {"idle", "done"} /\ ~req[q].alone

Way == {"project", "done"} \cup Projecting

\* What request q knows of pocket s of its scope while it projects.
Done(q, s) ==
    IF q.pc \in Projecting /\ s = q.slot
    THEN /\ q.read = slot[s]
         /\ q.pc = "watch" => holding[s] = IF slot[s].owned THEN slot[s].card ELSE NoCard
    ELSE (s \in q.todo /\ q.pc # "done") \/ Mirrored(s)

\* An asset that was not found is still not there.
Missing(q) == q.pc = "insert" => Slug(q.slot, q.read.card) \notin assets

OnItsWay ==
    \A r \in Requests :
        req[r].alone /\ req[r].pc \in Way =>
            Missing(req[r]) /\ \A s \in Filled(req[r].scope) : Done(req[r], s)

IInv == Inv /\ Lonely /\ OnItsWay

-----------------------------------------------------------------------------
(* What the steps are made of                                              *)

LEMMA SaneGrows ==
    ASSUME NEW q, NEW pages, NEW pages2, NEW seen, NEW seen2,
           Sane(q, pages, seen), pages \subseteq pages2, seen \subseteq seen2
    PROVE  Sane(q, pages2, seen2)
<1>1. SlotsOf(pages) \subseteq SlotsOf(pages2)
    BY DEF SlotsOf
<1> QED
    BY <1>1 DEF Sane

LEMMA EmptyIsPocket == Empty \in Pocket
BY DEF Empty, Pocket

LEMMA IdleIsRequest == NoRequest \in Request /\ NoRequest.pc = "idle" /\ ~NoRequest.alone
<1> DEFINE copies == UNION {[S -> Pocket] : S \in SUBSET Slots}
<1>1. <<>> \in copies
    <2>1. <<>> \in [{} -> Pocket]
        OBVIOUS
    <2> QED
        BY <2>1
<1>2. Request = [pc: Steps, slot: Slots \cup {NoSlot}, from: Slots \cup {NoSlot},
                 set: {"", "owned", "wish"}, on: BOOLEAN, read: Pocket, read2: Pocket,
                 todo: SUBSET Slots, scope: SUBSET Slots, cards: SUBSET Cards,
                 pages: SUBSET Pages, binder: {BinderOf[p] : p \in Pages} \cup {NoBinder},
                 copies: copies, alone: BOOLEAN]
    BY DEF Request
<1>3. "idle" \in Steps
    BY DEF Steps
<1> HIDE DEF copies
<1> QED
    BY <1>1, <1>2, <1>3, EmptyIsPocket DEF NoRequest

LEMMA Idle == ASSUME NEW pages, NEW seen PROVE Sane(NoRequest, pages, seen)
BY IdleIsRequest DEF Sane, Projecting

LEMMA HinderedIsSane ==
    ASSUME NEW q, NEW pages, NEW seen, Sane(q, pages, seen)
    PROVE  Sane(HinderedOne(q), pages, seen) /\ ~HinderedOne(q).alone
<1>1. q \in Request
    BY DEF Sane
<1>2. HinderedOne(q) \in Request
    BY <1>1 DEF HinderedOne, Request
<1>3. /\ HinderedOne(q).pc = q.pc /\ HinderedOne(q).slot = q.slot
      /\ HinderedOne(q).from = q.from /\ HinderedOne(q).set = q.set
      /\ HinderedOne(q).copies = q.copies /\ HinderedOne(q).read = q.read
      /\ ~HinderedOne(q).alone
    BY <1>1 DEF HinderedOne, Request
<1> QED
    BY <1>2, <1>3 DEF Sane

\* A request that is done with a pocket.
LEMMA NextIsSane ==
    ASSUME NEW q \in Request, NEW pages, NEW seen
    PROVE  /\ Sane(NextSlot(q), pages, seen)
           /\ NextSlot(q).alone = q.alone /\ NextSlot(q).scope = q.scope
           /\ NextSlot(q).todo = q.todo
           /\ NextSlot(q).pc = IF q.todo = {} THEN "done" ELSE "project"
<1>1. NextSlot(q) \in Request
    <2> DEFINE pc == IF q.todo = {} THEN "done" ELSE "project"
    <2>1. pc \in Steps
        BY DEF Steps
    <2> HIDE DEF pc
    <2>2. [q EXCEPT !.pc = pc, !.read = Empty, !.slot = NoSlot] \in Request
        BY <2>1, EmptyIsPocket DEF Request
    <2> QED
        BY <2>2 DEF NextSlot, NoSlot, pc
<1>2. /\ NextSlot(q).alone = q.alone /\ NextSlot(q).scope = q.scope
      /\ NextSlot(q).todo = q.todo
      /\ NextSlot(q).pc = IF q.todo = {} THEN "done" ELSE "project"
    BY DEF NextSlot, Request
<1> QED
    BY <1>1, <1>2 DEF Sane, Projecting

LEMMA PutKeeps ==
    ASSUME Pockets, NEW s \in Slots, NEW pocket \in Pocket, Put(s, pocket), UNCHANGED made
    PROVE  Pockets' /\ marked \subseteq marked'
<1>1. slot' \in [DOMAIN slot' -> Pocket] /\ DOMAIN slot' = DOMAIN slot
    BY DEF Pockets, Put
<1>2. marked' = marked \cup MarkedNow(slot)' /\ MarkedNow(slot') = MarkedNow(slot)'
    BY DEF Put, MarkedNow
<1> QED
    BY <1>1, <1>2 DEF Pockets

LEMMA JoinKeeps ==
    ASSUME Pockets, NEW new, new \in [DOMAIN new -> Pocket], DOMAIN new \subseteq SlotsOf(made),
           Join(new), UNCHANGED made
    PROVE  Pockets' /\ marked \subseteq marked'
<1>1. slot' \in [DOMAIN slot' -> Pocket] /\ DOMAIN slot' = DOMAIN slot \cup DOMAIN new
    BY DEF Pockets, Join
<1>2. marked' = marked \cup MarkedNow(slot)' /\ MarkedNow(slot') = MarkedNow(slot)'
    BY DEF Join, MarkedNow
<1> QED
    BY <1>1, <1>2 DEF Pockets

LEMMA DropKeeps ==
    ASSUME Pockets, NEW S, Drop(S), UNCHANGED made
    PROVE  Pockets' /\ marked \subseteq marked'
<1>1. slot' = [s \in DOMAIN slot \ S |-> slot[s]] /\ marked' = marked
    BY DEF Drop
<1>2. slot' \in [DOMAIN slot' -> Pocket] /\ DOMAIN slot' \subseteq DOMAIN slot
    BY <1>1 DEF Pockets
<1>3. MarkedNow(slot)' \subseteq MarkedNow(slot)
    BY <1>1 DEF MarkedNow
<1> QED
    BY <1>1, <1>2, <1>3 DEF Pockets

LEMMA PocketsStay ==
    ASSUME Pockets, UNCHANGED <<slot, marked>>, made' \subseteq Pages, made \subseteq made'
    PROVE  Pockets'
<1>1. SlotsOf(made) \subseteq SlotsOf(made')
    BY DEF SlotsOf
<1> QED
    BY <1>1 DEF Pockets, MarkedNow

LEMMA VipStays ==
    ASSUME Inv, UnchangedVip, marked \subseteq marked'
    PROVE  Vip' /\ RowsWereMarked'
BY DEF Inv, Vip, UnchangedVip, RowsWereMarked

\* Marking a pocket is still a pocket.
LEMMA FlagsArePockets ==
    ASSUME NEW pocket \in Pocket, NEW set, NEW on \in BOOLEAN
    PROVE  WithFlag(pocket, set, on) \in Pocket
BY DEF WithFlag, Pocket

-----------------------------------------------------------------------------
(* A request goes on                                                       *)

\* What every step of a request under way has in common.
Goes(r, n) ==
    /\ req' = [req EXCEPT ![r] = n]
    /\ Sane(n, made', marked')
    /\ Pockets' /\ Vip' /\ RowsWereMarked'
    /\ binders' \subseteq binders /\ UNCHANGED <<made, edits>> /\ marked \subseteq marked'
    /\ n.alone => req[r].alone
    /\ req[r].pc # "idle"
    /\ req[r].pc = "done" => n = NoRequest /\ UNCHANGED <<slot, holding, watch, assets>>

LEMMA QuietStep ==
    ASSUME Inv, NEW r \in Requests, NEW n, Sane(n, made, marked), Becomes(r, n),
           UnchangedBinder, UnchangedVip, UNCHANGED edits,
           n.alone => req[r].alone, req[r].pc # "idle", req[r].pc = "done" => n = NoRequest
    PROVE  Goes(r, n)
<1>1. Vip' /\ RowsWereMarked'
    BY VipStays DEF UnchangedBinder
<1>2. Pockets'
    BY PocketsStay DEF UnchangedBinder, Inv, Pockets
<1> QED
    BY <1>1, <1>2 DEF Goes, UnchangedBinder, UnchangedVip, Becomes

LEMMA BinderStep ==
    ASSUME Inv, NEW r \in Requests, NEW n, Sane(n, made, marked), Becomes(r, n),
           UnchangedVip, UNCHANGED <<made, edits>>, binders' \subseteq binders,
           Pockets', marked \subseteq marked',
           n.alone => req[r].alone, req[r].pc \notin {"idle", "done"}
    PROVE  Goes(r, n)
<1>1. Vip' /\ RowsWereMarked'
    BY VipStays
<1>2. Sane(n, made', marked')
    BY SaneGrows
<1> QED
    BY <1>1, <1>2 DEF Goes, Becomes
\* Every step of a request under way.
LEMMA GoesOnSteps ==
    ASSUME Inv, NEW r \in Requests, GoesOn(r)
    PROVE  \E n : Goes(r, n)
<1> DEFINE q == req[r]
<1>1. q \in Request /\ Sane(q, made, marked) /\ Pockets
    BY DEF Inv
<1>2. Sane(NoRequest, made, marked) /\ ~NoRequest.alone
    BY Idle, IdleIsRequest
<1> HIDE DEF q
<1>3. ASSUME NEW s \in DOMAIN slot PROVE slot[s] \in Pocket /\ s \in Slots
    BY <1>1, <1>3 DEF Pockets, SlotsOf
<1>4. CASE ReadSource(r)
    <2>1. CASE q.from \in DOMAIN slot /\ Binder(q.from) = Binder(q.slot)
        <3> DEFINE n == [q EXCEPT !.pc = "target", !.read2 = slot[q.from]]
        <3>1. n \in Request /\ n.pc = "target" /\ n.alone = q.alone /\ n.slot = q.slot
                /\ n.from = q.from
            BY <1>1, <1>3, <2>1 DEF Request, Steps
        <3>2. Sane(n, made, marked)
            BY <1>1, <1>4, <3>1 DEF Sane, Projecting, ReadSource, At, q
        <3> QED
            BY <1>4, <2>1, <3>1, <3>2, QuietStep DEF ReadSource, At, q
    <2>2. CASE ~(q.from \in DOMAIN slot /\ Binder(q.from) = Binder(q.slot))
        BY <1>2, <1>4, <2>2, QuietStep DEF ReadSource, At, q
    <2> QED
        BY <2>1, <2>2
<1>5. CASE WriteTarget(r)
    <2> DEFINE n == [q EXCEPT !.pc = "back"]
    <2>1. q.slot \in Slots /\ q.read2 \in Pocket
        BY <1>1, <1>5 DEF Sane, Request, WriteTarget, At, q
    <2>2. n \in Request /\ n.pc = "back" /\ n.alone = q.alone /\ n.slot = q.slot /\ n.from = q.from
        BY <1>1 DEF Request, Steps
    <2>3. Sane(n, made, marked)
        BY <1>1, <1>5, <2>2 DEF Sane, Projecting, WriteTarget, At, q
    <2>4. Pockets' /\ marked \subseteq marked'
        BY <1>1, <1>5, <2>1, PutKeeps DEF WriteTarget, q
    <2> QED
        BY <1>5, <2>2, <2>3, <2>4, BinderStep DEF WriteTarget, At, q
<1>6. CASE WriteSource(r)
    <2>1. q.from \in Slots /\ q.read \in Pocket
        BY <1>1, <1>6 DEF Sane, Request, WriteSource, At, q
    <2>2. Pockets' /\ marked \subseteq marked'
        BY <1>1, <1>6, <2>1, PutKeeps, EmptyIsPocket DEF WriteSource, q
    <2> QED
        BY <1>2, <1>6, <2>2, BinderStep DEF WriteSource, At, q
<1>7. CASE InsertPage(r)
    <2>1. q.copies \in [DOMAIN q.copies -> Pocket] /\ DOMAIN q.copies \subseteq SlotsOf(made)
        BY <1>1, <1>7 DEF Sane, Request, InsertPage, At, q
    <2>2. Pockets' /\ marked \subseteq marked'
        <3>1. CASE Join(q.copies)
            BY <1>1, <1>7, <2>1, <3>1, JoinKeeps DEF InsertPage
        <3>2. CASE UNCHANGED <<slot, marked>>
            BY <1>1, <1>7, <3>2, PocketsStay DEF InsertPage, Pockets
        <3> QED
            BY <1>7, <3>1, <3>2 DEF InsertPage, q
    <2> DEFINE n == [q EXCEPT !.pc = "deletePage"]
    <2>3. Sane(n, made, marked) /\ n.alone = q.alone
        <3>1. n \in Request /\ n.pc = "deletePage" /\ n.alone = q.alone
            BY <1>1 DEF Request, Steps
        <3> QED
            BY <3>1 DEF Sane, Projecting
    <2>4. Becomes(r, n) \/ Becomes(r, NoRequest)
        BY <1>7 DEF InsertPage, q
    <2> HIDE DEF n
    <2>5. /\ UnchangedVip /\ UNCHANGED <<made, edits>> /\ binders' \subseteq binders
          /\ q.pc = "insertPage"
        BY <1>7 DEF InsertPage, At, q
    <2>6. CASE Becomes(r, n)
        BY <2>2, <2>3, <2>5, <2>6, BinderStep DEF q
    <2>7. CASE Becomes(r, NoRequest)
        BY <1>2, <2>2, <2>5, <2>7, BinderStep DEF q
    <2> QED
        BY <2>4, <2>6, <2>7
<1>8. CASE \E p \in Pages : DeletePages(r, p)
    <2> PICK p \in Pages : DeletePages(r, p)
        BY <1>8
    <2> DEFINE n == [q EXCEPT !.pages = @ \ {p}]
               m == [q EXCEPT !.pages = {}]
    <2>1. /\ UnchangedVip /\ UNCHANGED <<made, edits>> /\ binders' \subseteq binders
          /\ q.pc = "deletePage" /\ Drop(SlotsOf({p}))
        BY DEF DeletePages, At, q
    <2>2. Pockets' /\ marked \subseteq marked'
        BY <1>1, <2>1, DropKeeps
    <2>3. Sane(n, made, marked) /\ n.alone = q.alone
        <3>1. n \in Request /\ n.pc = "deletePage" /\ n.alone = q.alone
            BY <1>1, <2>1 DEF Request
        <3> QED
            BY <3>1 DEF Sane, Projecting
    <2>4. Sane(m, made, marked) /\ m.alone = q.alone
        <3>1. m \in Request /\ m.pc = "deletePage" /\ m.alone = q.alone
            BY <1>1, <2>1 DEF Request
        <3> QED
            BY <3>1 DEF Sane, Projecting
    <2>5. Becomes(r, n) \/ Becomes(r, m) \/ Becomes(r, NoRequest)
        BY DEF DeletePages, q
    <2> HIDE DEF n, m
    <2>6. CASE Becomes(r, n)
        BY <2>1, <2>2, <2>3, <2>6, BinderStep DEF q
    <2>7. CASE Becomes(r, m)
        BY <2>1, <2>2, <2>4, <2>7, BinderStep DEF q
    <2>8. CASE Becomes(r, NoRequest)
        BY <1>2, <2>1, <2>2, <2>8, BinderStep DEF q
    <2> QED
        BY <2>5, <2>6, <2>7, <2>8
<1>9. CASE BinderGone(r)
    <2>1. Pockets' /\ marked \subseteq marked'
        BY <1>1, <1>9, DropKeeps DEF BinderGone
    <2>2. binders' \subseteq binders
        BY <1>9 DEF BinderGone
    <2> QED
        BY <1>2, <1>9, <2>1, <2>2, BinderStep DEF BinderGone, At
<1>10. CASE SetFlag(r)
    <2> DEFINE n == [q EXCEPT !.pc = "project", !.todo = {q.slot}, !.scope = Scope(q, {q.slot}),
                              !.set = ""]
    <2>1. q.slot \in Slots /\ q.on \in BOOLEAN
        BY <1>1, <1>10 DEF Sane, Request, SetFlag, At, q
    <2>2. Pockets' /\ marked \subseteq marked'
        <3>1. CASE q.slot \in DOMAIN slot
            <4>1. WithFlag(slot[q.slot], q.set, q.on) \in Pocket
                BY <1>3, <2>1, <3>1, FlagsArePockets
            <4> QED
                BY <1>1, <1>10, <2>1, <3>1, <4>1, PutKeeps DEF SetFlag, q
        <3>2. CASE q.slot \notin DOMAIN slot
            BY <1>1, <1>10, <3>2, PocketsStay DEF SetFlag, Pockets, q
        <3> QED
            BY <3>1, <3>2
    <2>3. n \in Request /\ n.pc = "project" /\ n.alone = q.alone
        <3>1. Scope(q, {q.slot}) \in SUBSET Slots
            BY <2>1 DEF Scope
        <3> QED
            BY <1>1, <2>1, <3>1 DEF Request, Steps
    <2>4. Sane(n, made, marked)
        BY <2>3 DEF Sane, Projecting
    <2>5. /\ UnchangedVip /\ UNCHANGED <<made, edits>> /\ binders' \subseteq binders
          /\ q.pc = "flag" /\ Becomes(r, n)
        BY <1>10 DEF SetFlag, At, q
    <2> HIDE DEF n
    <2> QED
        BY <2>2, <2>3, <2>4, <2>5, BinderStep DEF q
<1>11. CASE MatchPockets(r)
    <2> DEFINE todo == {s \in Filled(Slots) : slot[s].card \in q.cards /\ ~slot[s].owned}
               scope == Scope(q, Slots)
    <2>1. todo \subseteq Slots /\ scope \subseteq Slots
        BY DEF Filled, Scope
    <2>2. Becomes(r, [q EXCEPT !.pc = "mark", !.scope = scope, !.todo = todo])
        BY <1>11 DEF MatchPockets, q
    <2> HIDE DEF todo, scope
    <2> DEFINE n == [q EXCEPT !.pc = "mark", !.scope = scope, !.todo = todo]
    <2>3. n \in Request /\ n.pc = "mark" /\ n.alone = q.alone
        BY <1>1, <2>1 DEF Request, Steps
    <2>4. Sane(n, made, marked)
        BY <2>3 DEF Sane, Projecting
    <2> QED
        BY <1>11, <2>2, <2>3, <2>4, QuietStep DEF MatchPockets, At, q
<1>12. CASE \E s \in Slots : MarkOwned(r, s)
    <2> PICK s \in Slots : MarkOwned(r, s)
        BY <1>12
    <2> DEFINE n == [q EXCEPT !.todo = @ \ {s}]
    <2>1. /\ UnchangedVip /\ UNCHANGED <<made, edits>> /\ binders' \subseteq binders
          /\ q.pc = "mark" /\ Becomes(r, n)
        BY DEF MarkOwned, At, q
    <2>2. Pockets' /\ marked \subseteq marked'
        <3>1. CASE s \in DOMAIN slot
            <4>1. WithFlag(slot[s], "owned", TRUE) \in Pocket
                BY <1>3, <3>1, FlagsArePockets
            <4> QED
                BY <1>1, <3>1, <4>1, PutKeeps DEF MarkOwned
        <3>2. CASE s \notin DOMAIN slot
            BY <1>1, <3>2, PocketsStay DEF MarkOwned, Pockets
        <3> QED
            BY <3>1, <3>2
    <2>3. n \in Request /\ n.pc = "mark" /\ n.alone = q.alone
        BY <1>1, <2>1 DEF Request
    <2>4. Sane(n, made, marked)
        BY <2>3 DEF Sane, Projecting
    <2> HIDE DEF n
    <2> QED
        BY <2>1, <2>2, <2>3, <2>4, BinderStep DEF q
<1>13. CASE PushMarked(r)
    <2> DEFINE todo == Filled(Slots)
    <2>1. todo \subseteq Slots
        BY DEF Filled
    <2>2. Becomes(r, [q EXCEPT !.pc = "project", !.todo = todo, !.cards = {}])
        BY <1>13 DEF PushMarked, q
    <2> HIDE DEF todo
    <2> DEFINE n == [q EXCEPT !.pc = "project", !.todo = todo, !.cards = {}]
    <2>3. n \in Request /\ n.pc = "project" /\ n.alone = q.alone
        BY <1>1, <2>1 DEF Request, Steps
    <2>4. Sane(n, made, marked)
        BY <2>3 DEF Sane, Projecting
    <2> QED
        BY <1>13, <2>2, <2>3, <2>4, QuietStep DEF PushMarked, At, q
<1>14. CASE \E s \in Slots : ReadSlot(r, s)
    <2> PICK s \in Slots : ReadSlot(r, s)
        BY <1>14
    <2> DEFINE left == [q EXCEPT !.todo = @ \ {s}, !.slot = s]
    <2>1. /\ left \in Request /\ left.alone = q.alone /\ left.slot = s /\ left.todo = q.todo \ {s}
          /\ left.scope = q.scope
        BY <1>1 DEF Request
    <2>2. /\ Becomes(r, IF s \notin Filled(Slots) THEN NextSlot(left)
                        ELSE [left EXCEPT !.read = slot[s],
                                 !.pc = IF slot[s].owned \/ slot[s].wish THEN "asset" ELSE "holding"])
          /\ q.pc = "project" /\ UnchangedBinder /\ UnchangedVip /\ UNCHANGED edits
        BY DEF ReadSlot, At, q
    <2> HIDE DEF left
    <2>3. CASE s \notin Filled(Slots)
        BY <2>1, <2>2, <2>3, NextIsSane, QuietStep DEF q
    <2>4. CASE s \in Filled(Slots)
        <3> DEFINE pc == IF slot[s].owned \/ slot[s].wish THEN "asset" ELSE "holding"
                   n == [left EXCEPT !.read = slot[s], !.pc = pc]
        <3>1. /\ s \in DOMAIN slot /\ slot[s] \in Pocket /\ slot[s].card # NoCard
              /\ (slot[s].owned \/ slot[s].wish => <<s, slot[s]>> \in marked)
            BY <1>1, <1>3, <2>4 DEF Filled, Pockets, MarkedNow
        <3>2. pc \in {"asset", "holding"}
            OBVIOUS
        <3>3. Becomes(r, n)
            BY <2>2, <2>4
        <3> HIDE DEF pc
        <3>4. n \in Request /\ n.pc = pc /\ n.alone = q.alone /\ n.slot = s /\ n.read = slot[s]
            BY <2>1, <3>1, <3>2 DEF Request, Steps
        <3>5. Sane(n, made, marked)
            BY <3>1, <3>2, <3>4 DEF Sane, Projecting
        <3> HIDE DEF n
        <3> QED
            BY <2>2, <3>3, <3>4, <3>5, QuietStep DEF q
    <2> QED
        BY <2>3, <2>4
<1>15. CASE NothingToPush(r)
    <2> DEFINE n == [q EXCEPT !.pc = "done"]
    <2>1. n \in Request /\ n.pc = "done" /\ n.alone = q.alone
        BY <1>1 DEF Request, Steps
    <2>2. Sane(n, made, marked)
        BY <2>1 DEF Sane, Projecting
    <2> QED
        BY <1>15, <2>1, <2>2, QuietStep DEF NothingToPush, At, q
<1>16. ASSUME q.pc \in Projecting, NEW pc \in {"insert", "link", "holding", "watch"}
       PROVE  /\ [q EXCEPT !.pc = pc] \in Request
              /\ [q EXCEPT !.pc = pc].alone = q.alone
              /\ (pc \in {"insert", "link"} => q.read.card # NoCard)
                    /\ (pc = "link" => q.read.card \notin Uploads)
                 => Sane([q EXCEPT !.pc = pc], made, marked)
    <2> DEFINE n == [q EXCEPT !.pc = pc]
    <2>1. /\ n \in Request /\ n.pc = pc /\ n.alone = q.alone /\ n.slot = q.slot
          /\ n.read = q.read
        BY <1>1 DEF Request, Steps
    <2>2. pc \in Projecting /\ pc \notin {"source", "target", "back", "flag", "insertPage", "asset"}
        BY DEF Projecting
    <2> HIDE DEF n
    <2>3. (pc \in {"insert", "link"} => q.read.card # NoCard)
            /\ (pc = "link" => q.read.card \notin Uploads) => Sane(n, made, marked)
        BY <1>1, <1>16, <2>1, <2>2 DEF Sane
    <2> QED
        BY <2>1, <2>3 DEF n
<1>17. CASE FindAsset(r)
    <2> DEFINE pc == IF q.read.card \in linked THEN "holding"
                     ELSE IF SlugAt(r) \notin assets THEN "insert"
                     ELSE IF q.read.card \in Uploads THEN "holding" ELSE "link"
    <2>1. /\ Becomes(r, [q EXCEPT !.pc = pc]) /\ q.pc = "asset"
          /\ UnchangedBinder /\ UnchangedVip /\ UNCHANGED edits
        BY <1>17 DEF FindAsset, At, q
    <2>2. pc \in {"insert", "link", "holding", "watch"} /\ (pc = "link" => q.read.card \notin Uploads)
        OBVIOUS
    <2>3. q.read.card # NoCard /\ q.pc \in Projecting
        BY <1>1, <2>1 DEF Sane, Projecting
    <2> HIDE DEF pc
    <2>4. Sane([q EXCEPT !.pc = pc], made, marked) /\ [q EXCEPT !.pc = pc].alone = q.alone
        BY <1>16, <2>2, <2>3
    <2> QED
        BY <2>1, <2>4, QuietStep DEF q
<1>18. CASE InsertAsset(r)
    <2> DEFINE pc == IF q.read.card \in Uploads THEN "holding" ELSE "link"
               n == IF SlugAt(r) \in assets THEN NextSlot(q) ELSE [q EXCEPT !.pc = pc]
    <2>1. /\ Becomes(r, n) /\ q.pc = "insert" /\ assets' = assets \cup {SlugAt(r)}
          /\ UnchangedBinder /\ UNCHANGED <<linked, holding, watch, edits>>
        BY <1>18 DEF InsertAsset, At, q
    <2>2. q.read.card # NoCard /\ q.pc \in Projecting
        BY <1>1, <2>1 DEF Sane, Projecting
    <2>3. pc \in {"insert", "link", "holding", "watch"} /\ (pc = "link" => q.read.card \notin Uploads)
        OBVIOUS
    <2>4. Sane(NextSlot(q), made, marked) /\ NextSlot(q).alone = q.alone
        BY <1>1, NextIsSane
    <2> HIDE DEF pc
    <2>5. Sane([q EXCEPT !.pc = pc], made, marked) /\ [q EXCEPT !.pc = pc].alone = q.alone
        BY <1>16, <2>2, <2>3
    <2>6. Sane(n, made, marked) /\ n.alone = q.alone
        BY <2>4, <2>5
    <2> HIDE DEF n
    <2>7. SlugAt(r) \in Cards \cup Slots
        <3>1. q.read.card \in Cards /\ q.slot \in Slots
            BY <1>1, <2>1, <2>2 DEF Sane, Request, Pocket, Projecting
        <3> QED
            BY <3>1 DEF SlugAt, Slug, q
    <2>8. Vip'
        BY <2>1, <2>7 DEF Inv, Vip
    <2>9. Pockets'
        BY <2>1, PocketsStay DEF UnchangedBinder, Inv, Pockets
    <2>10. RowsWereMarked'
        BY <2>1 DEF Inv, RowsWereMarked, UnchangedBinder
    <2> QED
        BY <2>1, <2>6, <2>8, <2>9, <2>10 DEF Goes, UnchangedBinder, Becomes, q
<1>19. CASE LinkAsset(r)
    <2> DEFINE n == [q EXCEPT !.pc = "holding"]
    <2>1. /\ Becomes(r, n) /\ q.pc = "link" /\ linked' = linked \cup {q.read.card}
          /\ UnchangedBinder /\ UNCHANGED <<assets, holding, watch, edits>>
        BY <1>19 DEF LinkAsset, At, q
    <2>2. q.read.card \in Cards \ Uploads /\ q.pc \in Projecting
        BY <1>1, <2>1 DEF Sane, Request, Pocket, Projecting
    <2>3. Sane(n, made, marked) /\ n.alone = q.alone
        BY <1>16, <2>2
    <2> HIDE DEF n
    <2>4. Vip'
        BY <2>1, <2>2 DEF Inv, Vip
    <2>5. Pockets'
        BY <2>1, PocketsStay DEF UnchangedBinder, Inv, Pockets
    <2>6. RowsWereMarked'
        BY <2>1 DEF Inv, RowsWereMarked, UnchangedBinder
    <2> QED
        BY <2>1, <2>3, <2>4, <2>5, <2>6 DEF Goes, UnchangedBinder, Becomes, q
<1>20. CASE WriteHolding(r)
    <2> DEFINE n == [q EXCEPT !.pc = "watch"]
               card == IF q.read.owned THEN q.read.card ELSE NoCard
    <2>1. /\ Becomes(r, n) /\ q.pc = "holding" /\ holding' = [holding EXCEPT ![q.slot] = card]
          /\ UnchangedBinder /\ UNCHANGED <<assets, linked, watch, edits>>
        BY <1>20 DEF WriteHolding, At, q
    <2>2. /\ q.slot \in Slots /\ q.read \in Pocket /\ q.pc \in Projecting
          /\ (q.read.owned => <<q.slot, q.read>> \in marked)
        BY <1>1, <2>1 DEF Sane, Request, Projecting
    <2>3. Sane(n, made, marked) /\ n.alone = q.alone
        BY <1>16, <2>2
    <2>4. card \in Cards \cup {NoCard} /\ (card # NoCard => q.read.owned /\ q.read.card = card)
        BY <2>2 DEF Pocket
    <2> HIDE DEF n, card
    <2>5. Vip'
        BY <2>1, <2>4 DEF Inv, Vip
    <2>6. Pockets'
        BY <2>1, PocketsStay DEF UnchangedBinder, Inv, Pockets
    <2>7. RowsWereMarked'
        <3>1. ASSUME NEW s \in Slots, holding'[s] # NoCard
              PROVE  \E h \in marked : h[1] = s /\ h[2].card = holding'[s] /\ h[2].owned
            <4>1. CASE s = q.slot
                <5>1. holding'[s] = card
                    BY <2>1, <4>1 DEF Inv, Vip
                <5> QED
                    BY <2>2, <2>4, <3>1, <4>1, <5>1
            <4>2. CASE s # q.slot
                <5>1. holding'[s] = holding[s]
                    BY <2>1, <4>2 DEF Inv, Vip
                <5> QED
                    BY <3>1, <5>1 DEF Inv, RowsWereMarked
            <4> QED
                BY <4>1, <4>2
        <3> QED
            BY <2>1, <3>1 DEF Inv, RowsWereMarked, UnchangedBinder
    <2> QED
        BY <2>1, <2>3, <2>5, <2>6, <2>7 DEF Goes, UnchangedBinder, Becomes, q
<1>21. CASE WriteWatch(r)
    <2> DEFINE n == NextSlot(q)
               card == IF q.read.wish THEN q.read.card ELSE NoCard
    <2>1. /\ Becomes(r, n) /\ q.pc = "watch" /\ watch' = [watch EXCEPT ![q.slot] = card]
          /\ UnchangedBinder /\ UNCHANGED <<assets, linked, holding, edits>>
        BY <1>21 DEF WriteWatch, At, q
    <2>2. /\ q.slot \in Slots /\ q.read \in Pocket
          /\ (q.read.wish => <<q.slot, q.read>> \in marked)
        BY <1>1, <2>1 DEF Sane, Request, Projecting
    <2>3. Sane(n, made, marked) /\ n.alone = q.alone
        BY <1>1, NextIsSane
    <2>4. card \in Cards \cup {NoCard} /\ (card # NoCard => q.read.wish /\ q.read.card = card)
        BY <2>2 DEF Pocket
    <2> HIDE DEF n, card
    <2>5. Vip'
        BY <2>1, <2>4 DEF Inv, Vip
    <2>6. Pockets'
        BY <2>1, PocketsStay DEF UnchangedBinder, Inv, Pockets
    <2>7. RowsWereMarked'
        <3>1. ASSUME NEW s \in Slots, watch'[s] # NoCard
              PROVE  \E h \in marked : h[1] = s /\ h[2].card = watch'[s] /\ h[2].wish
            <4>1. CASE s = q.slot
                <5>1. watch'[s] = card
                    BY <2>1, <4>1 DEF Inv, Vip
                <5> QED
                    BY <2>2, <2>4, <3>1, <4>1, <5>1
            <4>2. CASE s # q.slot
                <5>1. watch'[s] = watch[s]
                    BY <2>1, <4>2 DEF Inv, Vip
                <5> QED
                    BY <3>1, <5>1 DEF Inv, RowsWereMarked
            <4> QED
                BY <4>1, <4>2
        <3> QED
            BY <2>1, <3>1 DEF Inv, RowsWereMarked, UnchangedBinder
    <2> QED
        BY <2>1, <2>3, <2>5, <2>6, <2>7 DEF Goes, UnchangedBinder, Becomes, q
<1>22. CASE SlotFails(r)
    <2> DEFINE n == HinderedOne(NextSlot(q))
    <2>1. Sane(n, made, marked) /\ ~n.alone
        BY <1>1, NextIsSane, HinderedIsSane
    <2> HIDE DEF n
    <2>2. /\ Becomes(r, n) /\ q.pc \in Projecting /\ UnchangedBinder /\ UnchangedVip
          /\ UNCHANGED edits
        BY <1>22 DEF SlotFails, Projecting, n, q
    <2> QED
        BY <2>1, <2>2, QuietStep DEF Projecting, q
<1>23. CASE Answer(r) \/ Die(r)
    BY <1>2, <1>23, QuietStep DEF Answer, Die, At
<1> QED
    BY <1>4, <1>5, <1>6, <1>7, <1>8, <1>9, <1>10, <1>11, <1>12, <1>13, <1>14, <1>15,
       <1>17, <1>18, <1>19, <1>20, <1>21, <1>22, <1>23 DEF GoesOn
-----------------------------------------------------------------------------
(* A request that is alone                                                 *)

\* What a request that is alone knows of its pockets stays true as it goes on.
LEMMA KnowsItsWay ==
    ASSUME Inv, OnItsWay, NEW r \in Requests, GoesOn(r), NEW n, Goes(r, n),
           n.alone, n.pc \in Way
    PROVE  Missing(n)' /\ \A s \in Filled(n.scope)' : Done(n, s)'
<1> DEFINE q == req[r]
<1>1. q \in Request /\ Sane(q, made, marked) /\ q.alone /\ req \in [Requests -> Request]
    BY DEF Inv, Goes
<1>2. n = req'[r]
    BY <1>1 DEF Goes
<1>3. q.pc \in Way => Missing(q) /\ \A s \in Filled(q.scope) : Done(q, s)
    BY <1>1 DEF OnItsWay
<1> HIDE DEF q
<1>4. CASE ReadSource(r) \/ WriteTarget(r) \/ WriteSource(r) \/ BinderGone(r)
             \/ InsertPage(r) \/ (\E p \in Pages : DeletePages(r, p)) \/ Answer(r) \/ Die(r)
    <2>1. n.pc \in {"idle", "target", "back", "deletePage"}
        <3>1. NoRequest.pc = "idle"
            BY DEF NoRequest
        <3>2. CASE ReadSource(r)
            BY <1>1, <1>2, <3>1, <3>2 DEF ReadSource, Becomes, Request, q
        <3>3. CASE WriteTarget(r) \/ WriteSource(r) \/ BinderGone(r) \/ Answer(r) \/ Die(r)
            BY <1>1, <1>2, <3>1, <3>3
               DEF WriteTarget, WriteSource, BinderGone, Answer, Die, Becomes, Request, q
        <3>4. CASE InsertPage(r)
            <4>1. n \in {NoRequest, [q EXCEPT !.pc = "deletePage"]}
                BY <1>1, <1>2, <3>4 DEF InsertPage, Becomes, q
            <4> QED
                BY <1>1, <3>1, <4>1 DEF Request
        <3>5. CASE \E p \in Pages : DeletePages(r, p)
            <4> PICK p \in Pages : DeletePages(r, p)
                BY <3>5
            <4>1. n \in {NoRequest, [q EXCEPT !.pages = @ \ {p}], [q EXCEPT !.pages = {}]}
                BY <1>1, <1>2 DEF DeletePages, Becomes, q
            <4> QED
                BY <1>1, <3>1, <4>1 DEF DeletePages, At, Request, q
        <3> QED
            BY <1>4, <3>2, <3>3, <3>4, <3>5
    <2> QED
        BY <2>1 DEF Way, Projecting
<1>5. CASE MatchPockets(r) \/ (\E s \in Slots : MarkOwned(r, s))
    <2>1. n.pc = "mark"
        <3>1. CASE MatchPockets(r)
            BY <1>1, <1>2, <3>1 DEF MatchPockets, Becomes, Request, q
        <3>2. CASE \E s \in Slots : MarkOwned(r, s)
            <4> PICK s \in Slots : MarkOwned(r, s)
                BY <3>2
            <4>1. n = [q EXCEPT !.todo = @ \ {s}] /\ q.pc = "mark"
                BY <1>1, <1>2 DEF MarkOwned, At, Becomes, q
            <4> QED
                BY <1>1, <4>1 DEF Request
        <3> QED
            BY <1>5, <3>1, <3>2
    <2> QED
        BY <2>1 DEF Way, Projecting
<1>6. CASE SlotFails(r)
    <2>1. ~n.alone
        BY <1>1, <1>2, <1>6, NextIsSane, HinderedIsSane DEF SlotFails, Becomes, q
    <2> QED
        BY <2>1
<1>7. CASE SetFlag(r)
    <2>1. n.todo = {q.slot} /\ n.scope = {q.slot} /\ n.pc = "project"
        BY <1>1, <1>2, <1>7 DEF SetFlag, Becomes, Scope, Request, q
    <2> QED
        BY <2>1 DEF Filled, Done, Missing, Projecting
<1>8. CASE PushMarked(r)
    <2> DEFINE todo == Filled(Slots)
    <2>1. /\ Becomes(r, [q EXCEPT !.pc = "project", !.todo = todo, !.cards = {}])
          /\ slot' = slot
        BY <1>8 DEF PushMarked, UnchangedBinder, q
    <2> HIDE DEF todo
    <2>2. n.todo = todo /\ n.scope = q.scope /\ q.scope \subseteq Slots /\ n.pc = "project"
        BY <1>1, <1>2, <2>1 DEF Becomes, Request
    <2> QED
        BY <2>1, <2>2 DEF Filled, Done, Missing, Projecting, todo
<1>9. CASE NothingToPush(r)
    <2>1. /\ Becomes(r, [q EXCEPT !.pc = "done"]) /\ q.pc = "project" /\ q.todo = {}
          /\ UNCHANGED <<slot, holding, watch>>
        BY <1>9 DEF NothingToPush, UnchangedBinder, UnchangedVip, At, q
    <2>2. n.scope = q.scope /\ n.pc = "done"
        BY <1>1, <1>2, <2>1 DEF Becomes, Request
    <2>3. ASSUME NEW s \in Filled(q.scope) PROVE Mirrored(s)
        BY <1>3, <2>1 DEF Way, Done, Projecting
    <2> QED
        BY <2>1, <2>2, <2>3 DEF Filled, Done, Mirrored, Missing, Projecting
<1>10. CASE \E s \in Slots : ReadSlot(r, s)
    <2> PICK s \in Slots : ReadSlot(r, s)
        BY <1>10
    <2> DEFINE left == [q EXCEPT !.todo = @ \ {s}, !.slot = s]
    <2>1. left \in Request /\ left.slot = s /\ left.todo = q.todo \ {s} /\ left.scope = q.scope
        BY <1>1 DEF Request
    <2>2. /\ n = IF s \notin Filled(Slots) THEN NextSlot(left)
                 ELSE [left EXCEPT !.read = slot[s],
                          !.pc = IF slot[s].owned \/ slot[s].wish THEN "asset" ELSE "holding"]
          /\ q.pc = "project" /\ UNCHANGED <<slot, holding, watch>>
        BY <1>1, <1>2 DEF ReadSlot, Becomes, UnchangedBinder, UnchangedVip, At, q
    <2> HIDE DEF left
    <2>3. ASSUME NEW z \in Filled(q.scope) PROVE z \in q.todo \/ Mirrored(z)
        BY <1>3, <2>2, <2>3 DEF Way, Done, Projecting
    <2>4. q.scope \subseteq Slots
        BY <1>1 DEF Request
    <2>5. CASE s \notin Filled(Slots)
        <3>1. /\ n.scope = q.scope /\ n.todo = q.todo \ {s}
              /\ n.pc = IF n.todo = {} THEN "done" ELSE "project"
            BY <2>1, <2>2, <2>5, NextIsSane
        <3>2. ASSUME NEW z \in Filled(q.scope) PROVE Done(n, z)'
            <4>1. z # s
                BY <2>4, <2>5, <3>2 DEF Filled
            <4>2. CASE z \in q.todo
                <5>1. z \in n.todo /\ n.pc = "project"
                    BY <3>1, <4>1, <4>2
                <5> QED
                    BY <5>1 DEF Done, Projecting
            <4>3. CASE Mirrored(z)
                <5>1. Mirrored(z)' /\ n.pc \notin Projecting
                    BY <2>2, <3>1, <4>3 DEF Mirrored, Projecting
                <5> QED
                    BY <5>1 DEF Done
            <4> QED
                BY <2>3, <3>2, <4>2, <4>3
        <3> QED
            BY <2>2, <3>1, <3>2 DEF Filled, Missing
    <2>6. CASE s \in Filled(Slots)
        <3>1. /\ n.scope = q.scope /\ n.todo = q.todo \ {s} /\ n.slot = s /\ n.read = slot[s]
              /\ n.pc \in {"asset", "holding"}
            BY <2>1, <2>2, <2>6 DEF Request
        <3>2. ASSUME NEW z \in Filled(q.scope) PROVE Done(n, z)'
            <4>1. CASE z = s
                BY <2>2, <3>1, <4>1 DEF Done, Projecting
            <4>2. CASE z # s /\ z \in q.todo
                BY <3>1, <4>2 DEF Done, Projecting
            <4>3. CASE z # s /\ Mirrored(z)
                BY <2>2, <3>1, <4>3 DEF Done, Mirrored
            <4> QED
                BY <2>3, <3>2, <4>1, <4>2, <4>3
        <3> QED
            BY <2>2, <3>1, <3>2 DEF Filled, Missing
    <2> QED
        BY <2>5, <2>6
<1>11. CASE FindAsset(r) \/ LinkAsset(r) \/ InsertAsset(r)
    <2>1. /\ n.scope = q.scope /\ n.todo = q.todo /\ n.slot = q.slot /\ n.read = q.read
          /\ n.pc \in Projecting \ {"watch"} /\ q.pc \in Projecting \ {"watch"}
          /\ n.pc = "insert" => Slug(n.slot, n.read.card) \notin assets'
        <3>1. CASE FindAsset(r)
            BY <1>1, <1>2, <3>1
               DEF FindAsset, At, Becomes, Request, Projecting, SlugAt, UnchangedVip, q
        <3>2. CASE LinkAsset(r)
            BY <1>1, <1>2, <3>2 DEF LinkAsset, At, Becomes, Request, Projecting, q
        <3>3. CASE InsertAsset(r)
            <4> DEFINE pc == IF q.read.card \in Uploads THEN "holding" ELSE "link"
            <4>1. q.pc = "insert" /\ SlugAt(r) \notin assets
                BY <1>3, <3>3 DEF InsertAsset, At, Way, Projecting, Missing, SlugAt, q
            <4>2. n = [q EXCEPT !.pc = pc]
                BY <1>1, <1>2, <3>3, <4>1 DEF InsertAsset, Becomes, q
            <4>3. pc \in Projecting \ {"watch", "insert"}
                BY DEF Projecting
            <4> HIDE DEF pc
            <4>4. n.scope = q.scope /\ n.todo = q.todo /\ n.slot = q.slot /\ n.read = q.read
                    /\ n.pc = pc
                BY <1>1, <4>2 DEF Request
            <4> QED
                BY <4>1, <4>3, <4>4 DEF Projecting
        <3> QED
            BY <1>11, <3>1, <3>2, <3>3
    <2>2. UNCHANGED <<slot, holding, watch>>
        BY <1>11 DEF FindAsset, LinkAsset, InsertAsset, UnchangedBinder, UnchangedVip
    <2>3. ASSUME NEW s \in Filled(q.scope) PROVE Done(n, s)'
        <3>1. Done(q, s)
            BY <1>3, <2>1, <2>3 DEF Way
        <3>2. /\ q.pc \in Projecting /\ n.pc \in Projecting /\ n.pc \notin {"watch", "done"}
              /\ q.slot = n.slot /\ q.read = n.read /\ q.todo = n.todo
            BY <2>1 DEF Projecting
        <3> QED
            BY <2>2, <3>1, <3>2 DEF Done, Mirrored
    <2> QED
        BY <2>1, <2>2, <2>3 DEF Filled, Missing
<1>12. CASE WriteHolding(r)
    <2> DEFINE card == IF q.read.owned THEN q.read.card ELSE NoCard
    <2>1. /\ Becomes(r, [q EXCEPT !.pc = "watch"]) /\ q.pc = "holding"
          /\ holding' = [holding EXCEPT ![q.slot] = card] /\ UNCHANGED <<slot, watch>>
        BY <1>12 DEF WriteHolding, At, UnchangedBinder, q
    <2>2. /\ n.scope = q.scope /\ n.todo = q.todo /\ n.slot = q.slot /\ n.read = q.read
          /\ n.pc = "watch"
        BY <1>1, <1>2, <2>1 DEF Becomes, Request
    <2>3. q.slot \in Slots /\ holding \in [Slots -> Cards \cup {NoCard}] /\ q.scope \subseteq Slots
        BY <1>1, <2>1 DEF Sane, Projecting, Inv, Vip, Request
    <2> HIDE DEF card
    <2>4. ASSUME NEW s \in Filled(q.scope) PROVE Done(n, s)'
        <3>1. s \in Slots
            BY <2>3 DEF Filled
        <3>2. Done(q, s)
            BY <1>3, <2>1, <2>4 DEF Way, Projecting
        <3>3. CASE s = q.slot
            <4>1. q.read = slot[s]
                BY <2>1, <3>2, <3>3 DEF Done, Projecting
            <4>2. holding'[s] = card
                BY <2>1, <2>3, <3>3
            <4> QED
                BY <2>1, <2>2, <3>3, <4>1, <4>2 DEF Done, Projecting, card
        <3>4. CASE s # q.slot
            <4>1. holding'[s] = holding[s]
                BY <2>1, <2>3, <3>1, <3>4
            <4> QED
                BY <2>1, <2>2, <3>2, <3>4, <4>1 DEF Done, Mirrored
        <3> QED
            BY <3>3, <3>4
    <2> QED
        BY <2>1, <2>2, <2>4 DEF Filled, Missing
<1>13. CASE WriteWatch(r)
    <2> DEFINE card == IF q.read.wish THEN q.read.card ELSE NoCard
    <2>1. /\ Becomes(r, NextSlot(q)) /\ q.pc = "watch"
          /\ watch' = [watch EXCEPT ![q.slot] = card] /\ UNCHANGED <<slot, holding>>
        BY <1>13 DEF WriteWatch, At, UnchangedBinder, q
    <2>2. /\ n.scope = q.scope /\ n.todo = q.todo
          /\ n.pc = IF n.todo = {} THEN "done" ELSE "project"
        BY <1>1, <1>2, <2>1, NextIsSane DEF Becomes
    <2>3. q.slot \in Slots /\ watch \in [Slots -> Cards \cup {NoCard}] /\ q.scope \subseteq Slots
        BY <1>1, <2>1 DEF Sane, Projecting, Inv, Vip, Request
    <2> HIDE DEF card
    <2>4. ASSUME NEW s \in Filled(q.scope) PROVE Done(n, s)'
        <3>1. s \in Slots
            BY <2>3 DEF Filled
        <3>2. Done(q, s)
            BY <1>3, <2>1, <2>4 DEF Way, Projecting
        <3>3. CASE s = q.slot
            <4>1. q.read = slot[s] /\ holding[s] = IF slot[s].owned THEN slot[s].card ELSE NoCard
                BY <2>1, <3>2, <3>3 DEF Done, Projecting
            <4>2. watch'[s] = card
                BY <2>1, <2>3, <3>3
            <4> QED
                BY <2>1, <2>2, <4>1, <4>2 DEF Done, Mirrored, Projecting, card
        <3>4. CASE s # q.slot
            <4>1. watch'[s] = watch[s]
                BY <2>1, <2>3, <3>1, <3>4
            <4> QED
                BY <2>1, <2>2, <3>2, <3>4, <4>1 DEF Done, Mirrored, Projecting
        <3> QED
            BY <3>3, <3>4
    <2> QED
        BY <2>1, <2>2, <2>4 DEF Filled, Missing
<1> QED
    BY <1>4, <1>5, <1>6, <1>7, <1>8, <1>9, <1>10, <1>11, <1>12, <1>13 DEF GoesOn
-----------------------------------------------------------------------------
(* Requests begin                                                          *)

Starts(r, n) ==
    /\ Begin(r, n) /\ Sane(n, made', marked') /\ ~n.alone
    /\ n.pc \notin {"done"} \cup Projecting
    /\ n.pc = "project" => n.scope \subseteq Slots /\ Filled(n.scope) \subseteq n.todo
    /\ made \subseteq made' /\ made' \subseteq Pages
    /\ UNCHANGED <<binders, slot, marked>> /\ UnchangedVip

LEMMA MakePageStarts ==
    ASSUME Inv, NEW r \in Requests, NEW p \in Pages, NEW moved \in SUBSET Pages,
           NEW copies \in [SlotsOf({p}) -> Pocket], MakePage(r, p, copies, moved)
    PROVE  \E n : Starts(r, n)
<1> DEFINE n == [NoRequest EXCEPT !.pc = "insertPage", !.pages = moved, !.copies = copies]
<1>1. made' = made \cup {p} /\ Begin(r, n) /\ UNCHANGED <<binders, slot, marked>> /\ UnchangedVip
    BY DEF MakePage
<1>2. copies \in UNION {[S -> Pocket] : S \in SUBSET Slots} /\ DOMAIN copies \subseteq SlotsOf(made')
    <2>1. SlotsOf({p}) \subseteq Slots /\ SlotsOf({p}) \subseteq SlotsOf(made')
        BY <1>1 DEF SlotsOf
    <2> QED
        BY <2>1
<1>3. n \in Request /\ n.pc = "insertPage" /\ n.copies = copies /\ ~n.alone
    <2>1. "insertPage" \in Steps /\ NoRequest \in Request /\ ~NoRequest.alone
        BY IdleIsRequest DEF Steps
    <2> HIDE DEF NoRequest
    <2> QED
        BY <1>2, <2>1 DEF Request
<1>4. Sane(n, made', marked')
    BY <1>2, <1>3 DEF Sane, Projecting
<1>5. made \subseteq made' /\ made' \subseteq Pages
    BY <1>1 DEF Inv, Pockets
<1> HIDE DEF n
<1> QED
    BY <1>1, <1>3, <1>4, <1>5 DEF Starts, Projecting

\* A request that has read nothing of the binder it may lose.
LEMMA QuietStarts ==
    ASSUME Inv, NEW r \in Requests, NEW n, Begin(r, n), Sane(n, made, marked), ~n.alone,
           n.pc \notin {"done"} \cup Projecting,
           n.pc = "project" => n.scope \subseteq Slots /\ Filled(n.scope) \subseteq n.todo,
           UnchangedBinder, UnchangedVip
    PROVE  \E m : Starts(r, m)
<1>1. Starts(r, n)
    BY DEF Starts, UnchangedBinder, Inv, Pockets
<1> QED
    BY <1>1

LEMMA BeginSteps ==
    ASSUME Inv, NEW r \in Requests, Begins(r)
    PROVE  \E n : Starts(r, n)
<1>1. NoRequest \in Request /\ ~NoRequest.alone
    BY IdleIsRequest
<1>2. ASSUME NEW s \in DOMAIN slot PROVE slot[s] \in Pocket /\ s \in Slots
    BY <1>2 DEF Inv, Pockets, SlotsOf
<1>3. CASE \E s \in Slots, from \in Slots : Move(r, s, from)
    <2> PICK s \in Slots, from \in Slots : Move(r, s, from)
        BY <1>3
    <2> DEFINE read == slot[s]
               n == [NoRequest EXCEPT !.pc = "source", !.slot = s, !.from = from, !.read = read]
    <2>1. Begin(r, n) /\ UnchangedBinder /\ UnchangedVip /\ read \in Pocket
        BY <1>2 DEF Move
    <2> HIDE DEF read
    <2>2. n \in Request /\ n.pc = "source" /\ ~n.alone /\ n.slot = s /\ n.from = from
        BY <1>1, <2>1 DEF Request, Steps
    <2> HIDE DEF n
    <2>3. Sane(n, made, marked)
        BY <2>2 DEF Sane, Projecting
    <2> QED
        BY <2>1, <2>2, <2>3, QuietStarts DEF Projecting
<1>4. CASE \E p \in Pages : AddPage(r, p)
    <2> PICK p \in Pages : AddPage(r, p)
        BY <1>4
    <2>1. [s \in SlotsOf({p}) |-> Empty] \in [SlotsOf({p}) -> Pocket]
        BY EmptyIsPocket
    <2> QED
        BY <2>1, MakePageStarts DEF AddPage
<1>5. CASE \E b \in binders : DeleteBinder(r, b)
    <2> PICK b \in binders : DeleteBinder(r, b)
        BY <1>5
    <2> DEFINE pages == PagesOf(b)
               n == [NoRequest EXCEPT !.pc = "deletePage", !.binder = b, !.pages = pages]
    <2>1. /\ Begin(r, n) /\ UnchangedBinder /\ UnchangedVip /\ pages \subseteq Pages
          /\ b \in {BinderOf[p] : p \in Pages}
        BY DEF DeleteBinder, PagesOf, Inv
    <2> HIDE DEF pages
    <2>2. n \in Request /\ n.pc = "deletePage" /\ ~n.alone
        BY <1>1, <2>1 DEF Request, Steps
    <2> HIDE DEF n
    <2>3. Sane(n, made, marked)
        BY <2>2 DEF Sane, Projecting
    <2> QED
        BY <2>1, <2>2, <2>3, QuietStarts DEF Projecting
<1>6. CASE \E p, q \in Pages, moves \in BOOLEAN : TransferPage(r, p, q, moves)
    <2> PICK p \in Pages, q \in Pages, moves \in BOOLEAN : TransferPage(r, p, q, moves)
        BY <1>6
    <2> DEFINE copies == [s \in SlotsOf({q}) |->
                             IF <<p, s[2]>> \in Filled(Slots) THEN slot[<<p, s[2]>>] ELSE Empty]
               moved == IF moves THEN {p} ELSE {}
    <2>1. copies \in [SlotsOf({q}) -> Pocket]
        BY <1>2, EmptyIsPocket DEF Filled
    <2>2. MakePage(r, q, copies, moved) /\ moved \subseteq Pages
        BY DEF TransferPage
    <2> HIDE DEF copies, moved
    <2> QED
        BY <2>1, <2>2, MakePageStarts
<1>7. CASE \E s \in Slots, set \in {"owned", "wish"}, on \in BOOLEAN : Toggle(r, s, set, on)
    <2> PICK s \in Slots, set \in {"owned", "wish"}, on \in BOOLEAN : Toggle(r, s, set, on)
        BY <1>7
    <2> DEFINE n == [NoRequest EXCEPT !.pc = "flag", !.slot = s, !.set = set, !.on = on]
    <2>1. Begin(r, n) /\ UnchangedBinder /\ UnchangedVip
        BY DEF Toggle
    <2>2. n \in Request /\ n.pc = "flag" /\ ~n.alone /\ n.slot = s /\ n.set = set
        BY <1>1 DEF Request, Steps
    <2> HIDE DEF n
    <2>3. Sane(n, made, marked)
        BY <2>2 DEF Sane, Projecting
    <2> QED
        BY <2>1, <2>2, <2>3, QuietStarts DEF Projecting
<1>8. CASE \E S \in {Slots} \cup {SlotsOf(PagesOf(b)) : b \in {BinderOf[p] : p \in Pages}} : Push(r, S)
    <2> PICK S \in {Slots} \cup {SlotsOf(PagesOf(b)) : b \in {BinderOf[p] : p \in Pages}} : Push(r, S)
        BY <1>8
    <2> DEFINE todo == Filled(S)
               n == [NoRequest EXCEPT !.pc = "project", !.todo = todo, !.scope = S]
    <2>1. Begin(r, n) /\ UnchangedBinder /\ UnchangedVip
        BY DEF Push
    <2>2. S \subseteq Slots /\ todo \subseteq Slots
        BY DEF SlotsOf, Filled
    <2> HIDE DEF todo
    <2>3. n \in Request /\ n.pc = "project" /\ ~n.alone /\ n.todo = todo /\ n.scope = S
        BY <1>1, <2>2 DEF Request, Steps
    <2> HIDE DEF n
    <2>4. Sane(n, made, marked)
        BY <2>3 DEF Sane, Projecting
    <2> QED
        BY <2>1, <2>2, <2>3, <2>4, QuietStarts DEF Projecting, todo
<1>9. CASE SyncOwned(r)
    <2> DEFINE cards == Inventory
               n == [NoRequest EXCEPT !.pc = "sync", !.cards = cards]
    <2>1. Begin(r, n) /\ UnchangedBinder /\ UnchangedVip
        BY <1>9 DEF SyncOwned
    <2>2. cards \subseteq Cards
        <3>1. linked \subseteq Cards
            BY DEF Inv, Vip
        <3>2. ASSUME NEW s \in Filled(Slots) PROVE slot[s].card \in Cards
            BY <1>2, <3>2 DEF Filled, Pocket
        <3> QED
            BY <3>1, <3>2, CardsAreCards DEF Inventory
    <2> HIDE DEF cards
    <2>3. n \in Request /\ n.pc = "sync" /\ ~n.alone
        BY <1>1, <2>2 DEF Request, Steps
    <2> HIDE DEF n
    <2>4. Sane(n, made, marked)
        BY <2>3 DEF Sane, Projecting
    <2> QED
        BY <2>1, <2>3, <2>4, QuietStarts DEF Projecting
<1> QED
    BY <1>3, <1>4, <1>5, <1>6, <1>7, <1>8, <1>9 DEF Begins
-----------------------------------------------------------------------------
(* Every step                                                              *)

LEMMA EmptyVault == Init => IInv
<1> SUFFICES ASSUME Init PROVE IInv
    OBVIOUS
<1>1. /\ slot = FirstPocket /\ made = FirstPages /\ req = [r \in Requests |-> NoRequest]
      /\ binders = {BinderOf[p] : p \in Pages} /\ edits = 0 /\ marked = MarkedNow(slot)
    BY DEF Init
<1>2. SlotsOf(FirstPages) \subseteq Slots /\ DOMAIN slot = SlotsOf(FirstPages)
    BY <1>1, FirstPocketsAreSound DEF SlotsOf
<1>3. Pockets
    BY <1>1, <1>2, FirstPocketsAreSound, FirstAreThere DEF Pockets
<1>4. ASSUME NEW s \in DOMAIN slot PROVE s \in Slots /\ slot[s] \in Pocket
    BY <1>1, <1>2, <1>4, FirstPocketsAreSound
<1>5. Vip
    <2>1. ASSUME NEW s \in DOMAIN slot, slot[s].owned \/ slot[s].wish
          PROVE  /\ Slug(s, slot[s].card) \in Cards \cup Slots
                 /\ Slug(s, slot[s].card) \in Cards => Slug(s, slot[s].card) \notin Uploads
        <3>1. slot[s].card \in Cards
            BY <1>1, <1>2, <1>4, <2>1, FirstPocketsAreSound DEF Pocket
        <3> QED
            BY <1>4, <2>1, <3>1, NoCardIsASlot DEF Slug
    <2>2. assets = {Slug(s, slot[s].card) : s \in {x \in DOMAIN slot : slot[x].owned \/ slot[x].wish}}
        BY DEF Init
    <2>3. assets \subseteq Cards \cup Slots
        BY <2>1, <2>2
    <2>4. linked = (assets \cap Cards) \cup (Elsewhere \ Uploads)
        BY DEF Init
    <2>5. linked \subseteq Cards \ Uploads
        BY <2>1, <2>2, <2>4, CardsAreCards
    <2>6. holding \in [Slots -> Cards \cup {NoCard}] /\ watch \in [Slots -> Cards \cup {NoCard}]
        BY <1>4 DEF Init, Pocket
    <2> QED
        BY <2>3, <2>5, <2>6 DEF Vip
<1>6. RowsWereMarked
    <2>1. ASSUME NEW s \in Slots, holding[s] # NoCard
          PROVE  \E h \in marked : h[1] = s /\ h[2].card = holding[s] /\ h[2].owned
        <3>1. s \in DOMAIN slot /\ slot[s].owned /\ slot[s].card = holding[s]
            BY <2>1 DEF Init
        <3>2. <<s, slot[s]>> \in marked
            BY <1>1, <3>1 DEF MarkedNow
        <3> QED
            BY <3>1, <3>2
    <2>2. ASSUME NEW s \in Slots, watch[s] # NoCard
          PROVE  \E h \in marked : h[1] = s /\ h[2].card = watch[s] /\ h[2].wish
        <3>1. s \in DOMAIN slot /\ slot[s].wish /\ slot[s].card = watch[s]
            BY <2>2 DEF Init
        <3>2. <<s, slot[s]>> \in marked
            BY <1>1, <3>1 DEF MarkedNow
        <3> QED
            BY <3>1, <3>2
    <2> QED
        BY <2>1, <2>2 DEF RowsWereMarked
<1>7. /\ req \in [Requests -> Request]
      /\ \A r \in Requests : Sane(req[r], made, marked) /\ ~req[r].alone
    BY <1>1, Idle, IdleIsRequest
<1> QED
    BY <1>1, <1>3, <1>5, <1>6, <1>7, BinderBounds DEF IInv, Inv, Lonely, OnItsWay

LEMMA EditStep == IInv /\ Edits => IInv'
<1> SUFFICES ASSUME IInv, Edits PROVE IInv'
    OBVIOUS
<1>1. /\ Edit /\ UnchangedVip /\ UNCHANGED <<made, binders>>
      /\ Pockets' /\ marked \subseteq marked'
    <2>1. Pockets
        BY DEF IInv, Inv
    <2>2. CASE \E s \in Slots, c \in Cards : WriteCard(s, c)
        <3> PICK s \in Slots, c \in Cards : WriteCard(s, c)
            BY <2>2
        <3>1. [Empty EXCEPT !.card = c] \in Pocket
            BY EmptyIsPocket DEF Pocket
        <3> QED
            BY <2>1, <3>1, PutKeeps DEF WriteCard
    <2>3. CASE \E s \in Slots : ClearSlot(s)
        BY <2>1, <2>3, PutKeeps, EmptyIsPocket DEF ClearSlot
    <2>4. CASE \E p \in Pages : DeletePage(p)
        BY <2>1, <2>4, DropKeeps DEF DeletePage
    <2> QED
        BY <2>2, <2>3, <2>4 DEF Edits
<1>2. Vip' /\ RowsWereMarked'
    BY <1>1, VipStays DEF IInv
<1>3. req' = [r \in Requests |-> HinderedOne(req[r])]
    BY <1>1 DEF Edit, Hindered
<1>4. \A r \in Requests : Sane(req'[r], made', marked') /\ ~req'[r].alone
    <2>1. \A r \in Requests : Sane(HinderedOne(req[r]), made, marked) /\ ~HinderedOne(req[r]).alone
        BY HinderedIsSane DEF IInv, Inv
    <2> QED
        BY <1>1, <1>3, <2>1, SaneGrows
<1>5. req' \in [Requests -> Request]
    BY <1>3, <1>4 DEF Sane
<1>6. edits' \in 0..MaxEdits
    BY <1>1, BinderBounds DEF Edit, IInv, Inv
<1> QED
    BY <1>1, <1>2, <1>4, <1>5, <1>6 DEF IInv, Inv, Lonely, OnItsWay

LEMMA BeginStep == ASSUME IInv, NEW r \in Requests, Begins(r) PROVE IInv'
<1> PICK n : Starts(r, n)
    BY BeginSteps DEF IInv
<1> DEFINE resting == \A q \in Requests : req[q].pc \in {"idle", "done"}
<1> PICK m : m = IF resting THEN [n EXCEPT !.alone = TRUE] ELSE HinderedOne(n)
    OBVIOUS
<1>1. /\ req' = [Hindered EXCEPT ![r] = m] /\ edits < MaxEdits /\ edits' = edits + 1
      /\ Sane(n, made', marked') /\ made \subseteq made' /\ made' \subseteq Pages
      /\ UNCHANGED <<binders, slot, marked>> /\ UnchangedVip /\ req[r].pc = "idle"
    BY DEF Starts, Begin, At
<1>2. Sane(m, made', marked') /\ m.pc = n.pc /\ m.todo = n.todo /\ (m.alone => resting /\ m.scope = n.scope)
    <2>1. n \in Request
        BY <1>1 DEF Sane
    <2>2. CASE resting
        <3>1. /\ [n EXCEPT !.alone = TRUE] \in Request
              /\ [n EXCEPT !.alone = TRUE].pc = n.pc /\ [n EXCEPT !.alone = TRUE].slot = n.slot
              /\ [n EXCEPT !.alone = TRUE].from = n.from /\ [n EXCEPT !.alone = TRUE].set = n.set
              /\ [n EXCEPT !.alone = TRUE].copies = n.copies
              /\ [n EXCEPT !.alone = TRUE].read = n.read /\ [n EXCEPT !.alone = TRUE].todo = n.todo
              /\ [n EXCEPT !.alone = TRUE].scope = n.scope
            BY <2>1 DEF Request
        <3>2. m = [n EXCEPT !.alone = TRUE]
            BY <2>2
        <3> HIDE DEF resting
        <3> QED
            BY <1>1, <2>2, <3>1, <3>2 DEF Sane
    <2>3. CASE ~resting
        <3>1. m = HinderedOne(n)
            BY <2>3
        <3>2. HinderedOne(n).pc = n.pc /\ HinderedOne(n).todo = n.todo
            BY <2>1 DEF HinderedOne, Request
        <3> HIDE DEF resting
        <3> QED
            BY <1>1, <3>1, <3>2, HinderedIsSane
    <2> QED
        BY <2>2, <2>3
<1>3. \A q \in Requests : q # r => req'[q] = HinderedOne(req[q])
    BY <1>1 DEF Hindered
<1>4. req'[r] = m
    BY <1>1 DEF Hindered
<1>5. \A q \in Requests : /\ Sane(req'[q], made', marked')
                          /\ q # r => ~req'[q].alone /\ req'[q].pc = req[q].pc
    <2>1. \A q \in Requests : /\ Sane(HinderedOne(req[q]), made, marked)
                              /\ ~HinderedOne(req[q]).alone /\ HinderedOne(req[q]).pc = req[q].pc
        <3>1. \A q \in Requests : req[q] \in Request /\ Sane(req[q], made, marked)
            BY DEF IInv, Inv
        <3> QED
            BY <3>1, HinderedIsSane DEF HinderedOne, Request
    <2>2. \A q \in Requests : q # r => Sane(req'[q], made', marked')
        BY <1>1, <1>3, <2>1, SaneGrows
    <2> QED
        BY <1>2, <1>3, <1>4, <2>1, <2>2
<1>6. req' \in [Requests -> Request]
    <2>1. req' = [q \in Requests |-> req'[q]]
        BY <1>1 DEF Hindered
    <2> QED
        BY <1>5, <2>1 DEF Sane
<1>7. Pockets'
    BY <1>1, PocketsStay DEF IInv, Inv
<1>8. Vip' /\ RowsWereMarked'
    BY <1>1, VipStays DEF IInv
<1>9. Inv'
    <2>1. edits' \in 0..MaxEdits
        BY <1>1, BinderBounds DEF IInv, Inv
    <2>2. binders' \subseteq {BinderOf[p] : p \in Pages}
        BY <1>1 DEF IInv, Inv
    <2> QED
        BY <1>5, <1>6, <1>7, <1>8, <2>1, <2>2 DEF Inv
<1>10. Lonely'
    BY <1>2, <1>4, <1>5 DEF Lonely
<1>11. OnItsWay'
    <2>1. ASSUME m.alone, m.pc \in Way
          PROVE  Missing(m)' /\ \A s \in Filled(m.scope)' : Done(m, s)'
        <3>1. n.pc \notin {"done"} \cup Projecting
            BY DEF Starts
        <3>2. m.pc = "project" /\ n.pc = "project"
            BY <1>2, <2>1, <3>1 DEF Way
        <3>3. Filled(m.scope) \subseteq m.todo
            BY <1>2, <2>1, <3>2 DEF Starts
        <3>4. Filled(m.scope)' = Filled(m.scope)
            BY <1>1 DEF Filled
        <3> QED
            BY <3>2, <3>3, <3>4 DEF Missing, Done, Projecting
    <2>2. ASSUME NEW q \in Requests, req'[q].alone PROVE q = r
        BY <1>5, <2>2
    <2> QED
        BY <1>4, <2>1, <2>2 DEF OnItsWay
<1> QED
    BY <1>9, <1>10, <1>11 DEF IInv

LEMMA GoOnStep == ASSUME IInv, NEW r \in Requests, GoesOn(r) PROVE IInv'
<1> PICK n : Goes(r, n)
    BY GoesOnSteps DEF IInv
<1>1. req \in [Requests -> Request] /\ req' = [req EXCEPT ![r] = n]
    BY DEF IInv, Inv, Goes
<1>2. req'[r] = n /\ \A q \in Requests : q # r => req'[q] = req[q]
    BY <1>1
<1>3. \A q \in Requests : Sane(req'[q], made', marked')
    <2>1. \A q \in Requests : Sane(req[q], made, marked)
        BY DEF IInv, Inv
    <2>2. \A q \in Requests : Sane(req[q], made', marked')
        BY <2>1, SaneGrows DEF Goes
    <2> QED
        BY <1>2, <2>2 DEF Goes
<1>4. n \in Request
    BY DEF Goes, Sane
<1>5. Inv'
    BY <1>1, <1>3, <1>4 DEF IInv, Inv, Goes
\* Only a request at rest goes on beside one that is alone, and it ends.
<1>6. ASSUME NEW q \in Requests, q # r, req[q].alone
      PROVE  n = NoRequest /\ UNCHANGED <<slot, holding, watch, assets>>
    BY <1>6 DEF IInv, Lonely, Goes
<1>7. Lonely'
    BY <1>2, <1>6, IdleIsRequest DEF IInv, Lonely, Goes
<1>8. OnItsWay'
    <2>1. ASSUME n.alone, n.pc \in Way
          PROVE  Missing(n)' /\ \A s \in Filled(n.scope)' : Done(n, s)'
        BY <2>1, KnowsItsWay DEF IInv
    <2>2. ASSUME NEW q \in Requests, q # r, req[q].alone, req[q].pc \in Way
          PROVE  Missing(req[q])' /\ \A s \in Filled(req[q].scope)' : Done(req[q], s)'
        <3>1. Missing(req[q]) /\ \A s \in Filled(req[q].scope) : Done(req[q], s)
            BY <2>2 DEF IInv, OnItsWay
        <3>2. UNCHANGED <<slot, holding, watch, assets>> /\ req'[q] = req[q]
            BY <1>2, <1>6, <2>2
        <3> QED
            BY <3>1, <3>2 DEF Missing, Filled, Done, Mirrored
    <2> QED
        BY <1>2, <2>1, <2>2 DEF OnItsWay
<1> QED
    BY <1>5, <1>7, <1>8 DEF IInv

LEMMA Invariance == Spec => []IInv
<1>1. Init => IInv
    BY EmptyVault
<1>2. IInv /\ [Next]_vars => IInv'
    <2> SUFFICES ASSUME IInv, [Next]_vars PROVE IInv'
        OBVIOUS
    <2>1. CASE Next
        BY <2>1, EditStep, BeginStep, GoOnStep DEF Next
    <2>2. CASE UNCHANGED vars
        BY <2>2 DEF vars, IInv, Inv, Pockets, Vip, MarkedNow, RowsWereMarked, Lonely, OnItsWay,
                    Missing, Filled, Done, Mirrored
    <2> QED
        BY <2>1, <2>2
<1> QED
    BY <1>1, <1>2, PTL DEF Spec

-----------------------------------------------------------------------------
(* Theorems                                                                *)

\* Pockets, VIP's rows and the requests on their way keep their types, for any
\* pages, cards and requests.
THEOREM TypeCorrect == Spec => []TypeOK
<1>1. IInv => TypeOK
    BY DEF IInv, Inv, Pockets, Vip, TypeOK
<1> QED
    BY <1>1, Invariance, PTL

\* A holding or a watch-list row from a pocket is of a card that was marked so
\* in that very pocket, whatever overtook the projection that wrote it.
THEOREM RowsFollowMarks == Spec => []RowsWereMarked
<1>1. IInv => RowsWereMarked
    BY DEF IInv, Inv
<1> QED
    BY <1>1, Invariance, PTL

\* A push, a sync or a toggle nobody hinders leaves the rows of every filled
\* pocket it was about as the binder has them, whatever was there before.
THEOREM PushesMirror == Spec => []UnhinderedMirrors
<1>1. IInv => UnhinderedMirrors
    BY DEF IInv, OnItsWay, UnhinderedMirrors, Way, Done, Projecting, At
<1> QED
    BY <1>1, Invariance, PTL
=============================================================================
