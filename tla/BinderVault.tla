------------------------------ MODULE BinderVault ------------------------------
(***************************************************************************)
(* Binder Vault's pockets and VIP's rows about them: the pocket edits of    *)
(* apps/binder-vault/src/lib/repo.ts, and the projection of owned and       *)
(* wishlisted pockets into vault_collection.holding and watchlist_item      *)
(* (services/api/src/lib/binderWrite.ts) that toggles, Push to VIP and      *)
(* Sync Owned call.                                                         *)
(*                                                                         *)
(* Neither side opens a transaction: every statement is a step of its own.  *)
(* A request of the Binder that has more than one is a Request under way.   *)
(***************************************************************************)
EXTENDS Integers, FiniteSets

CONSTANTS
    Pages, BinderOf,  \* page ids, and the binder each is or will be in
    SizeOf,           \* per page: its pockets
    Cards, Uploads,   \* what is put into pockets; uploads have no external id
    NoCard, NoBinder, \* null
    Requests,
    FirstPages,       \* the pages there are at first
    FirstPocket,      \* and what is in their pockets, already pushed
    Elsewhere,        \* cards VIP holds otherwise (comics, scans, seeds)
    MaxEdits          \* bound: requests

Slots == UNION {{<<p, i>> : i \in 1..SizeOf[p]} : p \in Pages}
SlotsOf(P) == {s \in Slots : s[1] \in P}
Binder(s) == BinderOf[s[1]]

ASSUME BinderBounds == MaxEdits \in Nat /\ SizeOf \in [Pages -> Nat]
ASSUME CardsAreCards == Uploads \subseteq Cards /\ Elsewhere \subseteq Cards /\ NoCard \notin Cards
ASSUME FirstAreThere == FirstPages \subseteq Pages
ASSUME NoCardIsASlot == Cards \cap Slots = {}

VARIABLES
    made,             \* pages that were ever made: ids are not used again
    binders,          \* vault_tcg.binder: the binders there are
    slot,             \* vault_tcg.binder_slot: the pockets there are
    assets,           \* vault_core.asset: slugs
    linked,           \* vault_core.external_id: cards
    holding, watch,   \* per pocket: the card of VIP's row, source binder_vault
    req,              \* requests under way
    marked,           \* history: what each pocket has held that was marked
    edits

vars == <<made, binders, slot, assets, linked, holding, watch, req, marked, edits>>

Pocket == [card: Cards \cup {NoCard}, owned: BOOLEAN, wish: BOOLEAN]
Empty == [card |-> NoCard, owned |-> FALSE, wish |-> FALSE]

ASSUME FirstPocketsAreSound ==
    /\ FirstPocket \in [SlotsOf(FirstPages) -> Pocket]
    /\ \A s \in SlotsOf(FirstPages) :
          FirstPocket[s].owned \/ FirstPocket[s].wish => FirstPocket[s].card # NoCard

Filled(S) == {s \in S \cap DOMAIN slot : slot[s].card # NoCard}
PagesOf(b) == {p \in Pages : BinderOf[p] = b /\ SlotsOf({p}) \subseteq DOMAIN slot}

Steps == {"idle", "flag", "source", "target", "back", "insertPage", "deletePage", "sync", "mark",
          "project", "asset", "insert", "link", "holding", "watch", "done"}

NoSlot == <<>>

\* read and read2 are rows as they were read; todo is what is still to be done,
\* pages will be deleted; alone: nothing failed or was asked for since, and scope
\* is then what it is about.
Request == [pc: Steps, slot: Slots \cup {NoSlot}, from: Slots \cup {NoSlot},
            set: {"", "owned", "wish"}, on: BOOLEAN, read: Pocket, read2: Pocket,
            todo: SUBSET Slots, scope: SUBSET Slots, cards: SUBSET Cards, pages: SUBSET Pages, binder: {BinderOf[p] : p \in Pages} \cup {NoBinder},
            copies: UNION {[S -> Pocket] : S \in SUBSET Slots}, alone: BOOLEAN]

NoRequest == [pc |-> "idle", slot |-> NoSlot, from |-> NoSlot, set |-> "", on |-> FALSE,
              read |-> Empty, read2 |-> Empty, todo |-> {}, scope |-> {}, cards |-> {},
              pages |-> {}, binder |-> NoBinder, copies |-> <<>>, alone |-> FALSE]

TypeOK ==
    /\ made \subseteq Pages /\ binders \subseteq {BinderOf[p] : p \in Pages}
    /\ DOMAIN slot \subseteq SlotsOf(made) /\ slot \in [DOMAIN slot -> Pocket]
    /\ assets \subseteq Cards \cup Slots
    /\ linked \subseteq Cards \ Uploads
    /\ {holding, watch} \subseteq [Slots -> Cards \cup {NoCard}]
    /\ req \in [Requests -> Request]
    /\ edits \in 0..MaxEdits

\* slugFor: an upload is named after its pocket.
Slug(s, c) == IF c \in Uploads THEN s ELSE c

MarkedNow(pockets) ==
    {<<s, pockets[s]>> : s \in {x \in DOMAIN pockets : pockets[x].owned \/ pockets[x].wish}}

Init ==
    /\ made = FirstPages
    /\ binders = {BinderOf[p] : p \in Pages}
    /\ slot = FirstPocket
    /\ holding = [s \in Slots |-> IF s \in DOMAIN slot /\ slot[s].owned THEN slot[s].card ELSE NoCard]
    /\ watch = [s \in Slots |-> IF s \in DOMAIN slot /\ slot[s].wish THEN slot[s].card ELSE NoCard]
    /\ assets = {Slug(s, slot[s].card) : s \in {x \in DOMAIN slot : slot[x].owned \/ slot[x].wish}}
    /\ linked = (assets \cap Cards) \cup (Elsewhere \ Uploads)
    /\ req = [r \in Requests |-> NoRequest]
    /\ marked = MarkedNow(slot)
    /\ edits = 0

-----------------------------------------------------------------------------
(* Helpers                                                                 *)

At(r, pc) == req[r].pc = pc

Becomes(r, next) == req' = [req EXCEPT ![r] = next]

\* A new request hinders those under way.
HinderedOne(q) == [q EXCEPT !.alone = FALSE, !.scope = {}]

Hindered == [r \in Requests |-> HinderedOne(req[r])]

Scope(q, S) == IF q.alone THEN S ELSE {}

Begin(r, next) ==
    /\ At(r, "idle") /\ edits < MaxEdits
    /\ req' = [Hindered EXCEPT ![r] =
                  IF \A q \in Requests : req[q].pc \in {"idle", "done"}
                  THEN [next EXCEPT !.alone = TRUE] ELSE HinderedOne(next)]
    /\ edits' = edits + 1

\* An edit of one statement.
Edit ==
    /\ edits < MaxEdits /\ edits' = edits + 1
    /\ req' = Hindered

\* UPDATE binder_slot ... WHERE id = s
Put(s, pocket) ==
    /\ slot' = IF s \in DOMAIN slot THEN [slot EXCEPT ![s] = pocket] ELSE slot
    /\ marked' = marked \cup MarkedNow(slot')

\* INSERT of pockets with new ids
Join(pockets) ==
    /\ slot' = [s \in DOMAIN pockets \cup DOMAIN slot |->
                   IF s \in DOMAIN pockets THEN pockets[s] ELSE slot[s]]
    /\ marked' = marked \cup MarkedNow(slot')

Drop(S) == slot' = [s \in DOMAIN slot \ S |-> slot[s]] /\ UNCHANGED marked

UnchangedVip == UNCHANGED <<assets, linked, holding, watch>>
UnchangedBinder == UNCHANGED <<made, binders, slot, marked>>

-----------------------------------------------------------------------------
(* Pockets and pages                                                       *)

\* writeSlot, card or upload: the marks are those of the card that was there.
WriteCard(s, c) ==
    /\ s \in DOMAIN slot
    /\ Edit /\ Put(s, [Empty EXCEPT !.card = c])
    /\ UnchangedVip /\ UNCHANGED <<made, binders>>

ClearSlot(s) ==
    /\ s \in DOMAIN slot
    /\ Edit /\ Put(s, Empty)
    /\ UnchangedVip /\ UNCHANGED <<made, binders>>

\* writeSlot, move: both pockets are read, then written, one after the other.
Move(r, s, from) ==
    /\ s \in DOMAIN slot
    /\ Begin(r, [NoRequest EXCEPT !.pc = "source", !.slot = s, !.from = from, !.read = slot[s]])
    /\ UnchangedBinder /\ UnchangedVip

ReadSource(r) ==
    LET q == req[r]
    IN  /\ At(r, "source")
        /\ Becomes(r, IF q.from \in DOMAIN slot /\ Binder(q.from) = Binder(q.slot)
                      THEN [q EXCEPT !.pc = "target", !.read2 = slot[q.from]]
                      ELSE NoRequest)
        /\ UnchangedBinder /\ UnchangedVip /\ UNCHANGED edits

WriteTarget(r) ==
    /\ At(r, "target")
    /\ Put(req[r].slot, req[r].read2)
    /\ Becomes(r, [req[r] EXCEPT !.pc = "back"])
    /\ UnchangedVip /\ UNCHANGED <<made, binders, edits>>

WriteSource(r) ==
    /\ At(r, "back")
    /\ Put(req[r].from, IF req[r].read.card # NoCard THEN req[r].read ELSE Empty)
    /\ Becomes(r, NoRequest)
    /\ UnchangedVip /\ UNCHANGED <<made, binders, edits>>

\* The only page of a binder stays.
DeletePage(p) ==
    /\ p \in PagesOf(BinderOf[p]) /\ PagesOf(BinderOf[p]) # {p}
    /\ Edit /\ Drop(SlotsOf({p}))
    /\ UnchangedVip /\ UNCHANGED <<made, binders>>

\* A page row comes with its pockets, empty or copies; copies carry the marks of
\* the cards into pockets of new ids.
MakePage(r, q, copies, moved) ==
    /\ q \notin made /\ BinderOf[q] \in binders
    /\ Begin(r, [NoRequest EXCEPT !.pc = "insertPage", !.pages = moved, !.copies = copies])
    /\ made' = made \cup {q}
    /\ UNCHANGED <<binders, slot, marked>> /\ UnchangedVip

\* addPage; createBinder adds the first page of a binder.
AddPage(r, q) == MakePage(r, q, [s \in SlotsOf({q}) |-> Empty], {})

\* transferPage
TransferPage(r, p, q, moves) ==
    /\ p \in PagesOf(BinderOf[p])
    /\ BinderOf[q] # BinderOf[p]
    /\ moves => PagesOf(BinderOf[p]) # {p}
    /\ MakePage(r, q, [s \in SlotsOf({q}) |->
                          IF <<p, s[2]>> \in Filled(Slots) THEN slot[<<p, s[2]>>] ELSE Empty],
                IF moves THEN {p} ELSE {})

\* Refused if the binder has been deleted.
InsertPage(r) ==
    /\ At(r, "insertPage")
    /\ IF \A s \in DOMAIN req[r].copies : Binder(s) \in binders
       THEN /\ Join(req[r].copies)
            /\ Becomes(r, IF req[r].pages = {} THEN NoRequest
                          ELSE [req[r] EXCEPT !.pc = "deletePage"])
       ELSE UNCHANGED <<slot, marked>> /\ Becomes(r, NoRequest)
    /\ UnchangedVip /\ UNCHANGED <<made, binders, edits>>

\* The page that was moved, or the pages of a binder that is deleted, one after
\* the other.
DeletePages(r, p) ==
    /\ At(r, "deletePage") /\ p \in req[r].pages
    /\ Drop(SlotsOf({p}))
    /\ Becomes(r, IF req[r].pages # {p} THEN [req[r] EXCEPT !.pages = @ \ {p}]
                  ELSE IF req[r].binder = NoBinder THEN NoRequest ELSE [req[r] EXCEPT !.pages = {}])
    /\ UnchangedVip /\ UNCHANGED <<made, binders, edits>>

\* deleteBinder: pages made since it began go with the binder.
DeleteBinder(r, b) ==
    /\ PagesOf(b) # {}
    /\ Begin(r, [NoRequest EXCEPT !.pc = "deletePage", !.binder = b, !.pages = PagesOf(b)])
    /\ UnchangedBinder /\ UnchangedVip

BinderGone(r) ==
    LET b == req[r].binder
    IN  /\ At(r, "deletePage") /\ req[r].pages = {}
        /\ Drop({s \in Slots : Binder(s) = b}) /\ binders' = binders \ {b}
        /\ Becomes(r, NoRequest)
        /\ UnchangedVip /\ UNCHANGED <<made, edits>>

-----------------------------------------------------------------------------
(* What projects                                                           *)

\* setSlotOwned, setSlotWishlist: filled pockets only, then projectSlotToVip.
Toggle(r, s, set, on) ==
    /\ s \in Filled(Slots)
    /\ Begin(r, [NoRequest EXCEPT !.pc = "flag", !.slot = s, !.set = set, !.on = on])
    /\ UnchangedBinder /\ UnchangedVip

WithFlag(pocket, set, on) ==
    IF set = "owned" THEN [pocket EXCEPT !.owned = on] ELSE [pocket EXCEPT !.wish = on]

SetFlag(r) ==
    LET q == req[r]
    IN  /\ At(r, "flag")
        /\ IF q.slot \in DOMAIN slot
           THEN Put(q.slot, WithFlag(slot[q.slot], q.set, q.on))
           ELSE UNCHANGED <<slot, marked>>
        /\ Becomes(r, [q EXCEPT !.pc = "project", !.todo = {q.slot}, !.scope = Scope(q, {q.slot}), !.set = ""])
        /\ UnchangedVip /\ UNCHANGED <<made, binders, edits>>

\* Mutant: pockets without a mark are not pushed.
PushMarks(r, S) ==
    /\ Begin(r, [NoRequest EXCEPT !.pc = "project", !.scope = S,
                    !.todo = {s \in Filled(S) : slot[s].owned \/ slot[s].wish}])
    /\ UnchangedBinder /\ UnchangedVip

\* Push to VIP: the filled pockets, of one binder or of all.
Push(r, S) ==
    /\ Begin(r, [NoRequest EXCEPT !.pc = "project", !.todo = Filled(S), !.scope = S])
    /\ UnchangedBinder /\ UnchangedVip

\* External ids of GET /api/inventory, pockets that are only needed left out.
Inventory ==
    LET durable == {s \in Slots : holding[s] # NoCard}
    IN  ({holding[s] : s \in durable} \cap linked)
        \cup ({slot[s].card : s \in {x \in Filled(Slots) \ durable : slot[x].owned}} \ Uploads)
        \cup (Elsewhere \ Uploads)

\* Sync Owned: VIP's inventory, then the pockets, then one UPDATE each.
SyncOwned(r) ==
    /\ Begin(r, [NoRequest EXCEPT !.pc = "sync", !.cards = Inventory])
    /\ UnchangedBinder /\ UnchangedVip

MatchPockets(r) ==
    /\ At(r, "sync")
    /\ Becomes(r, [req[r] EXCEPT !.pc = "mark",
                      !.scope = Scope(req[r], Slots),
                      !.todo = {s \in Filled(Slots) : slot[s].card \in req[r].cards /\ ~slot[s].owned}])
    /\ UnchangedBinder /\ UnchangedVip /\ UNCHANGED edits

MarkOwned(r, s) ==
    /\ At(r, "mark") /\ s \in req[r].todo
    /\ IF s \in DOMAIN slot
       THEN Put(s, WithFlag(slot[s], "owned", TRUE))
       ELSE UNCHANGED <<slot, marked>>
    /\ Becomes(r, [req[r] EXCEPT !.todo = @ \ {s}])
    /\ UnchangedVip /\ UNCHANGED <<made, binders, edits>>

PushMarked(r) ==
    /\ At(r, "mark") /\ req[r].todo = {}
    /\ Becomes(r, [req[r] EXCEPT !.pc = "project", !.todo = Filled(Slots),
                      !.cards = {}])
    /\ UnchangedBinder /\ UnchangedVip /\ UNCHANGED edits

-----------------------------------------------------------------------------
(* The projection of one pocket after the other: projectSlotToVip           *)

NextSlot(q) == [q EXCEPT !.pc = IF q.todo = {} THEN "done" ELSE "project",
                         !.read = Empty, !.slot = <<>>]

\* loadBinderSlot: an emptied pocket is not found, and that is all.
ReadSlot(r, s) ==
    LET left == [req[r] EXCEPT !.todo = @ \ {s}, !.slot = s]
    IN  /\ At(r, "project") /\ s \in req[r].todo
        /\ Becomes(r, IF s \notin Filled(Slots) THEN NextSlot(left)
                      ELSE [left EXCEPT !.read = slot[s],
                               !.pc = IF slot[s].owned \/ slot[s].wish THEN "asset" ELSE "holding"])
        /\ UnchangedBinder /\ UnchangedVip /\ UNCHANGED edits

\* Nothing was filled when the ids were read.
NothingToPush(r) ==
    /\ At(r, "project") /\ req[r].todo = {}
    /\ Becomes(r, [req[r] EXCEPT !.pc = "done"])
    /\ UnchangedBinder /\ UnchangedVip /\ UNCHANGED edits

SlugAt(r) == Slug(req[r].slot, req[r].read.card)

\* ensureAsset: by external id, then by slug.
FindAsset(r) ==
    /\ At(r, "asset")
    /\ Becomes(r, [req[r] EXCEPT !.pc =
                      IF req[r].read.card \in linked THEN "holding"
                      ELSE IF SlugAt(r) \notin assets THEN "insert"
                      ELSE IF req[r].read.card \in Uploads THEN "holding" ELSE "link"])
    /\ UnchangedBinder /\ UnchangedVip /\ UNCHANGED edits

\* Mutant: an upload gets an external id.
InsertAssetLinks(r) ==
    /\ At(r, "insert")
    /\ assets' = assets \cup {SlugAt(r)}
    /\ Becomes(r, IF SlugAt(r) \in assets THEN NextSlot(req[r]) ELSE [req[r] EXCEPT !.pc = "link"])
    /\ UnchangedBinder /\ UNCHANGED <<linked, holding, watch, edits>>

\* Slugs are unique: what another projection has just inserted is an error.
InsertAsset(r) ==
    /\ At(r, "insert")
    /\ assets' = assets \cup {SlugAt(r)}
    /\ Becomes(r, IF SlugAt(r) \in assets THEN NextSlot(req[r])
                  ELSE [req[r] EXCEPT !.pc = IF req[r].read.card \in Uploads THEN "holding" ELSE "link"])
    /\ UnchangedBinder /\ UNCHANGED <<linked, holding, watch, edits>>

LinkAsset(r) ==
    /\ At(r, "link")
    /\ linked' = linked \cup {req[r].read.card}
    /\ Becomes(r, [req[r] EXCEPT !.pc = "holding"])
    /\ UnchangedBinder /\ UNCHANGED <<assets, holding, watch, edits>>

\* Mutant: the mark that was read, the card that is there.
WriteHoldingAsNow(r) ==
    LET q == req[r]
    IN  /\ At(r, "holding")
        /\ holding' = [holding EXCEPT ![q.slot] =
                          IF q.read.owned /\ q.slot \in Filled(Slots) THEN slot[q.slot].card ELSE NoCard]
        /\ Becomes(r, [q EXCEPT !.pc = "watch"])
        /\ UnchangedBinder /\ UNCHANGED <<assets, linked, watch, edits>>

\* upsertOwnedHolding, deleteOwnedHolding
WriteHolding(r) ==
    LET q == req[r]
    IN  /\ At(r, "holding")
        /\ holding' = [holding EXCEPT ![q.slot] = IF q.read.owned THEN q.read.card ELSE NoCard]
        /\ Becomes(r, [q EXCEPT !.pc = "watch"])
        /\ UnchangedBinder /\ UNCHANGED <<assets, linked, watch, edits>>

\* upsertWishlist, deleteWishlist
WriteWatch(r) ==
    LET q == req[r]
    IN  /\ At(r, "watch")
        /\ watch' = [watch EXCEPT ![q.slot] = IF q.read.wish THEN q.read.card ELSE NoCard]
        /\ Becomes(r, NextSlot(q))
        /\ UnchangedBinder /\ UNCHANGED <<assets, linked, holding, edits>>

\* What a statement throws is an error of its pocket, and a push goes on.
SlotFails(r) ==
    /\ req[r].pc \in {"asset", "insert", "link", "holding", "watch"}
    /\ Becomes(r, HinderedOne(NextSlot(req[r])))
    /\ UnchangedBinder /\ UnchangedVip /\ UNCHANGED edits

Answer(r) ==
    /\ At(r, "done")
    /\ Becomes(r, NoRequest)
    /\ UnchangedBinder /\ UnchangedVip /\ UNCHANGED edits

\* A statement of the Binder fails, VIP cannot be reached, or a process ends.
Die(r) ==
    /\ ~At(r, "idle")
    /\ Becomes(r, NoRequest)
    /\ UnchangedBinder /\ UnchangedVip /\ UNCHANGED edits

-----------------------------------------------------------------------------
Edits ==
    \/ \E s \in Slots, c \in Cards : WriteCard(s, c)
    \/ \E s \in Slots : ClearSlot(s)
    \/ \E p \in Pages : DeletePage(p)

Begins(r) ==
    \/ \E s \in Slots, from \in Slots : Move(r, s, from)
    \/ \E q \in Pages : AddPage(r, q)
    \/ \E b \in binders : DeleteBinder(r, b)
    \/ \E p, q \in Pages, moves \in BOOLEAN : TransferPage(r, p, q, moves)
    \/ \E s \in Slots, set \in {"owned", "wish"}, on \in BOOLEAN : Toggle(r, s, set, on)
    \/ \E S \in {Slots} \cup {SlotsOf(PagesOf(b)) : b \in {BinderOf[p] : p \in Pages}} : Push(r, S)
    \/ SyncOwned(r)

GoesOn(r) ==
    \/ ReadSource(r) \/ WriteTarget(r) \/ WriteSource(r)
    \/ InsertPage(r) \/ (\E p \in Pages : DeletePages(r, p)) \/ BinderGone(r)
    \/ SetFlag(r)
    \/ MatchPockets(r) \/ (\E s \in Slots : MarkOwned(r, s)) \/ PushMarked(r)
    \/ (\E s \in Slots : ReadSlot(r, s)) \/ NothingToPush(r)
    \/ FindAsset(r) \/ InsertAsset(r) \/ LinkAsset(r)
    \/ WriteHolding(r) \/ WriteWatch(r) \/ SlotFails(r) \/ Answer(r) \/ Die(r)

Next == Edits \/ \E r \in Requests : Begins(r) \/ GoesOn(r)

Spec == Init /\ [][Next]_vars

-----------------------------------------------------------------------------
(* Properties                                                              *)

\* "Owned Binder slots become durable holding rows", wishlisted ones rows of the
\* watch list: of a card that was marked in that very pocket, however pockets
\* are moved, refilled and deleted while rows are written.
RowsWereMarked ==
    \A s \in Slots :
        /\ holding[s] # NoCard =>
              \E h \in marked : h[1] = s /\ h[2].card = holding[s] /\ h[2].owned
        /\ watch[s] # NoCard =>
              \E h \in marked : h[1] = s /\ h[2].card = watch[s] /\ h[2].wish

Mirrored(s) ==
    /\ holding[s] = IF slot[s].owned THEN slot[s].card ELSE NoCard
    /\ watch[s] = IF slot[s].wish THEN slot[s].card ELSE NoCard

\* Whatever went wrong before, a push or a sync nobody hinders leaves VIP's rows
\* of every filled pocket as the binder has them, and a toggle those of its own.
UnhinderedMirrors ==
    \A r \in Requests :
        At(r, "done") /\ req[r].alone =>
            \A s \in Filled(req[r].scope) : Mirrored(s)
=============================================================================
