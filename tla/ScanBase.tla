------------------------------- MODULE ScanBase -------------------------------
(***************************************************************************)
(* The tables of card scanning, and the one operation that turns a staged   *)
(* scan into inventory (scanStorePg.ts resolveUnit), which both an import   *)
(* with automatic resolution and the operator's requests call.              *)
(*                                                                         *)
(* A unit is the scan of one image in one batch.  A candidate is a catalog  *)
(* key; a key out of Cards carries the external id of its card, the key the *)
(* operator types carries none.  Assets are numbers, 0 is null, and a new   *)
(* asset is one nothing refers to.                                          *)
(***************************************************************************)
EXTENDS Integers, FiniteSets

CONSTANTS
    Images,           \* scanned fronts, each told apart by its content hash
    Batches,          \* scan batches; an import is named by its batch
    Requests,         \* concurrent requests of the operator
    Cards,            \* catalog keys with an external id
    Typed,            \* the catalog key of an identity the operator typed
    None,             \* "no candidate", "no unit"
    MaxAssets,        \* bound: assets in use at once
    Crashes           \* whether statements fail and processes die

ASSUME NoneIsNoKey == None \notin Cards \cup {Typed} /\ None \notin Batches \X Images
ASSUME TypedIsNoCard == Typed \notin Cards
ASSUME ActorsAreDistinct == Requests \cap Batches = {}
ASSUME AssetsAreNat == MaxAssets \in Nat \ {0} /\ Crashes \in BOOLEAN

VARIABLES
    unit,             \* vault_media.scan_unit
    cands, top,       \* its candidates, and the one of the highest confidence
    holding,          \* vault_collection.holding per source unit: its asset
    ext,              \* vault_core.external_id per card: its asset
    batch,            \* vault_media.scan_batch: status
    res               \* calls of resolveUnit in progress

baseVars == <<unit, cands, top, holding, ext, batch, res>>

Units == Batches \X Images
Keys == Cards \cup {Typed}
Actors == Requests \cup Batches
Assets == 1..MaxAssets

\* "absent" is a unit that was not inserted, "staged" a null resolution_mode.
Modes == {"absent", "staged", "rejected", "operator", "auto"}
ConfirmedModes == {"operator", "auto"}

\* turned: "yes" if its two images are taken the other way round than they were
\* scanned, "back" if they were once.
Unit == [mode: Modes, asset: 0..MaxAssets, list: BOOLEAN, dupe: BOOLEAN, physical: BOOLEAN,
         turned: {"no", "yes", "back"}]

NoUnit == [mode |-> "absent", asset |-> 0, list |-> FALSE, dupe |-> FALSE, physical |-> FALSE,
           turned |-> "no"]

\* A call of resolveUnit: what it is asked, and what its transaction holds.
Call == [pc: {"idle", "read", "find", "write", "commit"},
         u: Units \cup {None}, key: Keys \cup {None}, ack: BOOLEAN,
         mode: ConfirmedModes, asset: 0..MaxAssets, links: BOOLEAN, closes: BOOLEAN]

NoCall == [pc |-> "idle", u |-> None, key |-> None, ack |-> FALSE, mode |-> "operator",
           asset |-> 0, links |-> FALSE, closes |-> FALSE]

ScanTypeOK ==
    /\ unit \in [Units -> Unit]
    /\ cands \in [Units -> SUBSET Keys]
    /\ top \in [Units -> Keys \cup {None}]
    /\ \A u \in Units : IF cands[u] = {} THEN top[u] = None ELSE top[u] \in cands[u]
    /\ holding \in [Units -> 0..MaxAssets]
    /\ ext \in [Cards -> 0..MaxAssets]
    /\ batch \in [Batches -> {"absent", "open", "review", "closed"}]
    /\ res \in [Actors -> Call]

Staged(u) == unit[u].mode = "staged"

Confirmed(u) == unit[u].mode \in ConfirmedModes

UnitsOf(b) == {u \in Units : u[1] = b /\ unit[u].mode # "absent"}

\* The images that are the front of a card of another batch, in their own place
\* or turned.
FrontsElsewhere(b, turned) ==
    {u[2] : u \in {v \in Units :
        v[1] # b /\ unit[v].mode # "absent" /\ turned = (unit[v].turned = "yes")}}

\* holdingMatchesCandidate: a holding made from a scan whose asset carries the
\* candidate's external id.
AlreadyHeld(key) ==
    key \in Cards /\ ext[key] # 0 /\ \E u \in Units : holding[u] = ext[key]

-----------------------------------------------------------------------------
(* resolveUnit                                                             *)

CallBecomes(p, next) == res' = [res EXCEPT ![p] = next]

CallAt(p, pc) == res[p].pc = pc

ResolveCalled(u, key, ack, mode) ==
    [NoCall EXCEPT !.pc = "read", !.u = u, !.key = key, !.ack = ack, !.mode = mode]

\* The unit and the candidate are read outside the transaction.  A unit that
\* was confirmed is answered with its holding; one that was rejected is not told
\* apart from a staged one.  The duplicate is the one flagged by the scan.
ReadUnit(p) ==
    LET c == res[p]
    IN  /\ CallAt(p, "read")
        /\ IF ~Confirmed(c.u) /\ c.key \in cands[c.u] /\ (unit[c.u].dupe => c.ack)
           THEN CallBecomes(p, [c EXCEPT !.pc = "find", !.ack = FALSE])
           ELSE CallBecomes(p, NoCall)
        /\ UNCHANGED <<unit, cands, top, holding, ext, batch>>

InUse ==
    {holding[u] : u \in Units} \cup {unit[u].asset : u \in Units}
        \cup {ext[c] : c \in Cards} \cup {res[p].asset : p \in Actors}

\* The smallest asset nothing refers to.
NewAsset == {a \in Assets \ InUse : \A z \in Assets \ InUse : a <= z}

\* The transaction begins: the asset the external id names, or a new one.
FindAsset(p) ==
    LET known == IF res[p].key \in Cards THEN ext[res[p].key] ELSE 0
    IN  /\ CallAt(p, "find")
        /\ \E a \in IF known # 0 THEN {known} ELSE NewAsset :
               CallBecomes(p, [res[p] EXCEPT !.pc = "write", !.asset = a])
        /\ UNCHANGED <<unit, cands, top, holding, ext, batch>>

\* Written, and not yet committed: another transaction's INSERT of the same
\* external id, and any UPDATE of the same unit, wait.
Writing(p) == CallAt(p, "commit")

UnitLocked(u) == \E p \in Actors : Writing(p) /\ res[p].u = u

LinkLocked(key) == \E p \in Actors : Writing(p) /\ res[p].links /\ res[p].key = key

\* Mutant: the batch is closed with its first confirmed card.
AllResolvedButAny(u) == TRUE

AllResolvedBut(u) == \A w \in UnitsOf(u[1]) \ {u} : ~Staged(w)

\* The external id, the holding, the unit and the status of its batch, which
\* is decided on what has been committed by then.
Write(p) ==
    LET c == res[p]
    IN  /\ CallAt(p, "write")
        /\ ~UnitLocked(c.u) /\ ~LinkLocked(c.key)
        /\ CallBecomes(p, [c EXCEPT !.pc = "commit",
               !.links = c.key \in Cards /\ ext[c.key] = 0,
               !.closes = AllResolvedBut(c.u)])
        /\ UNCHANGED <<unit, cands, top, holding, ext, batch>>

\* Mutant: a repeated confirm gives the holding the new asset.
CommitReplacing(p) ==
    LET c == res[p]
    IN  /\ Writing(p)
        /\ ext' = IF c.links THEN [ext EXCEPT ![c.key] = c.asset] ELSE ext
        /\ holding' = [holding EXCEPT ![c.u] = c.asset]
        /\ unit' = [unit EXCEPT ![c.u].mode = c.mode, ![c.u].asset = c.asset]
        /\ batch' = [batch EXCEPT ![c.u[1]] = IF c.closes THEN "closed" ELSE "review"]
        /\ CallBecomes(p, NoCall)
        /\ UNCHANGED <<cands, top>>

\* ON CONFLICT (source, source_row_id) keeps the asset of the first holding;
\* the unit is stamped with this call's asset whatever it said before.
Commit(p) ==
    LET c == res[p]
    IN  /\ Writing(p)
        /\ ext' = IF c.links THEN [ext EXCEPT ![c.key] = c.asset] ELSE ext
        /\ holding' = [holding EXCEPT ![c.u] = IF @ = 0 THEN c.asset ELSE @]
        /\ unit' = [unit EXCEPT ![c.u].mode = c.mode, ![c.u].asset = c.asset]
        /\ batch' = [batch EXCEPT ![c.u[1]] = IF c.closes THEN "closed" ELSE "review"]
        /\ CallBecomes(p, NoCall)
        /\ UNCHANGED <<cands, top>>

\* A statement of the transaction fails, and it is rolled back.
Rollback(p) ==
    /\ Crashes /\ \E pc \in {"find", "write", "commit"} : CallAt(p, pc)
    /\ CallBecomes(p, NoCall)
    /\ UNCHANGED <<unit, cands, top, holding, ext, batch>>

ResolveStep(p) ==
    ReadUnit(p) \/ FindAsset(p) \/ Write(p) \/ Commit(p) \/ Rollback(p)
=============================================================================
