------------------------------ MODULE ScanReview ------------------------------
(***************************************************************************)
(* The operator's requests about staged scans: confirm one, approve the     *)
(* confirm list, reject, discard the batch, type an identity, put on the    *)
(* list, swap front and back, identify again (scanStorePg.ts, ricohIntake.ts *)
(* and reidentifyBatch.ts).  Only resolveUnit runs in a transaction; every  *)
(* other awaited statement is an action here, but for statements that read  *)
(* what cannot change before the guarded write that follows.                *)
(***************************************************************************)
EXTENDS ScanBase

VARIABLES req         \* requests in progress

Request == [pc: {"idle", "check", "loop", "edit", "delete", "insert", "update", "close",
                 "swap", "turn"},
            u: Units \cup {None}, b: Batches \cup {None},
            ready: SUBSET Units, keys: [Units -> Keys \cup {None}],
            flagged: BOOLEAN, ack: BOOLEAN, turned: SUBSET Units, known: SUBSET Units]

NoRequest == [pc |-> "idle", u |-> None, b |-> None, ready |-> {},
              keys |-> [u \in Units |-> None], flagged |-> FALSE, ack |-> FALSE,
              turned |-> {}, known |-> {}]

ReviewTypeOK == req \in [Requests -> Request]

ReviewInit == req = [p \in Requests |-> NoRequest]

RequestBecomes(p, next) == req' = [req EXCEPT ![p] = next]

RequestAt(p, pc) == req[p].pc = pc /\ CallAt(p, "idle")

-----------------------------------------------------------------------------
(* Confirming                                                              *)

\* POST /units/:id/resolve
Resolve(p, u, key, ack) ==
    /\ RequestAt(p, "idle")
    /\ unit[u].mode # "absent"
    /\ CallBecomes(p, ResolveCalled(u, key, ack, "operator"))
    /\ UNCHANGED <<unit, cands, top, holding, ext, batch, req>>

\* unitNeedsInventoryCopyAck
NeedsAck(u) == unit[u].dupe \/ unit[u].physical

\* approveConfirmList reads the batch once: the staged cards on the list, each
\* with the candidate of the highest confidence.
ApproveRead(p, b) ==
    LET ready == {u \in UnitsOf(b) : Staged(u) /\ unit[u].list}
    IN  /\ RequestAt(p, "idle")
        /\ ready # {}
        /\ RequestBecomes(p, [NoRequest EXCEPT !.pc = "check", !.b = b,
               !.ready = {u \in ready : top[u] # None},
               !.keys = [u \in Units |-> IF u \in ready THEN top[u] ELSE None],
               !.flagged = \E u \in ready : NeedsAck(u)])
        /\ UNCHANGED baseVars

\* confirmListAlreadyHeld, against the holdings of this moment.
ApproveCheck(p, ack) ==
    /\ RequestAt(p, "check")
    /\ IF ~ack /\ (req[p].flagged \/ \E u \in req[p].ready : AlreadyHeld(req[p].keys[u]))
       THEN RequestBecomes(p, NoRequest)
       ELSE RequestBecomes(p, [req[p] EXCEPT !.pc = "loop", !.ack = ack])
    /\ UNCHANGED baseVars

\* One card after the other, as they were read.
ApproveNext(p, u) ==
    /\ RequestAt(p, "loop") /\ u \in req[p].ready
    /\ CallBecomes(p, ResolveCalled(u, req[p].keys[u], req[p].ack, "operator"))
    /\ RequestBecomes(p, [req[p] EXCEPT !.ready = @ \ {u}, !.keys[u] = None])
    /\ UNCHANGED <<unit, cands, top, holding, ext, batch>>

ApproveDone(p) ==
    /\ RequestAt(p, "loop") /\ req[p].ready = {}
    /\ RequestBecomes(p, NoRequest)
    /\ UNCHANGED baseVars

-----------------------------------------------------------------------------
(* Rejecting                                                               *)

\* Mutant: a rejection looks at no earlier decision.
RejectAnyway(p, u) ==
    /\ RequestAt(p, "idle")
    /\ unit[u].mode # "absent" /\ ~UnitLocked(u)
    /\ unit' = [unit EXCEPT ![u].mode = "rejected"]
    /\ UNCHANGED <<cands, top, holding, ext, batch, res, req>>

\* rejectUnit: one guarded UPDATE, which waits for a transaction on the unit.
Reject(p, u) ==
    /\ RequestAt(p, "idle")
    /\ Staged(u) /\ ~UnitLocked(u)
    /\ unit' = [unit EXCEPT ![u].mode = "rejected"]
    /\ UNCHANGED <<cands, top, holding, ext, batch, res, req>>

\* discardBatch rejects what is not resolved ...
DiscardUnits(p, b) ==
    LET open == {u \in UnitsOf(b) : Staged(u)}
    IN  /\ RequestAt(p, "idle") /\ batch[b] # "absent"
        /\ \A u \in open : ~UnitLocked(u)
        /\ unit' = [u \in Units |-> IF u \in open THEN [unit[u] EXCEPT !.mode = "rejected"]
                                                 ELSE unit[u]]
        /\ RequestBecomes(p, [NoRequest EXCEPT !.pc = "close", !.b = b])
        /\ UNCHANGED <<cands, top, holding, ext, batch, res>>

\* Mutant: the batch gets the status its processing_status has.
DiscardBatchAs(p) ==
    /\ RequestAt(p, "close")
    /\ batch' = [batch EXCEPT ![req[p].b] = "discarded"]
    /\ RequestBecomes(p, NoRequest)
    /\ UNCHANGED <<unit, cands, top, holding, ext, res>>

\* ... and then takes the batch off the queue.
DiscardBatch(p) ==
    /\ RequestAt(p, "close")
    /\ batch' = [batch EXCEPT ![req[p].b] = "closed"]
    /\ RequestBecomes(p, NoRequest)
    /\ UNCHANGED <<unit, cands, top, holding, ext, res>>

-----------------------------------------------------------------------------
(* Identities                                                              *)

\* editStagedUnit: the typed candidate, of a fixed confidence that may be
\* below that of the catalog's ...
EditCandidate(p, u) ==
    /\ RequestAt(p, "idle") /\ Staged(u)
    /\ cands' = [cands EXCEPT ![u] = @ \cup {Typed}]
    /\ \E best \in {Typed, top[u]} \ {None} : top' = [top EXCEPT ![u] = best]
    /\ RequestBecomes(p, [NoRequest EXCEPT !.pc = "edit", !.u = u])
    /\ UNCHANGED <<unit, holding, ext, batch, res>>

\* ... and the staged unit, which leaves the confirm list.
EditUnit(p) ==
    LET u == req[p].u
    IN  /\ RequestAt(p, "edit") /\ ~UnitLocked(u)
        /\ unit' = IF Staged(u) THEN [unit EXCEPT ![u].list = FALSE] ELSE unit
        /\ RequestBecomes(p, NoRequest)
        /\ UNCHANGED <<cands, top, holding, ext, batch, res>>

\* setUnitConfirmList
SetConfirmList(p, u, onList) ==
    /\ RequestAt(p, "idle") /\ Staged(u) /\ ~UnitLocked(u)
    /\ onList => cands[u] # {}
    /\ unit' = [unit EXCEPT ![u].list = onList]
    /\ UNCHANGED <<cands, top, holding, ext, batch, res, req>>

\* reidentifyStagedBatch reads the staged units and looks at their images ...
Reidentify(p, u) ==
    /\ RequestAt(p, "idle") /\ Staged(u)
    /\ RequestBecomes(p, [NoRequest EXCEPT !.pc = "delete", !.u = u])
    /\ UNCHANGED baseVars

\* ... throws the candidates away, whatever has become of the unit ...
DeleteCandidates(p) ==
    LET u == req[p].u
    IN  /\ RequestAt(p, "delete")
        /\ cands' = [cands EXCEPT ![u] = {}]
        /\ top' = [top EXCEPT ![u] = None]
        /\ RequestBecomes(p, [req[p] EXCEPT !.pc = "insert"])
        /\ UNCHANGED <<unit, holding, ext, batch, res>>

\* ... inserts what the catalog says now, refused if it is there already ...
InsertCandidate(p, key) ==
    LET u == req[p].u
    IN  /\ RequestAt(p, "insert")
        /\ IF key \in cands[u]
           THEN UNCHANGED <<cands, top>> /\ RequestBecomes(p, NoRequest)
           ELSE /\ cands' = [cands EXCEPT ![u] = @ \cup {key}]
                /\ \E best \in {key, top[u]} \ {None} : top' = [top EXCEPT ![u] = best]
                /\ RequestBecomes(p, [req[p] EXCEPT !.pc = "update"])
        /\ UNCHANGED <<unit, holding, ext, batch, res>>

NothingIdentified(p) ==
    /\ RequestAt(p, "insert")
    /\ RequestBecomes(p, [req[p] EXCEPT !.pc = "update"])
    /\ UNCHANGED baseVars

\* ... and may put the card on the list, without a guard.
UpdateIdentified(p) ==
    LET u == req[p].u
    IN  /\ RequestAt(p, "update") /\ ~UnitLocked(u)
        /\ \E onList \in BOOLEAN : unit' = [unit EXCEPT ![u].list = onList]
        /\ RequestBecomes(p, NoRequest)
        /\ UNCHANGED <<cands, top, holding, ext, batch, res>>

\* swapStagedFaces, of one card or of a batch, reads the cards and the fronts
\* known elsewhere once (all are scanned with a back: others are passed over) ...
Swap(p, S) ==
    LET open == {u \in S : Staged(u)}
        after == {u \in open : unit[u].turned # "yes"}
    IN  /\ RequestAt(p, "idle") /\ open # {}
        /\ RequestBecomes(p, [NoRequest EXCEPT !.pc = "swap", !.ready = open, !.turned = after,
               !.known = {u \in open : u[2] \in FrontsElsewhere(u[1], u \in after)}])
        /\ UNCHANGED baseVars

\* ... looks at one after the other, whose candidates it stores in any case ...
SwapCandidates(p, u, found) ==
    /\ RequestAt(p, "swap") /\ u \in req[p].ready
    /\ cands' = [cands EXCEPT ![u] = @ \cup ({found} \ {None})]
    /\ \E t \in IF found = None THEN {top[u]} ELSE {found, top[u]} \ {None} :
           top' = [top EXCEPT ![u] = t]
    /\ RequestBecomes(p, [req[p] EXCEPT !.pc = "turn", !.u = u])
    /\ UNCHANGED <<unit, holding, ext, batch, res>>

\* ... and turns it if it is still staged.
SwapFaces(p) ==
    LET u == req[p].u
        left == req[p].ready \ {u}
    IN  /\ RequestAt(p, "turn") /\ ~UnitLocked(u)
        /\ \E high \in BOOLEAN :
               unit' = IF Staged(u)
                       THEN [unit EXCEPT ![u].turned = IF u \in req[p].turned THEN "yes" ELSE "back",
                                         ![u].physical = u \in req[p].known,
                                         ![u].list = high /\ u \notin req[p].known]
                       ELSE unit
        /\ RequestBecomes(p, IF left = {} THEN NoRequest
                             ELSE [req[p] EXCEPT !.pc = "swap", !.u = None, !.ready = left])
        /\ UNCHANGED <<cands, top, holding, ext, batch, res>>

-----------------------------------------------------------------------------
ReviewStep(p) ==
    \/ \E u \in Units :
          \/ \E key \in cands[u], ack \in BOOLEAN : Resolve(p, u, key, ack)
          \/ ApproveNext(p, u) \/ Reject(p, u) \/ EditCandidate(p, u) \/ Reidentify(p, u)
          \/ \E onList \in BOOLEAN : SetConfirmList(p, u, onList)
    \/ \E b \in Batches : ApproveRead(p, b) \/ DiscardUnits(p, b)
    \/ \E S \in {{u} : u \in Units} \cup {UnitsOf(b) : b \in Batches} : Swap(p, S)
    \/ \E u \in req[p].ready, found \in Cards \cup {None} : SwapCandidates(p, u, found)
    \/ SwapFaces(p)
    \/ \E ack \in BOOLEAN : ApproveCheck(p, ack)
    \/ ApproveDone(p) \/ DiscardBatch(p)
    \/ EditUnit(p) \/ DeleteCandidates(p) \/ NothingIdentified(p) \/ UpdateIdentified(p)
    \/ \E key \in Cards : InsertCandidate(p, key)
=============================================================================
