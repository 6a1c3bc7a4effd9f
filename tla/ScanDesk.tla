------------------------------- MODULE ScanDesk -------------------------------
(***************************************************************************)
(* Card scanning as one system: imports stage scans, and resolve some of    *)
(* them, while the operator reviews, confirms, rejects and discards.        *)
(***************************************************************************)
EXTENDS ScanIntake, ScanReview

CONSTANTS
    Vaulted,          \* cards the vault has at first, with their external ids
    MaxAsked          \* bound: requests of the operator

ASSUME DeskBounds == {MaxUnits, MaxAsked} \subseteq Nat /\ ReadsFail \in BOOLEAN

VARIABLES
    asked,            \* requests made so far
    late              \* history: scans stored since someone set out to close their batch

vars == <<baseVars, imp, req, asked, late>>

Init ==
    /\ unit = [u \in Units |-> NoUnit]
    /\ cands = [u \in Units |-> {}]
    /\ top = [u \in Units |-> None]
    /\ holding = [u \in Units |-> 0]
    /\ ext = [c \in Cards |-> IF c \in Vaulted THEN 1 ELSE 0]
    /\ batch = [b \in Batches |-> "absent"]
    /\ res = [p \in Actors |-> NoCall]
    /\ IntakeInit
    /\ ReviewInit
    /\ asked = 0
    /\ late = {}

\* p has looked at what is staged in batch b, and is about to close the batch: a
\* transaction that confirms its last card, or a discard.
SetsOut(p, b) ==
    \/ p \in Actors /\ Writing(p) /\ res[p].closes /\ res[p].u[1] = b
    \/ p \in Requests /\ req[p].pc = "close" /\ req[p].b = b

LeavesQueue(b) == batch[b] = "closed" \/ \E p \in Actors : SetsOut(p, b)

Stored == {u \in Units : unit[u].mode = "absent" /\ unit'[u].mode # "absent"}

Remember == late' = {u \in late \cup Stored : LeavesQueue(u[1])'}

ResolveSteps == \E p \in Actors : ResolveStep(p) /\ UNCHANGED <<imp, req, asked>> /\ Remember

IntakeSteps == IntakeStep /\ UNCHANGED <<req, asked>> /\ Remember

ReviewSteps ==
    \E p \in Requests :
        /\ asked' = IF RequestAt(p, "idle") THEN asked + 1 ELSE asked
        /\ asked' <= MaxAsked
        /\ ReviewStep(p) /\ UNCHANGED imp /\ Remember

\* The server ends in the middle of a request.
RequestDies(p) ==
    /\ Crashes /\ p \in Requests
    /\ req[p] # NoRequest \/ res[p] # NoCall
    /\ req' = [req EXCEPT ![p] = NoRequest]
    /\ CallBecomes(p, NoCall)
    /\ UNCHANGED <<unit, cands, top, holding, ext, batch, imp, asked>> /\ Remember

Next ==
    \/ ResolveSteps \/ IntakeSteps \/ ReviewSteps
    \/ \E p \in Requests : RequestDies(p)

Spec == Init /\ [][Next]_vars

-----------------------------------------------------------------------------
(* Properties                                                              *)

TypeOK == ScanTypeOK /\ IntakeTypeOK /\ ReviewTypeOK /\ late \subseteq Units

\* "The one place staging becomes inventory": a scan is in the inventory if and
\* only if it stands as confirmed; what was rejected, by one click or with its
\* batch, never left a holding.
BooksAgree ==
    \A u \in Units : holding[u] # 0 <=> Confirmed(u)

\* "Confirmed cards stay": no discard, rejection, repeated confirm or import
\* undoes a confirmation, or moves its holding to another asset.
ConfirmedForGood ==
    [][\A u \in Units : Confirmed(u) =>
          Confirmed(u)' /\ holding'[u] = holding[u]]_vars

\* A batch that is off the queue hides no staged card, whether its import goes
\* on, has ended or died, but for cards stored after the one who closed it had
\* looked (nothing makes an import and a discard wait for one another).
ClosedHidesNothing ==
    \A b \in Batches :
        batch[b] = "closed" => \A u \in UnitsOf(b) : Staged(u) => u \in late

\* "physical reimport - do not auto-add": however imports of one image
\* overlap, it becomes inventory by itself only once, unless the operator turned it.
SameImageOnceByItself ==
    \A u, v \in {w \in Units : unit[w].mode = "auto" /\ unit[w].turned = "no"} :
        u[2] = v[2] => u = v
=============================================================================
