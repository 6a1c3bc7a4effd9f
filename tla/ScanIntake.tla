------------------------------ MODULE ScanIntake ------------------------------
(***************************************************************************)
(* Importing a folder of scans (ricohIntake.ts ingestRicohBatch and          *)
(* scanStorePg.ts persistBatch), by hand or by the pass that watches the    *)
(* inbox (scanAutoIntake.ts), while the scanner goes on writing images.     *)
(* There is one folder, and nothing is taken out of it.  The candidates of a *)
(* unit are inserted with it, and the two statements that store what was    *)
(* identified are one action.                                              *)
(***************************************************************************)
EXTENDS ScanBase

CONSTANTS
    MaxUnits,         \* bound: units ever staged
    ReadsFail         \* whether the query for known images may fail

VARIABLES
    imp               \* imports, by the batch each makes

Import == [pc: {"new", "called", "open", "persist", "process", "done", "dead"},
           pages: SUBSET Images, held: SUBSET Cards,
           known: SUBSET Images, todo: SUBSET Images]

NoImport == [pc |-> "new", pages |-> {}, held |-> {}, known |-> {}, todo |-> {}]

IntakeTypeOK == imp \in [Batches -> Import]

IntakeInit == imp = [b \in Batches |-> NoImport]

ImportBecomes(b, next) == imp' = [imp EXCEPT ![b] = next]

ImportAt(b, pc) == imp[b].pc = pc /\ CallAt(b, "idle")

\* knownScanHashes
KnownImages == {u[2] : u \in {v \in Units : unit[v].mode # "absent"}}

-----------------------------------------------------------------------------
(* Who starts an import                                                    *)

ImportCalled(b) ==
    /\ ImportAt(b, "new")
    /\ ImportBecomes(b, [NoImport EXCEPT !.pc = "called"])
    /\ UNCHANGED baseVars

\* POST /scan/import-folder, pressed by the operator.
ImportByHand(b) == ImportCalled(b)

\* A pass of the timer imports a folder of which every image is new.  There is
\* one pass at a time, and none waits long: fetch gives up on the request to
\* the own server while the import goes on.
PassImports(b) == KnownImages = {} /\ ImportCalled(b)

-----------------------------------------------------------------------------
(* ingestRicohBatch                                                        *)

UnitsPlanned == {u \in Units : u[2] \in imp[u[1]].pages}

\* The route reads the inventory, the import reads the folder; then OCR.
ReadFolder(b, pages) ==
    /\ ImportAt(b, "called") /\ pages # {}
    /\ \A u \in UnitsPlanned : u[2] \in pages
    /\ Cardinality(UnitsPlanned) + Cardinality(pages) <= MaxUnits
    /\ ImportBecomes(b, [NoImport EXCEPT !.pc = "open", !.pages = pages, !.todo = pages,
                                         !.held = {c \in Cards : AlreadyHeld(c)}])
    /\ UNCHANGED baseVars

OpenBatch(b) ==
    /\ ImportAt(b, "open")
    /\ batch' = [batch EXCEPT ![b] = "open"]
    /\ ImportBecomes(b, [imp[b] EXCEPT !.pc = "persist"])
    /\ UNCHANGED <<unit, cands, top, holding, ext, res>>

\* persistBatch: a unit, with at most one candidate, flagged if that is held.
PersistUnit(b, i, found) ==
    LET u == <<b, i>>
    IN  /\ ImportAt(b, "persist") /\ i \in imp[b].todo
        /\ unit' = [unit EXCEPT ![u] = [NoUnit EXCEPT !.mode = "staged",
                                           !.dupe = found \in imp[b].held]]
        /\ cands' = [cands EXCEPT ![u] = {found} \ {None}]
        /\ top' = [top EXCEPT ![u] = found]
        /\ ImportBecomes(b, [imp[b] EXCEPT !.todo = @ \ {i}])
        /\ UNCHANGED <<holding, ext, batch, res>>

\* Mutant: only images of confirmed cards count as known.
KnownFrontsConfirmed(b) == {u[2] : u \in {v \in Units : v[1] # b /\ Confirmed(v)}}

\* knownFrontHashes of the other batches; the front of a turned card is its back.
KnownFronts(b) == FrontsElsewhere(b, FALSE)

\* ... read when every unit of this batch is stored; a failed query finds none.
ReadKnown(b) ==
    /\ ImportAt(b, "persist") /\ imp[b].todo = {}
    /\ \E known \in {KnownFronts(b)} \cup (IF ReadsFail THEN {{}} ELSE {}) :
           ImportBecomes(b, [imp[b] EXCEPT !.pc = "process", !.held = {}, !.todo = imp[b].pages,
                                           !.known = known])
    /\ UNCHANGED baseVars

\* What the images show is stored without a guard; a card identified with high
\* confidence goes on the confirm list, or is resolved at once if the policy
\* says so, unless it is flagged as a duplicate.
Process(b, i, found, high, auto) ==
    LET u == <<b, i>>
        physical == i \in imp[b].known
        clear == high /\ ~physical /\ ~unit[u].dupe
        best == IF found # None THEN found ELSE top[u]
    IN  /\ ImportAt(b, "process") /\ i \in imp[b].todo
        /\ ~UnitLocked(u)
        /\ high => found # None
        /\ cands' = [cands EXCEPT ![u] = @ \cup ({found} \ {None})]
        /\ \E t \in ({best, top[u]} \ {None}) \cup (IF best = None THEN {None} ELSE {}) :
               top' = [top EXCEPT ![u] = t]
        /\ unit' = [unit EXCEPT ![u].list = clear, ![u].physical = physical]
        /\ IF auto /\ clear
           THEN CallBecomes(b, ResolveCalled(u, best, FALSE, "auto"))
           ELSE UNCHANGED res
        /\ ImportBecomes(b, [imp[b] EXCEPT !.todo = @ \ {i}])
        /\ UNCHANGED <<holding, ext, batch>>

\* A unit whose images cannot be read is counted and passed over.
SkipUnit(b, i) ==
    /\ ImportAt(b, "process") /\ i \in imp[b].todo
    /\ ImportBecomes(b, [imp[b] EXCEPT !.todo = @ \ {i}])
    /\ UNCHANGED baseVars

\* The last UPDATE: the batch is up for review, whatever became of its units.
Finish(b) ==
    /\ ImportAt(b, "process") /\ imp[b].todo = {}
    /\ batch' = [batch EXCEPT ![b] = "review"]
    /\ ImportBecomes(b, [imp[b] EXCEPT !.pc = "done", !.held = {}, !.known = {}])
    /\ UNCHANGED <<unit, cands, top, holding, ext, res>>

\* A statement throws, or the server ends: what is stored stays.
Die(b) ==
    /\ Crashes /\ imp[b].pc \notin {"new", "done", "dead"}
    /\ ImportBecomes(b, [imp[b] EXCEPT !.pc = "dead", !.held = {}, !.todo = {}, !.known = {}])
    /\ CallBecomes(b, NoCall)
    /\ UNCHANGED <<unit, cands, top, holding, ext, batch>>

-----------------------------------------------------------------------------
IntakeStep ==
    \E b \in Batches :
       \/ ImportByHand(b) \/ PassImports(b)
       \/ OpenBatch(b) \/ ReadKnown(b) \/ Finish(b) \/ Die(b)
       \/ \E pages \in SUBSET Images : ReadFolder(b, pages)
       \/ \E i \in imp[b].todo :
             \/ SkipUnit(b, i)
             \/ \E found \in Cards \cup {None} :
                   \/ PersistUnit(b, i, found)
                   \/ \E high, auto \in BOOLEAN : Process(b, i, found, high, auto)
=============================================================================
