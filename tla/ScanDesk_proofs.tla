---------------------------- MODULE ScanDesk_proofs ----------------------------
(***************************************************************************)
(* Proofs about ScanDesk, for any images, batches, imports and requests:    *)
(* its types, that inventory and confirmations agree and a confirmation is  *)
(* final, that a batch off the queue hides nothing, and that one image      *)
(* becomes inventory by itself once.                                        *)
(*                                                                         *)
(* Moves sums up what any step does to a unit, a call, an import, a request *)
(* and a batch, LateMoves what it does to the history.                      *)
(***************************************************************************)
EXTENDS ScanDesk, TLAPS

-----------------------------------------------------------------------------
(* The inductive invariant                                                 *)

\* The types of what the code keeps, that is, of all but the history.
DeskTypeOK == ScanTypeOK /\ IntakeTypeOK /\ ReviewTypeOK

Present(u) == unit[u].mode # "absent"

\* A call is about a unit that was stored, and holds an asset once it found
\* one; an import resolves its own units, and only an import by itself.
CallsAreSane ==
    \A p \in Actors : res[p].pc # "idle" =>
        /\ res[p].u \in Units /\ Present(res[p].u)
        /\ res[p].pc \in {"write", "commit"} => res[p].asset # 0
        /\ res[p].mode = "auto" => p \in Batches /\ res[p].u[1] = p

\* An import stores each image of the folder it read once, and then looks at
\* what it stored.
ImportsAreSane ==
    \A b \in Batches, i \in Images :
        /\ imp[b].pc \in {"new", "called", "open"} => ~Present(<<b, i>>)
        /\ imp[b].pc = "persist" => (Present(<<b, i>>) <=> i \in imp[b].pages \ imp[b].todo)
        /\ imp[b].pc = "process" /\ i \in imp[b].pages => Present(<<b, i>>)
        /\ imp[b].pc \in {"open", "persist", "process"} => imp[b].todo \subseteq imp[b].pages
        /\ imp[b].pc = "open" => imp[b].todo = imp[b].pages

RequestsAreSane ==
    \A p \in Requests :
        /\ \A u \in req[p].ready : Present(u)
        /\ req[p].pc \in {"edit", "delete", "insert", "update", "turn"} => req[p].u \in Units
        /\ req[p].pc = "close" => req[p].b \in Batches

Sound == DeskTypeOK /\ CallsAreSane /\ ImportsAreSane /\ RequestsAreSane /\ BooksAgree

\* Who is about to take a batch off the queue leaves nothing staged in it but
\* what was stored since he looked.
NobodyHides ==
    /\ \A p \in Actors, u \in Units :
          Writing(p) /\ res[p].closes /\ res[p].u[1] = u[1] /\ u # res[p].u /\ Staged(u) =>
              u \in late
    /\ \A p \in Requests, u \in Units :
          req[p].pc = "close" /\ req[p].b = u[1] /\ Staged(u) => u \in late

Closing == late \subseteq Units /\ NobodyHides /\ ClosedHidesNothing

\* A unit that was, is being or may still be resolved by itself.
Clear(u) ==
    \/ unit[u].mode = "auto"
    \/ \E p \in Actors : res[p].pc # "idle" /\ res[p].mode = "auto" /\ res[p].u = u
    \/ imp[u[1]].pc = "process" /\ u[2] \in imp[u[1]].todo /\ u[2] \notin imp[u[1]].known

Unknown ==
    \A u, v \in Units :
        Clear(u) /\ Clear(v) /\ u # v /\ u[2] = v[2] =>
            unit[u].turned # "no" \/ unit[v].turned # "no"

IInv == Sound /\ Closing
-----------------------------------------------------------------------------
(* What a step does                                                        *)

CandsAreTyped ==
    /\ cands \in [Units -> SUBSET Keys]
    /\ top \in [Units -> Keys \cup {None}]
    /\ \A u \in Units : IF cands[u] = {} THEN top[u] = None ELSE top[u] \in cands[u]

\* A unit is turned or listed, rejected, stored, or confirmed by a call.
UnitMoves(u) ==
    \/ /\ unit'[u].mode = unit[u].mode /\ holding'[u] = holding[u]
       /\ unit[u].turned # "no" => unit'[u].turned # "no"
    \/ /\ Staged(u) /\ unit'[u].mode = "rejected" /\ holding'[u] = holding[u]
       /\ unit'[u].turned = unit[u].turned
    \/ /\ ~Present(u) /\ unit'[u].mode = "staged" /\ holding'[u] = holding[u]
       /\ imp[u[1]].pc = "persist" /\ imp'[u[1]].pc = "persist"
       /\ imp'[u[1]].pages = imp[u[1]].pages
       /\ u[2] \in imp[u[1]].todo \ imp'[u[1]].todo
    \/ \E p \in Actors :
          /\ Writing(p) /\ res[p].u = u /\ unit'[u].mode = res[p].mode
          /\ holding'[u] = IF holding[u] = 0 THEN res[p].asset ELSE holding[u]
          /\ unit'[u].turned = unit[u].turned

\* A call ends, begins on a stored unit, or goes on.
CallMoves(p) ==
    \/ res'[p] = res[p]
    \/ res'[p].pc = "idle"
    \/ /\ res'[p].pc = "read" /\ res'[p].u \in Units /\ Present(res'[p].u)
       /\ res'[p].mode = "auto" => p \in Batches /\ res'[p].u[1] = p /\ Clear(res'[p].u)
    \/ /\ res[p].pc # "idle" /\ res'[p].u = res[p].u /\ res'[p].mode = res[p].mode
       /\ res'[p].pc \in {"write", "commit"} => res'[p].asset # 0
       /\ res'[p].pc = "commit" /\ res'[p].closes => AllResolvedBut(res[p].u)
       /\ unit' = unit

\* The import of a batch goes one step further, or ends.
ImportMoves(b) ==
    \/ imp'[b] = imp[b]
    \/ imp[b].pc = "new" /\ imp'[b].pc = "called"
    \/ imp[b].pc = "called" /\ imp'[b].pc = "open" /\ imp'[b].todo = imp'[b].pages
    \/ /\ imp[b].pc = "open" /\ imp'[b].pc = "persist"
       /\ imp'[b].todo = imp[b].todo /\ imp'[b].pages = imp[b].pages
    \/ /\ imp[b].pc = "persist" /\ imp'[b].pc = "persist" /\ imp'[b].pages = imp[b].pages
       /\ \E i \in imp[b].todo :
             imp'[b].todo = imp[b].todo \ {i} /\ unit'[<<b, i>>].mode = "staged"
    \/ /\ imp[b].pc = "persist" /\ imp[b].todo = {} /\ imp'[b].pc = "process"
       /\ imp'[b].pages = imp[b].pages /\ imp'[b].todo = imp[b].pages
       /\ ~ReadsFail => imp'[b].known = KnownFronts(b)
       /\ unit' = unit
    \/ /\ imp[b].pc = "process" /\ imp'[b].pc = "process" /\ imp'[b].pages = imp[b].pages
       /\ imp'[b].known = imp[b].known /\ imp'[b].todo \subseteq imp[b].todo
    \/ imp[b].pc = "process" /\ imp'[b].pc = "done"
    \/ imp'[b].pc = "dead"

\* What a request may turn into.
NewRequest(q) ==
    /\ \A u \in q.ready : Present(u)
    /\ q.pc \in {"edit", "delete", "insert", "update", "turn"} => q.u \in Units
    /\ q.pc = "close" => q.b \in Batches /\ \A u \in Units : u[1] = q.b => ~Staged(u)'

RequestMoves(p) == req'[p] = req[p] \/ NewRequest(req'[p])

\* A batch leaves the queue by its last confirmation, or when it is discarded.
BatchMoves(b) ==
    \/ batch'[b] = batch[b]
    \/ batch'[b] # "closed"
    \/ \E p \in Actors : Writing(p) /\ res[p].u[1] = b /\ res[p].closes
                            /\ unit'[res[p].u].mode = res[p].mode
    \/ \E p \in Requests : req[p].pc = "close" /\ req[p].b = b

Moves ==
    /\ DeskTypeOK'
    /\ \A u \in Units : UnitMoves(u)
    /\ \A p \in Actors : CallMoves(p)
    /\ \A b \in Batches : ImportMoves(b) /\ BatchMoves(b)
    /\ \A p \in Requests : RequestMoves(p)

-----------------------------------------------------------------------------
(* What such steps keep                                                    *)

LEMMA UnitsAreUnits == DeskTypeOK => \A u \in Units : unit[u] \in Unit /\ u[1] \in Batches /\ u[2] \in Images
BY DEF DeskTypeOK, ScanTypeOK, Units

LEMMA PresentStays ==
    ASSUME Sound, Moves, NEW u \in Units, Present(u)
    PROVE  Present(u)'
<1>1. \A p \in Actors : res[p].mode # "absent"
    BY DEF Sound, DeskTypeOK, ScanTypeOK, Call, ConfirmedModes
<1> QED
    BY <1>1 DEF Moves, UnitMoves, Present, Staged

LEMMA BooksMove == Sound /\ Moves => BooksAgree'
<1> SUFFICES ASSUME Sound, Moves, NEW u \in Units
             PROVE  holding'[u] # 0 <=> Confirmed(u)'
    BY DEF BooksAgree, Confirmed
<1>1. holding[u] # 0 <=> Confirmed(u)
    BY DEF Sound, BooksAgree
<1>2. UnitMoves(u)
    BY DEF Moves
<1>3. ASSUME NEW p \in Actors, Writing(p)
      PROVE  res[p].asset # 0 /\ res[p].mode \in ConfirmedModes
    BY <1>3 DEF Writing, CallAt, Sound, CallsAreSane, DeskTypeOK, ScanTypeOK, Call
<1> QED
    BY <1>1, <1>2, <1>3 DEF UnitMoves, Confirmed, ConfirmedModes, Staged, Present

LEMMA CallsMove == Sound /\ Moves => CallsAreSane'
<1> SUFFICES ASSUME Sound, Moves, NEW p \in Actors, res'[p].pc # "idle"
             PROVE  /\ res'[p].u \in Units /\ Present(res[p].u)'
                    /\ res'[p].pc \in {"write", "commit"} => res'[p].asset # 0
                    /\ res'[p].mode = "auto" => p \in Batches /\ res'[p].u[1] = p
    BY DEF CallsAreSane, Present
<1>1. CallMoves(p)
    BY DEF Moves
<1>2. CASE res'[p] = res[p]
    <2>1. res[p].u \in Units /\ Present(res[p].u)
        BY <1>2 DEF Sound, CallsAreSane
    <2>2. PICK u \in Units : u = res[p].u
        BY <2>1
    <2>3. Present(u)'
        BY <2>1, <2>2, PresentStays
    <2> QED
        BY <1>2, <2>2, <2>3 DEF Sound, CallsAreSane, Present
<1>3. CASE res'[p].pc = "read" /\ res'[p].u \in Units /\ Present(res'[p].u)
               /\ (res'[p].mode = "auto" => p \in Batches /\ res'[p].u[1] = p)
    <2>1. PICK u \in Units : u = res'[p].u
        BY <1>3
    <2>2. Present(u)'
        BY <1>3, <2>1, PresentStays
    <2> QED
        BY <1>3, <2>1, <2>2 DEF Present
<1>4. CASE /\ res[p].pc # "idle" /\ res'[p].u = res[p].u /\ res'[p].mode = res[p].mode
           /\ res'[p].pc \in {"write", "commit"} => res'[p].asset # 0
           /\ unit' = unit
    BY <1>4 DEF Sound, CallsAreSane, Present
<1> QED
    BY <1>1, <1>2, <1>3, <1>4 DEF CallMoves

LEMMA ImportsMove == Sound /\ Moves => ImportsAreSane'
<1> SUFFICES ASSUME Sound, Moves, NEW b \in Batches, NEW i \in Images
             PROVE  /\ imp'[b].pc \in {"new", "called", "open"} => ~Present(<<b, i>>)'
                    /\ imp'[b].pc = "persist" =>
                          (Present(<<b, i>>)' <=> i \in imp'[b].pages \ imp'[b].todo)
                    /\ imp'[b].pc = "process" /\ i \in imp'[b].pages => Present(<<b, i>>)'
                    /\ imp'[b].pc \in {"open", "persist", "process"} =>
                          imp'[b].todo \subseteq imp'[b].pages
                    /\ imp'[b].pc = "open" => imp'[b].todo = imp'[b].pages
    BY DEF ImportsAreSane, Present
<1> DEFINE u == <<b, i>>
<1>1. u \in Units /\ u[1] = b /\ u[2] = i
    BY DEF Units
<1>2. /\ imp[b].pc \in {"new", "called", "open"} => ~Present(u)
      /\ imp[b].pc = "persist" => (Present(u) <=> i \in imp[b].pages \ imp[b].todo)
      /\ imp[b].pc = "process" /\ i \in imp[b].pages => Present(u)
      /\ imp[b].pc \in {"open", "persist", "process"} => imp[b].todo \subseteq imp[b].pages
      /\ imp[b].pc = "open" => imp[b].todo = imp[b].pages
    BY DEF Sound, ImportsAreSane
<1>3. Present(u) => Present(u)'
    BY <1>1, PresentStays
<1>4. ASSUME ~Present(u), Present(u)'
      PROVE  /\ imp[b].pc = "persist" /\ imp'[b].pc = "persist"
             /\ i \in imp[b].todo \ imp'[b].todo
    <2>1. \A p \in Actors : Writing(p) => res[p].u # u
        BY <1>4 DEF Sound, CallsAreSane, Writing, CallAt
    <2> QED
        BY <1>1, <1>4, <2>1 DEF Moves, UnitMoves, Present, Staged
<1> HIDE DEF u
<1>5. ImportMoves(b)
    BY DEF Moves
<1>6. ASSUME NEW j \in imp[b].todo, unit'[<<b, j>>].mode = "staged",
             imp'[b].todo = imp[b].todo \ {j}, i = j
      PROVE  Present(u)'
    BY <1>6 DEF Present, u
<1> QED
    BY <1>2, <1>3, <1>4, <1>5, <1>6 DEF ImportMoves, u

LEMMA RequestsMove == Sound /\ Moves => RequestsAreSane'
<1> SUFFICES ASSUME Sound, Moves, NEW p \in Requests
             PROVE  /\ \A u \in req'[p].ready : Present(u)'
                    /\ req'[p].pc \in {"edit", "delete", "insert", "update", "turn"} => req'[p].u \in Units
                    /\ req'[p].pc = "close" => req'[p].b \in Batches
    BY DEF RequestsAreSane, Present
<1>1. /\ \A u \in req'[p].ready : Present(u)
      /\ req'[p].pc \in {"edit", "delete", "insert", "update", "turn"} => req'[p].u \in Units
      /\ req'[p].pc = "close" => req'[p].b \in Batches
    <2>1. CASE req'[p] = req[p]
        BY <2>1 DEF Sound, RequestsAreSane
    <2>2. CASE NewRequest(req'[p])
        BY <2>2 DEF NewRequest
    <2> QED
        BY <2>1, <2>2 DEF Moves, RequestMoves
<1>2. req'[p].ready \subseteq Units
    BY DEF Moves, DeskTypeOK, ReviewTypeOK, Request
<1> QED
    BY <1>1, <1>2, PresentStays

LEMMA SoundMoves == Sound /\ Moves => Sound'
BY BooksMove, CallsMove, ImportsMove, RequestsMove DEF Sound, Moves
\* What was stored since somebody set out is remembered until he is done.
LateMoves ==
    /\ late' \subseteq Units
    /\ \A u \in Units : (u \in late \/ u \in Stored) /\ LeavesQueue(u[1])' => u \in late'

\* What is staged, and not late, in a batch that leaves the queue was staged and
\* not late before.
LEMMA LateStays ==
    ASSUME Sound, Moves, LateMoves, NEW u \in Units, Staged(u)', LeavesQueue(u[1])', u \notin late'
    PROVE  Staged(u) /\ u \notin late
<1>1. \A p \in Actors : res[p].mode # "staged"
    BY DEF Sound, DeskTypeOK, ScanTypeOK, Call, ConfirmedModes
<1>2. Staged(u) \/ u \in Stored
    BY <1>1 DEF Moves, UnitMoves, Staged, Present, Stored
<1> QED
    BY <1>2 DEF LateMoves

LEMMA NobodyHidesNow == Sound /\ Closing /\ Moves /\ LateMoves => NobodyHides'
<1> SUFFICES ASSUME Sound, Closing, Moves, LateMoves, NEW u \in Units, Staged(u)', u \notin late'
             PROVE  /\ \A p \in Actors :
                          ~(Writing(p)' /\ res'[p].closes /\ res'[p].u[1] = u[1] /\ u # res'[p].u)
                    /\ \A p \in Requests : ~(req'[p].pc = "close" /\ req'[p].b = u[1])
    BY DEF NobodyHides
<1>1. ASSUME NEW p \in Actors, Writing(p)', res'[p].closes, res'[p].u[1] = u[1], u # res'[p].u
      PROVE  FALSE
    <2>1. LeavesQueue(u[1])'
        BY <1>1 DEF LeavesQueue, SetsOut
    <2>2. Staged(u) /\ u \notin late
        BY <2>1, LateStays
    <2>3. CASE res'[p] = res[p]
        BY <1>1, <2>2, <2>3 DEF Closing, NobodyHides, Writing, CallAt
    <2>4. CASE res[p].pc # "idle" /\ res'[p].u = res[p].u /\ AllResolvedBut(res[p].u)
        <3>1. u \in UnitsOf(res[p].u[1]) \ {res[p].u}
            BY <1>1, <2>2, <2>4 DEF UnitsOf, Staged
        <3> QED
            BY <2>2, <2>4, <3>1 DEF AllResolvedBut
    <2>5. CallMoves(p) /\ res'[p].pc = "commit"
        BY <1>1 DEF Moves, Writing, CallAt
    <2> QED
        BY <1>1, <2>3, <2>4, <2>5 DEF CallMoves
<1>2. ASSUME NEW p \in Requests, req'[p].pc = "close", req'[p].b = u[1]
      PROVE  FALSE
    <2>1. LeavesQueue(u[1])'
        BY <1>2 DEF LeavesQueue, SetsOut, Actors
    <2>2. Staged(u) /\ u \notin late
        BY <2>1, LateStays
    <2>3. CASE req'[p] = req[p]
        BY <1>2, <2>2, <2>3 DEF Closing, NobodyHides
    <2>4. CASE NewRequest(req'[p])
        BY <1>2, <2>4 DEF NewRequest
    <2> QED
        BY <2>3, <2>4 DEF Moves, RequestMoves
<1> QED
    BY <1>1, <1>2

LEMMA NothingHidden == Sound /\ Closing /\ Moves /\ LateMoves => ClosedHidesNothing'
<1> SUFFICES ASSUME Sound, Closing, Moves, LateMoves, NEW b \in Batches, batch'[b] = "closed",
                    NEW u \in Units, u[1] = b, Staged(u)', u \notin late'
             PROVE  FALSE
    BY DEF ClosedHidesNothing, UnitsOf
<1>1. LeavesQueue(u[1])'
    BY DEF LeavesQueue
<1>2. Staged(u) /\ u \notin late /\ u \in UnitsOf(b)
    BY <1>1, LateStays DEF Staged, UnitsOf
<1>3. CASE batch'[b] = batch[b]
    BY <1>2, <1>3 DEF Closing, ClosedHidesNothing
<1>4. CASE \E p \in Actors : Writing(p) /\ res[p].u[1] = b /\ res[p].closes
                                /\ unit'[res[p].u].mode = res[p].mode
    <2> PICK p \in Actors : Writing(p) /\ res[p].u[1] = b /\ res[p].closes
                                /\ unit'[res[p].u].mode = res[p].mode
        BY <1>4
    <2>1. res[p].mode # "staged"
        BY DEF Sound, DeskTypeOK, ScanTypeOK, Call, ConfirmedModes
    <2> QED
        BY <1>2, <2>1 DEF Closing, NobodyHides, Staged
<1>5. CASE \E p \in Requests : req[p].pc = "close" /\ req[p].b = b
    BY <1>2, <1>5 DEF Closing, NobodyHides
<1> QED
    BY <1>3, <1>4, <1>5 DEF Moves, BatchMoves

LEMMA ClosingMoves == Sound /\ Closing /\ Moves /\ LateMoves => Closing'
BY NobodyHidesNow, NothingHidden DEF Closing, LateMoves

\* What comes to be clear, for an image, is what an import has just found to be
\* new: every other unit of that image is turned by then.
LEMMA ClearMoves ==
    ASSUME Sound, Moves, NEW u \in Units, Clear(u)'
    PROVE  \/ Clear(u)
           \/ /\ imp[u[1]].pc = "persist" /\ imp[u[1]].todo = {} /\ u[2] \in imp[u[1]].pages
              /\ ~ReadsFail => u[2] \notin KnownFronts(u[1])
              /\ unit' = unit
<1>1. u[1] \in Batches /\ u[2] \in Images
    BY DEF Units
<1>2. CASE unit'[u].mode = "auto"
    <2>1. CASE unit[u].mode = "auto"
        BY <2>1 DEF Clear
    <2>2. CASE \E p \in Actors : Writing(p) /\ res[p].u = u /\ unit'[u].mode = res[p].mode
        BY <1>2, <2>2 DEF Clear, Writing, CallAt
    <2> QED
        BY <1>2, <2>1, <2>2 DEF Moves, UnitMoves
<1>3. CASE \E p \in Actors : res'[p].pc # "idle" /\ res'[p].mode = "auto" /\ res'[p].u = u
    <2> PICK p \in Actors : res'[p].pc # "idle" /\ res'[p].mode = "auto" /\ res'[p].u = u
        BY <1>3
    <2>1. CallMoves(p)
        BY DEF Moves
    <2>2. CASE res'[p] = res[p]
        BY <2>2 DEF Clear
    <2>3. CASE Clear(res'[p].u)
        BY <2>3
    <2>4. CASE res[p].pc # "idle" /\ res'[p].u = res[p].u /\ res'[p].mode = res[p].mode
        BY <2>4 DEF Clear
    <2> QED
        BY <2>1, <2>2, <2>3, <2>4 DEF CallMoves
<1>4. CASE /\ imp'[u[1]].pc = "process" /\ u[2] \in imp'[u[1]].todo
           /\ u[2] \notin imp'[u[1]].known
    BY <1>1, <1>4 DEF Moves, ImportMoves, Clear
<1> QED
    BY <1>2, <1>3, <1>4 DEF Clear

LEMMA ClearIsPresent ==
    ASSUME Sound, NEW u \in Units, Clear(u)
    PROVE  Present(u)
<1>1. u[1] \in Batches /\ u[2] \in Images /\ u = <<u[1], u[2]>>
    BY DEF Units
<1>2. CASE imp[u[1]].pc = "process" /\ u[2] \in imp[u[1]].todo
    BY <1>1, <1>2 DEF Sound, ImportsAreSane
<1> QED
    BY <1>2 DEF Clear, Sound, CallsAreSane, Present

LEMMA TurnedStays ==
    ASSUME Sound, Moves, NEW u \in Units, Present(u), unit[u].turned # "no"
    PROVE  unit'[u].turned # "no"
BY DEF Moves, UnitMoves

LEMMA UnknownMoves ==
    ASSUME Sound, Unknown, Moves, ~ReadsFail
    PROVE  Unknown'
<1> SUFFICES ASSUME NEW u \in Units, NEW v \in Units, Clear(u)', Clear(v)', u # v, u[2] = v[2]
             PROVE  unit'[u].turned # "no" \/ unit'[v].turned # "no"
    BY DEF Unknown
<1>1. \A w \in Units : w[1] \in Batches /\ w[2] \in Images /\ w = <<w[1], w[2]>>
    BY DEF Units
<1>2. u[1] # v[1]
    BY <1>1
\* The import of w has just begun to look at what it stored.
<1>3. ASSUME NEW w \in Units, imp[w[1]].pc = "persist", imp[w[1]].todo = {}, w[2] \in imp[w[1]].pages
      PROVE  Present(w)
    BY <1>1, <1>3 DEF Sound, ImportsAreSane
<1>4. Present(u) /\ Present(v)
    BY <1>3, ClearMoves, ClearIsPresent
<1>5. ASSUME NEW w \in Units, NEW z \in Units, w[1] # z[1], w[2] = z[2], Present(z),
             w[2] \notin KnownFronts(w[1])
      PROVE  unit[z].turned = "yes"
    BY <1>5 DEF KnownFronts, FrontsElsewhere, Present
<1>6. CASE Clear(u) /\ Clear(v)
    BY <1>4, <1>6, TurnedStays DEF Unknown
<1>7. CASE ~Clear(u)
    BY <1>2, <1>4, <1>5, <1>7, ClearMoves
<1>8. CASE ~Clear(v)
    BY <1>2, <1>4, <1>5, <1>8, ClearMoves
<1> QED
    BY <1>6, <1>7, <1>8
-----------------------------------------------------------------------------
(* resolveUnit moves                                                       *)

LEMMA IdleCall == NoCall \in Call /\ NoCall.pc = "idle"
BY AssetsAreNat DEF NoCall, Call, ConfirmedModes

LEMMA CallTurns ==
    ASSUME Sound, NEW p \in Actors, NEW c \in Call, CallBecomes(p, c)
    PROVE  /\ res' \in [Actors -> Call] /\ res'[p] = c
           /\ CallMoves(p) => \A q \in Actors : CallMoves(q)
<1>1. res \in [Actors -> Call]
    BY DEF Sound, DeskTypeOK, ScanTypeOK
<1>2. res' \in [Actors -> Call] /\ res'[p] = c /\ \A q \in Actors : q # p => res'[q] = res[q]
    BY <1>1 DEF CallBecomes
<1> QED
    BY <1>2 DEF CallMoves

\* A step that touches nothing but one call.
LEMMA OnlyCall ==
    ASSUME Sound, NEW p \in Actors, NEW c \in Call, CallBecomes(p, c),
           UNCHANGED <<unit, cands, top, holding, ext, batch, imp, req>>,
           CallMoves(p)
    PROVE  Moves
<1>1. DeskTypeOK'
    BY CallTurns DEF Sound, DeskTypeOK, ScanTypeOK, IntakeTypeOK, ReviewTypeOK, Unit
<1>2. \A u \in Units : UnitMoves(u)
    BY DEF UnitMoves
<1>3. \A b \in Batches : ImportMoves(b) /\ BatchMoves(b)
    BY DEF ImportMoves, BatchMoves
<1>4. \A q \in Requests : RequestMoves(q)
    BY DEF RequestMoves
<1> QED
    BY <1>1, <1>2, <1>3, <1>4, CallTurns DEF Moves

LEMMA ResolveMoves ==
    ASSUME Sound, NEW p \in Actors, ResolveStep(p), UNCHANGED <<imp, req>>
    PROVE  Moves
<1> DEFINE c == res[p]
<1>1. c \in Call /\ NoCall \in Call /\ NoCall.pc = "idle"
    BY IdleCall DEF Sound, DeskTypeOK, ScanTypeOK
<1>2. c.pc # "idle" => c.u \in Units /\ Present(c.u)
    BY DEF Sound, CallsAreSane
<1>3. ASSUME NEW d \in Call, CallBecomes(p, d) PROVE res'[p] = d
    BY <1>3, CallTurns
<1> HIDE DEF c
<1>4. ASSUME CallBecomes(p, NoCall), UNCHANGED <<unit, cands, top, holding, ext, batch>>
      PROVE  Moves
    <2>1. CallMoves(p)
        BY <1>1, <1>3, <1>4 DEF CallMoves
    <2> QED
        BY <1>1, <1>4, <2>1, OnlyCall
<1>5. CASE ReadUnit(p)
    <2> DEFINE d == [c EXCEPT !.pc = "find", !.ack = FALSE]
    <2>1. /\ CallBecomes(p, d) \/ CallBecomes(p, NoCall)
          /\ UNCHANGED <<unit, cands, top, holding, ext, batch>> /\ c.pc = "read"
        BY <1>5 DEF ReadUnit, CallAt, c
    <2>2. d \in Call /\ d.pc = "find" /\ d.u = c.u /\ d.mode = c.mode
        BY <1>1 DEF Call
    <2> HIDE DEF d
    <2>3. CASE CallBecomes(p, d)
        <3>1. CallMoves(p)
            BY <1>3, <2>1, <2>2, <2>3 DEF CallMoves, c
        <3> QED
            BY <2>1, <2>2, <2>3, <3>1, OnlyCall
    <2> QED
        BY <1>4, <2>1, <2>3
<1>6. CASE FindAsset(p)
    <2> PICK a \in IF (IF c.key \in Cards THEN ext[c.key] ELSE 0) # 0
                   THEN {IF c.key \in Cards THEN ext[c.key] ELSE 0} ELSE NewAsset :
             CallBecomes(p, [c EXCEPT !.pc = "write", !.asset = a])
        BY <1>6 DEF FindAsset, c
    <2> DEFINE d == [c EXCEPT !.pc = "write", !.asset = a]
    <2>1. UNCHANGED <<unit, cands, top, holding, ext, batch>> /\ c.pc = "find"
        BY <1>6 DEF FindAsset, CallAt, c
    <2>2. a \in 0..MaxAssets /\ a # 0
        BY AssetsAreNat DEF NewAsset, Assets, Sound, DeskTypeOK, ScanTypeOK
    <2>3. d \in Call /\ d.pc = "write" /\ d.u = c.u /\ d.mode = c.mode /\ d.asset = a
        BY <1>1, <2>2 DEF Call
    <2>4. CallBecomes(p, d)
        OBVIOUS
    <2> HIDE DEF d
    <2>5. CallMoves(p)
        BY <1>3, <2>1, <2>2, <2>3, <2>4 DEF CallMoves, c
    <2> QED
        BY <2>1, <2>3, <2>4, <2>5, OnlyCall
<1>7. CASE Write(p)
    <2> DEFINE links == c.key \in Cards /\ ext[c.key] = 0
               closes == AllResolvedBut(c.u)
               d == [c EXCEPT !.pc = "commit", !.links = links, !.closes = closes]
    <2>1. /\ CallBecomes(p, d) /\ c.pc = "write"
          /\ UNCHANGED <<unit, cands, top, holding, ext, batch>>
        BY <1>7 DEF Write, CallAt, c
    <2>2. links \in BOOLEAN /\ closes \in BOOLEAN
        BY DEF AllResolvedBut
    <2>3. closes => AllResolvedBut(c.u)
        OBVIOUS
    <2> HIDE DEF links, closes
    <2>4. /\ d \in Call /\ d.pc = "commit" /\ d.u = c.u /\ d.mode = c.mode /\ d.asset = c.asset
          /\ d.closes = closes
        BY <1>1, <2>2 DEF Call
    <2> HIDE DEF d
    <2>5. c.asset # 0
        BY <2>1 DEF Sound, CallsAreSane, c
    <2>6. CallMoves(p)
        BY <1>3, <2>1, <2>3, <2>4, <2>5 DEF CallMoves, c
    <2> QED
        BY <2>1, <2>4, <2>6, OnlyCall
<1>8. CASE Commit(p)
    <2>1. /\ Writing(p) /\ c.pc = "commit" /\ CallBecomes(p, NoCall) /\ UNCHANGED <<cands, top>>
          /\ ext' = IF c.links THEN [ext EXCEPT ![c.key] = c.asset] ELSE ext
          /\ holding' = [holding EXCEPT ![c.u] = IF holding[c.u] = 0 THEN c.asset ELSE holding[c.u]]
          /\ unit' = [unit EXCEPT ![c.u].mode = c.mode, ![c.u].asset = c.asset]
          /\ batch' = [batch EXCEPT ![c.u[1]] = IF c.closes THEN "closed" ELSE "review"]
        BY <1>8 DEF Commit, Writing, CallAt, c
    <2>2. c.u \in Units /\ Present(c.u) /\ c.u[1] \in Batches
        BY <1>2, <2>1 DEF Units
    <2>3. c.mode \in ConfirmedModes /\ c.asset \in 0..MaxAssets
        BY <1>1 DEF Call
    <2>4. /\ unit \in [Units -> Unit] /\ holding \in [Units -> 0..MaxAssets]
          /\ ext \in [Cards -> 0..MaxAssets]
          /\ batch \in [Batches -> {"absent", "open", "review", "closed"}]
        BY DEF Sound, DeskTypeOK, ScanTypeOK
    <2>5. unit' \in [Units -> Unit] /\ unit'[c.u].mode = c.mode /\ unit'[c.u].turned = unit[c.u].turned
        BY <2>1, <2>2, <2>3, <2>4 DEF Unit, Modes, ConfirmedModes
    <2>6. \A u \in Units : u # c.u => unit'[u] = unit[u] /\ holding'[u] = holding[u]
        BY <2>1, <2>2, <2>4
    <2>7. holding'[c.u] = IF holding[c.u] = 0 THEN c.asset ELSE holding[c.u]
        BY <2>1, <2>2, <2>4
    <2>8. /\ holding' \in [Units -> 0..MaxAssets] /\ ext' \in [Cards -> 0..MaxAssets]
          /\ batch' \in [Batches -> {"absent", "open", "review", "closed"}]
        BY <2>1, <2>2, <2>3, <2>4
    <2>9. DeskTypeOK'
        BY <1>1, <2>1, <2>5, <2>8, CallTurns
           DEF Sound, DeskTypeOK, ScanTypeOK, IntakeTypeOK, ReviewTypeOK
    <2>10. \A u \in Units : UnitMoves(u)
        BY <2>1, <2>5, <2>6, <2>7 DEF UnitMoves, c
    <2>11. \A q \in Actors : CallMoves(q)
        BY <1>1, <2>1, CallTurns DEF CallMoves
    <2>12. \A b \in Batches : ImportMoves(b) /\ BatchMoves(b)
        <3> TAKE b \in Batches
        <3>1. ImportMoves(b)
            BY DEF ImportMoves
        <3>2. BatchMoves(b)
            BY <2>1, <2>2, <2>4, <2>5 DEF BatchMoves, c
        <3> QED
            BY <3>1, <3>2
    <2>13. \A q \in Requests : RequestMoves(q)
        BY DEF RequestMoves
    <2> QED
        BY <2>9, <2>10, <2>11, <2>12, <2>13 DEF Moves
<1>9. CASE Rollback(p)
    BY <1>4, <1>9 DEF Rollback
<1> QED
    BY <1>5, <1>6, <1>7, <1>8, <1>9 DEF ResolveStep
-----------------------------------------------------------------------------
(* Requests move                                                           *)

LEMMA IdleRequest == NoRequest \in Request /\ NoRequest.pc = "idle" /\ NoRequest.ready = {}
BY DEF NoRequest, Request

LEMMA ReviewFrame ==
    ASSUME Sound, NEW p \in Requests, NEW q \in Request, RequestBecomes(p, q), NewRequest(q),
           UNCHANGED <<holding, ext, imp>>, CandsAreTyped',
           unit' \in [Units -> Unit], \A u \in Units : UnitMoves(u),
           res' \in [Actors -> Call], \A a \in Actors : CallMoves(a),
           batch' \in [Batches -> {"absent", "open", "review", "closed"}],
           \A b \in Batches : BatchMoves(b)
    PROVE  Moves
<1>1. req \in [Requests -> Request]
    BY DEF Sound, DeskTypeOK, ReviewTypeOK
<1>2. req' \in [Requests -> Request] /\ req'[p] = q /\ \A r \in Requests : r # p => req'[r] = req[r]
    BY <1>1 DEF RequestBecomes
<1>3. DeskTypeOK'
    BY <1>2 DEF Sound, DeskTypeOK, ScanTypeOK, IntakeTypeOK, ReviewTypeOK, CandsAreTyped
<1>4. \A r \in Requests : RequestMoves(r)
    BY <1>2 DEF RequestMoves
<1>5. \A b \in Batches : ImportMoves(b)
    BY DEF ImportMoves
<1> QED
    BY <1>3, <1>4, <1>5 DEF Moves

\* A request that changes candidates at most.
LEMMA OnlyCandidates ==
    ASSUME Sound, NEW p \in Requests, NEW q \in Request, RequestBecomes(p, q), NewRequest(q),
           UNCHANGED <<unit, holding, ext, batch, res, imp>>, CandsAreTyped'
    PROVE  Moves
<1>1. unit' \in [Units -> Unit] /\ res' \in [Actors -> Call]
        /\ batch' \in [Batches -> {"absent", "open", "review", "closed"}]
    BY DEF Sound, DeskTypeOK, ScanTypeOK
<1>2. /\ \A u \in Units : UnitMoves(u)
      /\ \A a \in Actors : CallMoves(a)
      /\ \A b \in Batches : BatchMoves(b)
    BY DEF UnitMoves, CallMoves, BatchMoves
<1> QED
    BY <1>1, <1>2, ReviewFrame

LEMMA CandsStay == Sound /\ UNCHANGED <<cands, top>> => CandsAreTyped /\ CandsAreTyped'
BY DEF Sound, DeskTypeOK, ScanTypeOK, CandsAreTyped

\* A request that touches no table.
LEMMA OnlyRequest ==
    ASSUME Sound, NEW p \in Requests, NEW q \in Request, RequestBecomes(p, q), NewRequest(q),
           UNCHANGED baseVars, UNCHANGED imp
    PROVE  Moves
BY CandsStay, OnlyCandidates DEF baseVars

\* A request that changes units.
LEMMA OnlyUnits ==
    ASSUME Sound, NEW p \in Requests, NEW q \in Request, RequestBecomes(p, q), NewRequest(q),
           UNCHANGED <<cands, top, holding, ext, batch, res, imp>>,
           unit' \in [Units -> Unit], \A u \in Units : UnitMoves(u)
    PROVE  Moves
<1>1. res' \in [Actors -> Call] /\ batch' \in [Batches -> {"absent", "open", "review", "closed"}]
    BY DEF Sound, DeskTypeOK, ScanTypeOK
<1>2. /\ \A a \in Actors : CallMoves(a)
      /\ \A b \in Batches : BatchMoves(b)
    BY DEF CallMoves, BatchMoves
<1> QED
    BY <1>1, <1>2, CandsStay, ReviewFrame

\* A request that calls resolveUnit.
LEMMA OnlyResolves ==
    ASSUME Sound, NEW p \in Requests, NEW q \in Request, RequestBecomes(p, q), NewRequest(q),
           UNCHANGED <<unit, cands, top, holding, ext, batch, imp>>,
           NEW u \in Units, Present(u), NEW key \in Keys \cup {None}, NEW ack \in BOOLEAN,
           CallBecomes(p, ResolveCalled(u, key, ack, "operator"))
    PROVE  Moves
<1> DEFINE c == ResolveCalled(u, key, ack, "operator")
<1>1. c \in Call /\ c.pc = "read" /\ c.u = u /\ c.mode = "operator"
    BY IdleCall DEF ResolveCalled, Call, NoCall, ConfirmedModes
<1>2. p \in Actors
    BY DEF Actors
<1> HIDE DEF c
<1>3. res' \in [Actors -> Call] /\ res'[p] = c /\ (CallMoves(p) => \A a \in Actors : CallMoves(a))
    BY <1>1, <1>2, CallTurns DEF c
<1>4. CallMoves(p)
    BY <1>1, <1>3 DEF CallMoves
<1>5. /\ unit' \in [Units -> Unit]
      /\ batch' \in [Batches -> {"absent", "open", "review", "closed"}]
    BY DEF Sound, DeskTypeOK, ScanTypeOK
<1>6. /\ \A w \in Units : UnitMoves(w)
      /\ \A b \in Batches : BatchMoves(b)
    BY DEF UnitMoves, BatchMoves
<1> QED
    BY <1>3, <1>4, <1>5, <1>6, CandsStay, ReviewFrame

\* The request of the moment is one it may still be.
LEMMA SameRequest ==
    ASSUME Sound, NEW p \in Requests, req[p].pc # "close"
    PROVE  req[p] \in Request /\ NewRequest(req[p])
BY DEF Sound, RequestsAreSane, NewRequest, DeskTypeOK, ReviewTypeOK

LEMMA IdleIsNew == NewRequest(NoRequest)
BY IdleRequest DEF NewRequest

LEMMA ConfirmsMove ==
    ASSUME Sound, NEW p \in Requests, UNCHANGED imp,
           \/ \E u \in Units : \E key \in cands[u], ack \in BOOLEAN : Resolve(p, u, key, ack)
           \/ \E u \in Units : ApproveNext(p, u)
           \/ \E b \in Batches : ApproveRead(p, b)
           \/ \E ack \in BOOLEAN : ApproveCheck(p, ack)
           \/ ApproveDone(p)
    PROVE  Moves
<1> DEFINE q == req[p]
<1>1. /\ q \in Request /\ req \in [Requests -> Request]
      /\ unit \in [Units -> Unit] /\ cands \in [Units -> SUBSET Keys] /\ top \in [Units -> Keys \cup {None}]
    BY DEF Sound, DeskTypeOK, ScanTypeOK, ReviewTypeOK
<1>2. NoRequest \in Request /\ NewRequest(NoRequest)
    BY IdleRequest, IdleIsNew
<1>3. \A u \in q.ready : Present(u)
    BY DEF Sound, RequestsAreSane
<1> HIDE DEF q
<1>4. CASE \E u \in Units : \E key \in cands[u], ack \in BOOLEAN : Resolve(p, u, key, ack)
    <2> PICK u \in Units : \E key \in cands[u], ack \in BOOLEAN : Resolve(p, u, key, ack)
        BY <1>4
    <2> PICK key \in cands[u], ack \in BOOLEAN : Resolve(p, u, key, ack)
        OBVIOUS
    <2>1. key \in Keys \cup {None}
        BY <1>1
    <2>2. RequestBecomes(p, q) /\ q.pc # "close"
        BY <1>1 DEF Resolve, RequestBecomes, RequestAt, q
    <2>3. NewRequest(q)
        BY <2>2, SameRequest DEF q
    <2> QED
        BY <1>1, <2>1, <2>2, <2>3, OnlyResolves DEF Resolve, Present
<1>5. CASE \E u \in Units : ApproveNext(p, u)
    <2> PICK u \in Units : ApproveNext(p, u)
        BY <1>5
    <2> DEFINE n == [q EXCEPT !.ready = @ \ {u}, !.keys[u] = None]
    <2>1. /\ u \in q.ready /\ q.pc = "loop" /\ RequestBecomes(p, n)
          /\ CallBecomes(p, ResolveCalled(u, q.keys[u], q.ack, "operator"))
          /\ UNCHANGED <<unit, cands, top, holding, ext, batch>>
        BY DEF ApproveNext, RequestAt, q
    <2>2. n \in Request /\ n.pc = "loop" /\ n.ready = q.ready \ {u}
        BY <1>1, <2>1 DEF Request
    <2>3. q.keys[u] \in Keys \cup {None} /\ q.ack \in BOOLEAN
        BY <1>1 DEF Request
    <2> HIDE DEF n
    <2>4. NewRequest(n)
        BY <1>3, <2>2 DEF NewRequest
    <2> QED
        BY <1>3, <2>1, <2>2, <2>3, <2>4, OnlyResolves
<1>6. CASE \E b \in Batches : ApproveRead(p, b)
    <2> PICK b \in Batches : ApproveRead(p, b)
        BY <1>6
    <2> DEFINE ready == {u \in UnitsOf(b) : Staged(u) /\ unit[u].list}
               known == {u \in ready : top[u] # None}
               keys == [u \in Units |-> IF u \in ready THEN top[u] ELSE None]
               flagged == \E u \in ready : NeedsAck(u)
               n == [NoRequest EXCEPT !.pc = "check", !.b = b, !.ready = known, !.keys = keys,
                                      !.flagged = flagged]
    <2>1. RequestBecomes(p, n) /\ UNCHANGED baseVars
        BY DEF ApproveRead
    <2>2. /\ known \subseteq Units /\ keys \in [Units -> Keys \cup {None}] /\ flagged \in BOOLEAN
          /\ \A u \in known : Present(u)
        <3>1. keys \in [Units -> Keys \cup {None}]
            BY <1>1
        <3>2. known \subseteq Units /\ \A u \in known : Present(u)
            BY DEF UnitsOf, Present
        <3> QED
            BY <3>1, <3>2
    <2> HIDE DEF known, keys, flagged
    <2>3. n \in Request /\ n.pc = "check" /\ n.ready = known
        BY <1>2, <2>2 DEF Request
    <2> HIDE DEF n
    <2>4. NewRequest(n)
        BY <2>2, <2>3 DEF NewRequest
    <2> QED
        BY <2>1, <2>3, <2>4, OnlyRequest
<1>7. CASE \E ack \in BOOLEAN : ApproveCheck(p, ack)
    <2> PICK ack \in BOOLEAN : ApproveCheck(p, ack)
        BY <1>7
    <2> DEFINE n == [q EXCEPT !.pc = "loop", !.ack = ack]
    <2>1. (RequestBecomes(p, n) \/ RequestBecomes(p, NoRequest)) /\ UNCHANGED baseVars
        BY DEF ApproveCheck, q
    <2>2. n \in Request /\ n.pc = "loop" /\ n.ready = q.ready
        BY <1>1 DEF Request
    <2> HIDE DEF n
    <2>3. NewRequest(n)
        BY <1>3, <2>2 DEF NewRequest
    <2> QED
        BY <1>2, <2>1, <2>2, <2>3, OnlyRequest
<1>8. CASE ApproveDone(p)
    BY <1>2, <1>8, OnlyRequest DEF ApproveDone
<1> QED
    BY <1>4, <1>5, <1>6, <1>7, <1>8
\* Candidates that come and go leave the best among them.
LEMMA CandidatesTurn ==
    ASSUME CandsAreTyped, NEW u \in Units, NEW S \in SUBSET Keys, NEW t,
           IF S = {} THEN t = None ELSE t \in S,
           cands' = [cands EXCEPT ![u] = S], top' = [top EXCEPT ![u] = t]
    PROVE  CandsAreTyped'
BY DEF CandsAreTyped

\* A better candidate, or none, beside those there are.
LEMMA CandidateAdded ==
    ASSUME CandsAreTyped, NEW u \in Units, NEW found \in Keys \cup {None},
           cands' = [cands EXCEPT ![u] = cands[u] \cup ({found} \ {None})],
           NEW t \in ({found, top[u]} \ {None}) \cup (IF found = None /\ top[u] = None THEN {None} ELSE {}),
           top' = [top EXCEPT ![u] = t]
    PROVE  CandsAreTyped'
<1>1. None \notin Keys
    BY NoneIsNoKey DEF Keys
<1>2. cands[u] \subseteq Keys /\ (IF cands[u] = {} THEN top[u] = None ELSE top[u] \in cands[u])
    BY DEF CandsAreTyped
<1> DEFINE S == cands[u] \cup ({found} \ {None})
<1>3. S \in SUBSET Keys /\ IF S = {} THEN t = None ELSE t \in S
    BY <1>1, <1>2
<1> HIDE DEF S
<1> QED
    BY <1>3, CandidatesTurn DEF S

LEMMA IdentitiesMove ==
    ASSUME Sound, NEW p \in Requests, UNCHANGED imp,
           \/ \E u \in Units : EditCandidate(p, u)
           \/ \E u \in Units : Reidentify(p, u)
           \/ DeleteCandidates(p) \/ NothingIdentified(p)
           \/ \E key \in Cards : InsertCandidate(p, key)
           \/ \E S \in {{u} : u \in Units} \cup {UnitsOf(b) : b \in Batches} : Swap(p, S)
           \/ \E u \in req[p].ready, found \in Cards \cup {None} : SwapCandidates(p, u, found)
    PROVE  Moves
<1> DEFINE q == req[p]
<1>1. q \in Request /\ CandsAreTyped
    BY DEF Sound, DeskTypeOK, ScanTypeOK, ReviewTypeOK, CandsAreTyped
<1>2. NoRequest \in Request /\ NewRequest(NoRequest) /\ NoRequest.ready = {}
    BY IdleRequest, IdleIsNew
<1>3. /\ \A u \in q.ready : Present(u)
      /\ q.pc \in {"edit", "delete", "insert", "update", "turn"} => q.u \in Units
    BY DEF Sound, RequestsAreSane
<1>4. None \notin Keys /\ Typed \in Keys /\ Cards \subseteq Keys
    BY NoneIsNoKey DEF Keys
<1> HIDE DEF q
<1>5. CASE \E u \in Units : EditCandidate(p, u)
    <2> PICK u \in Units : EditCandidate(p, u)
        BY <1>5
    <2> DEFINE n == [NoRequest EXCEPT !.pc = "edit", !.u = u]
    <2>1. /\ RequestBecomes(p, n) /\ UNCHANGED <<unit, holding, ext, batch, res>>
          /\ cands' = [cands EXCEPT ![u] = cands[u] \cup {Typed}]
          /\ \E best \in {Typed, top[u]} \ {None} : top' = [top EXCEPT ![u] = best]
        BY DEF EditCandidate
    <2>2. n \in Request /\ n.pc = "edit" /\ n.ready = {} /\ n.u = u
        BY <1>2 DEF Request
    <2> HIDE DEF n
    <2>3. NewRequest(n)
        BY <2>2 DEF NewRequest
    <2>4. CandsAreTyped'
        <3>1. cands[u] \cup ({Typed} \ {None}) = cands[u] \cup {Typed} /\ Typed \in Keys \cup {None}
            BY <1>4
        <3> QED
            BY <1>1, <2>1, <3>1, CandidateAdded
    <2> QED
        BY <2>1, <2>2, <2>3, <2>4, OnlyCandidates
<1>6. CASE \E u \in Units : Reidentify(p, u)
    <2> PICK u \in Units : Reidentify(p, u)
        BY <1>6
    <2> DEFINE n == [NoRequest EXCEPT !.pc = "delete", !.u = u]
    <2>1. RequestBecomes(p, n) /\ UNCHANGED baseVars
        BY DEF Reidentify
    <2>2. n \in Request /\ n.pc = "delete" /\ n.ready = {} /\ n.u = u
        BY <1>2 DEF Request
    <2> HIDE DEF n
    <2>3. NewRequest(n)
        BY <2>2 DEF NewRequest
    <2> QED
        BY <2>1, <2>2, <2>3, OnlyRequest
<1>7. CASE DeleteCandidates(p)
    <2> DEFINE n == [q EXCEPT !.pc = "insert"]
    <2>1. /\ q.pc = "delete" /\ RequestBecomes(p, n) /\ UNCHANGED <<unit, holding, ext, batch, res>>
          /\ cands' = [cands EXCEPT ![q.u] = {}] /\ top' = [top EXCEPT ![q.u] = None]
        BY <1>7 DEF DeleteCandidates, RequestAt, q
    <2>2. n \in Request /\ n.pc = "insert" /\ n.ready = q.ready /\ n.u = q.u
        BY <1>1 DEF Request
    <2> HIDE DEF n
    <2>3. NewRequest(n)
        BY <1>3, <2>1, <2>2 DEF NewRequest
    <2>4. CandsAreTyped'
        BY <1>1, <1>3, <2>1, CandidatesTurn
    <2> QED
        BY <2>1, <2>2, <2>3, <2>4, OnlyCandidates
<1>8. ASSUME q.pc = "insert"
      PROVE  [q EXCEPT !.pc = "update"] \in Request /\ NewRequest([q EXCEPT !.pc = "update"])
    <2> DEFINE n == [q EXCEPT !.pc = "update"]
    <2>1. n \in Request /\ n.pc = "update" /\ n.ready = q.ready /\ n.u = q.u
        BY <1>1 DEF Request
    <2> HIDE DEF n
    <2>2. NewRequest(n)
        BY <1>3, <1>8, <2>1 DEF NewRequest
    <2> QED
        BY <2>1, <2>2 DEF n
<1>9. CASE NothingIdentified(p)
    BY <1>8, <1>9, OnlyRequest DEF NothingIdentified, RequestAt, q
<1>10. CASE \E key \in Cards : InsertCandidate(p, key)
    <2> PICK key \in Cards : InsertCandidate(p, key)
        BY <1>10
    <2>1. q.pc = "insert" /\ q.u \in Units /\ UNCHANGED <<unit, holding, ext, batch, res>>
        BY <1>3 DEF InsertCandidate, RequestAt, q
    <2>2. CASE key \in cands[q.u]
        <3>1. UNCHANGED <<cands, top>> /\ RequestBecomes(p, NoRequest)
            BY <2>2 DEF InsertCandidate, q
        <3> QED
            BY <1>2, <2>1, <3>1, OnlyRequest DEF baseVars
    <2>3. CASE key \notin cands[q.u]
        <3>1. /\ cands' = [cands EXCEPT ![q.u] = cands[q.u] \cup {key}]
              /\ \E best \in {key, top[q.u]} \ {None} : top' = [top EXCEPT ![q.u] = best]
              /\ RequestBecomes(p, [q EXCEPT !.pc = "update"])
            BY <2>3 DEF InsertCandidate, q
        <3>2. cands[q.u] \cup ({key} \ {None}) = cands[q.u] \cup {key} /\ key \in Keys \cup {None}
            BY <1>4
        <3>3. CandsAreTyped'
            BY <1>1, <2>1, <3>1, <3>2, CandidateAdded
        <3> QED
            BY <1>8, <2>1, <3>1, <3>3, OnlyCandidates
    <2> QED
        BY <2>2, <2>3
<1>11. CASE \E S \in {{u} : u \in Units} \cup {UnitsOf(b) : b \in Batches} : Swap(p, S)
    <2> PICK S \in {{u} : u \in Units} \cup {UnitsOf(b) : b \in Batches} : Swap(p, S)
        BY <1>11
    <2> DEFINE open == {u \in S : Staged(u)}
               after == {u \in open : unit[u].turned # "yes"}
               known == {u \in open : u[2] \in FrontsElsewhere(u[1], u \in after)}
               n == [NoRequest EXCEPT !.pc = "swap", !.ready = open, !.turned = after, !.known = known]
    <2>1. RequestBecomes(p, n) /\ UNCHANGED baseVars
        BY DEF Swap
    <2>2. S \subseteq Units
        BY DEF UnitsOf
    <2>3. open \subseteq Units /\ after \subseteq Units /\ known \subseteq Units
        BY <2>2
    <2>4. \A u \in open : Present(u)
        BY DEF Staged, Present
    <2> HIDE DEF open, after, known
    <2>5. n \in Request /\ n.pc = "swap" /\ n.ready = open
        BY <1>2, <2>3 DEF Request
    <2> HIDE DEF n
    <2>6. NewRequest(n)
        BY <2>4, <2>5 DEF NewRequest
    <2> QED
        BY <2>1, <2>5, <2>6, OnlyRequest
<1>12. CASE \E u \in req[p].ready, found \in Cards \cup {None} : SwapCandidates(p, u, found)
    <2> PICK u \in q.ready, found \in Cards \cup {None} : SwapCandidates(p, u, found)
        BY <1>12 DEF q
    <2> DEFINE n == [q EXCEPT !.pc = "turn", !.u = u]
    <2>1. /\ q.pc = "swap" /\ RequestBecomes(p, n) /\ UNCHANGED <<unit, holding, ext, batch, res>>
          /\ cands' = [cands EXCEPT ![u] = cands[u] \cup ({found} \ {None})]
          /\ \E t \in IF found = None THEN {top[u]} ELSE {found, top[u]} \ {None} :
                top' = [top EXCEPT ![u] = t]
        BY DEF SwapCandidates, RequestAt, q
    <2>2. u \in Units
        BY <1>1 DEF Request
    <2>3. n \in Request /\ n.pc = "turn" /\ n.ready = q.ready /\ n.u = u
        BY <1>1, <2>2 DEF Request
    <2> HIDE DEF n
    <2>4. NewRequest(n)
        BY <1>3, <2>2, <2>3 DEF NewRequest
    <2>5. CandsAreTyped'
        <3>1. PICK t \in IF found = None THEN {top[u]} ELSE {found, top[u]} \ {None} :
                 top' = [top EXCEPT ![u] = t]
            BY <2>1
        <3>2. t \in ({found, top[u]} \ {None}) \cup (IF found = None /\ top[u] = None THEN {None} ELSE {})
            OBVIOUS
        <3>3. found \in Keys \cup {None}
            BY <1>4
        <3> QED
            BY <1>1, <2>1, <2>2, <3>1, <3>2, <3>3, CandidateAdded
    <2> QED
        BY <2>1, <2>3, <2>4, <2>5, OnlyCandidates
<1> QED
    BY <1>5, <1>6, <1>7, <1>9, <1>10, <1>11, <1>12
\* A step that lists, turns or rejects one unit.
LEMMA OneUnit ==
    ASSUME Sound, NEW u \in Units, unit' = [unit EXCEPT ![u] = unit'[u]], unit'[u] \in Unit,
           holding' = holding, unit[u].turned # "no" => unit'[u].turned # "no",
           \/ unit'[u].mode = unit[u].mode
           \/ Staged(u) /\ unit'[u].mode = "rejected" /\ unit'[u].turned = unit[u].turned
    PROVE  unit' \in [Units -> Unit] /\ \A w \in Units : UnitMoves(w)
<1>1. unit \in [Units -> Unit]
    BY DEF Sound, DeskTypeOK, ScanTypeOK
<1>2. unit' \in [Units -> Unit] /\ \A w \in Units : w # u => unit'[w] = unit[w]
    BY <1>1
<1>3. UnitMoves(u)
    BY DEF UnitMoves
<1>4. \A w \in Units : w # u => UnitMoves(w)
    BY <1>2 DEF UnitMoves
<1> QED
    BY <1>2, <1>3, <1>4

LEMMA DecisionsMove ==
    ASSUME Sound, NEW p \in Requests, UNCHANGED imp,
           \/ \E u \in Units : Reject(p, u)
           \/ \E u \in Units, onList \in BOOLEAN : SetConfirmList(p, u, onList)
           \/ \E b \in Batches : DiscardUnits(p, b)
           \/ DiscardBatch(p) \/ EditUnit(p) \/ UpdateIdentified(p) \/ SwapFaces(p)
    PROVE  Moves
<1> DEFINE q == req[p]
<1>1. q \in Request /\ unit \in [Units -> Unit] /\ req \in [Requests -> Request]
    BY DEF Sound, DeskTypeOK, ScanTypeOK, ReviewTypeOK
<1>2. NoRequest \in Request /\ NewRequest(NoRequest) /\ NoRequest.ready = {}
    BY IdleRequest, IdleIsNew
<1>3. /\ \A u \in q.ready : Present(u)
      /\ q.pc \in {"edit", "delete", "insert", "update", "turn"} => q.u \in Units
      /\ q.pc = "close" => q.b \in Batches
    BY DEF Sound, RequestsAreSane
<1>4. req' = req => RequestBecomes(p, q)
    BY <1>1 DEF RequestBecomes, q
<1>5. q.pc = "idle" => NewRequest(q)
    BY SameRequest DEF q
<1> HIDE DEF q
<1>6. ASSUME NEW u \in Units, NEW list \in BOOLEAN, unit' = [unit EXCEPT ![u].list = list],
             holding' = holding
      PROVE  unit' \in [Units -> Unit] /\ \A w \in Units : UnitMoves(w)
    <2>1. /\ unit'[u] \in Unit /\ unit'[u].mode = unit[u].mode /\ unit'[u].turned = unit[u].turned
          /\ unit' = [unit EXCEPT ![u] = unit'[u]]
        BY <1>1, <1>6 DEF Unit
    <2> QED
        BY <1>6, <2>1, OneUnit
<1>7. CASE \E u \in Units : Reject(p, u)
    <2> PICK u \in Units : Reject(p, u)
        BY <1>7
    <2>1. /\ Staged(u) /\ unit' = [unit EXCEPT ![u].mode = "rejected"] /\ q.pc = "idle"
          /\ UNCHANGED <<cands, top, holding, ext, batch, res, req>>
        BY DEF Reject, RequestAt, q
    <2>2. /\ unit'[u] \in Unit /\ unit'[u].mode = "rejected" /\ unit'[u].turned = unit[u].turned
          /\ unit' = [unit EXCEPT ![u] = unit'[u]]
        BY <1>1, <2>1 DEF Unit, Modes
    <2>3. unit' \in [Units -> Unit] /\ \A w \in Units : UnitMoves(w)
        BY <2>1, <2>2, OneUnit
    <2> QED
        BY <1>1, <1>4, <1>5, <2>1, <2>3, OnlyUnits
<1>8. CASE \E u \in Units, onList \in BOOLEAN : SetConfirmList(p, u, onList)
    <2> PICK u \in Units, onList \in BOOLEAN : SetConfirmList(p, u, onList)
        BY <1>8
    <2>1. /\ unit' = [unit EXCEPT ![u].list = onList] /\ q.pc = "idle"
          /\ UNCHANGED <<cands, top, holding, ext, batch, res, req>>
        BY DEF SetConfirmList, RequestAt, q
    <2> QED
        BY <1>1, <1>4, <1>5, <1>6, <2>1, OnlyUnits
<1>9. CASE \E b \in Batches : DiscardUnits(p, b)
    <2> PICK b \in Batches : DiscardUnits(p, b)
        BY <1>9
    <2> DEFINE open == {u \in UnitsOf(b) : Staged(u)}
               n == [NoRequest EXCEPT !.pc = "close", !.b = b]
    <2>1. /\ unit' = [u \in Units |-> IF u \in open THEN [unit[u] EXCEPT !.mode = "rejected"]
                                                     ELSE unit[u]]
          /\ RequestBecomes(p, n) /\ UNCHANGED <<cands, top, holding, ext, batch, res>>
        BY DEF DiscardUnits
    <2>2. \A u \in open : Staged(u)
        OBVIOUS
    <2>3. \A u \in Units : u[1] = b /\ Staged(u) => u \in open
        BY DEF UnitsOf, Staged
    <2> HIDE DEF open
    <2>4. ASSUME NEW u \in Units
          PROVE  /\ unit'[u] \in Unit /\ unit'[u].turned = unit[u].turned
                 /\ unit'[u].mode = IF u \in open THEN "rejected" ELSE unit[u].mode
        BY <1>1, <2>1 DEF Unit, Modes
    <2>5. unit' \in [Units -> Unit]
        BY <2>1, <2>4
    <2>6. \A u \in Units : UnitMoves(u)
        BY <2>1, <2>2, <2>4 DEF UnitMoves
    <2>7. \A u \in Units : u[1] = b => ~Staged(u)'
        BY <2>3, <2>4 DEF Staged
    <2>8. n \in Request /\ n.pc = "close" /\ n.ready = {} /\ n.b = b
        BY <1>2 DEF Request
    <2> HIDE DEF n
    <2>9. NewRequest(n)
        BY <2>7, <2>8 DEF NewRequest
    <2> QED
        BY <2>1, <2>5, <2>6, <2>8, <2>9, OnlyUnits
<1>10. CASE DiscardBatch(p)
    <2>1. /\ q.pc = "close" /\ batch' = [batch EXCEPT ![q.b] = "closed"]
          /\ RequestBecomes(p, NoRequest) /\ UNCHANGED <<unit, cands, top, holding, ext, res>>
        BY <1>10 DEF DiscardBatch, RequestAt, q
    <2>2. q.b \in Batches /\ batch \in [Batches -> {"absent", "open", "review", "closed"}]
        BY <1>3, <2>1 DEF Sound, DeskTypeOK, ScanTypeOK
    <2>3. /\ batch' \in [Batches -> {"absent", "open", "review", "closed"}]
          /\ \A b \in Batches : BatchMoves(b)
        BY <2>1, <2>2 DEF BatchMoves, q
    <2>4. res' \in [Actors -> Call] /\ unit' \in [Units -> Unit]
        BY <2>1 DEF Sound, DeskTypeOK, ScanTypeOK
    <2>5. (\A a \in Actors : CallMoves(a)) /\ \A u \in Units : UnitMoves(u)
        BY <2>1 DEF CallMoves, UnitMoves
    <2> QED
        BY <1>2, <2>1, <2>3, <2>4, <2>5, CandsStay, ReviewFrame
<1>11. CASE EditUnit(p)
    <2>1. /\ q.pc = "edit" /\ q.u \in Units
          /\ RequestBecomes(p, NoRequest) /\ UNCHANGED <<cands, top, holding, ext, batch, res>>
        BY <1>3, <1>11 DEF EditUnit, RequestAt, q
    <2>2. CASE unit' = unit
        BY <1>2, <2>1, <2>2, OnlyRequest DEF baseVars
    <2>3. CASE unit' = [unit EXCEPT ![q.u].list = FALSE]
        BY <1>2, <1>6, <2>1, <2>3, OnlyUnits
    <2> QED
        BY <1>11, <2>2, <2>3 DEF EditUnit, q
<1>12. CASE UpdateIdentified(p)
    <2>1. /\ q.pc = "update" /\ q.u \in Units
          /\ RequestBecomes(p, NoRequest) /\ UNCHANGED <<cands, top, holding, ext, batch, res>>
        BY <1>3, <1>12 DEF UpdateIdentified, RequestAt, q
    <2>2. PICK onList \in BOOLEAN : unit' = [unit EXCEPT ![q.u].list = onList]
        BY <1>12 DEF UpdateIdentified, q
    <2> QED
        BY <1>2, <1>6, <2>1, <2>2, OnlyUnits
<1>13. CASE SwapFaces(p)
    <2> DEFINE u == q.u
               left == q.ready \ {u}
               n == [q EXCEPT !.pc = "swap", !.u = None, !.ready = left]
    <2>1. /\ q.pc = "turn" /\ u \in Units /\ UNCHANGED <<cands, top, holding, ext, batch, res>>
          /\ RequestBecomes(p, n) \/ RequestBecomes(p, NoRequest)
        BY <1>3, <1>13 DEF SwapFaces, RequestAt, q
    <2>2. n \in Request /\ n.pc = "swap" /\ n.ready = left
        BY <1>1 DEF Request
    <2>3. NewRequest(n)
        BY <1>3, <2>2 DEF NewRequest
    <2>4. unit' \in [Units -> Unit] /\ \A w \in Units : UnitMoves(w)
        <3>1. CASE unit' = unit
            BY <1>1, <2>1, <3>1 DEF UnitMoves
        <3>2. CASE unit' # unit
            <4> DEFINE turned == IF u \in q.turned THEN "yes" ELSE "back"
                       physical == u \in q.known
            <4>1. PICK high \in BOOLEAN :
                     unit' = [unit EXCEPT ![u].turned = turned, ![u].physical = physical,
                                          ![u].list = high /\ u \notin q.known]
                BY <1>13, <3>2 DEF SwapFaces, q
            <4>2. turned \in {"yes", "back"} /\ physical \in BOOLEAN /\ (high /\ u \notin q.known) \in BOOLEAN
                OBVIOUS
            <4> HIDE DEF turned, physical
            <4> DEFINE list == high /\ u \notin q.known
                       x == [unit[u] EXCEPT !.turned = turned, !.physical = physical, !.list = list]
            <4> HIDE DEF list, u
            <4>3. x \in Unit /\ x.mode = unit[u].mode /\ x.turned = turned
                BY <1>1, <2>1, <4>2 DEF Unit, list
            <4>4. unit' = [unit EXCEPT ![u] = x]
                BY <1>1, <2>1, <4>1 DEF list
            <4> HIDE DEF x
            <4>5. /\ unit'[u] \in Unit /\ unit'[u].mode = unit[u].mode /\ unit'[u].turned # "no"
                  /\ unit' = [unit EXCEPT ![u] = unit'[u]]
                BY <1>1, <2>1, <4>2, <4>3, <4>4
            <4> QED
                BY <2>1, <4>5, OneUnit
        <3> QED
            BY <3>1, <3>2
    <2> HIDE DEF n
    <2> QED
        BY <1>2, <2>1, <2>2, <2>3, <2>4, OnlyUnits
<1> QED
    BY <1>7, <1>8, <1>9, <1>10, <1>11, <1>12, <1>13

LEMMA ReviewMoves ==
    ASSUME Sound, NEW p \in Requests, ReviewStep(p), UNCHANGED imp
    PROVE  Moves
BY ConfirmsMove, IdentitiesMove, DecisionsMove DEF ReviewStep
-----------------------------------------------------------------------------
(* Imports move                                                            *)

LEMMA ImportFrame ==
    ASSUME Sound, NEW b \in Batches, NEW n \in Import, ImportBecomes(b, n),
           imp'[b] = n => ImportMoves(b),
           UNCHANGED <<holding, ext, req>>, CandsAreTyped',
           unit' \in [Units -> Unit], \A u \in Units : UnitMoves(u),
           res' \in [Actors -> Call], \A a \in Actors : CallMoves(a),
           batch' \in [Batches -> {"absent", "open", "review", "closed"}],
           \A c \in Batches : BatchMoves(c)
    PROVE  Moves
<1>1. imp \in [Batches -> Import]
    BY DEF Sound, DeskTypeOK, IntakeTypeOK
<1>2. imp' \in [Batches -> Import] /\ imp'[b] = n /\ \A c \in Batches : c # b => imp'[c] = imp[c]
    BY <1>1 DEF ImportBecomes
<1>3. DeskTypeOK'
    BY <1>2 DEF Sound, DeskTypeOK, ScanTypeOK, IntakeTypeOK, ReviewTypeOK, CandsAreTyped
<1>4. \A c \in Batches : imp'[c] = imp[c] => ImportMoves(c)
    BY DEF ImportMoves
<1>5. \A c \in Batches : ImportMoves(c)
    BY <1>2, <1>4
<1>6. \A r \in Requests : RequestMoves(r)
    BY DEF RequestMoves
<1> QED
    BY <1>3, <1>5, <1>6 DEF Moves

\* An import that changes the status of its batch at most, and does not close it.
LEMMA OnlyImport ==
    ASSUME Sound, NEW b \in Batches, NEW n \in Import, ImportBecomes(b, n),
           imp'[b] = n => ImportMoves(b),
           UNCHANGED <<unit, cands, top, holding, ext, res, req>>,
           NEW status \in {"open", "review"},
           batch' = batch \/ batch' = [batch EXCEPT ![b] = status]
    PROVE  Moves
<1>1. batch \in [Batches -> {"absent", "open", "review", "closed"}]
    BY DEF Sound, DeskTypeOK, ScanTypeOK
<1>2. /\ batch' \in [Batches -> {"absent", "open", "review", "closed"}]
      /\ \A c \in Batches : BatchMoves(c)
    BY <1>1 DEF BatchMoves
<1>3. /\ unit' \in [Units -> Unit] /\ res' \in [Actors -> Call]
      /\ \A u \in Units : UnitMoves(u)
      /\ \A a \in Actors : CallMoves(a)
    BY DEF Sound, DeskTypeOK, ScanTypeOK, UnitMoves, CallMoves
<1> QED
    BY <1>2, <1>3, CandsStay, ImportFrame

LEMMA FoldersMove ==
    ASSUME Sound, NEW b \in Batches, UNCHANGED req,
           \/ ImportCalled(b) \/ OpenBatch(b) \/ ReadKnown(b) \/ Finish(b)
           \/ \E pages \in SUBSET Images : ReadFolder(b, pages)
           \/ \E i \in imp[b].todo : SkipUnit(b, i)
    PROVE  Moves
<1> DEFINE m == imp[b]
<1>1. m \in Import /\ NoImport \in Import /\ imp \in [Batches -> Import]
    BY DEF Sound, DeskTypeOK, IntakeTypeOK, Import, NoImport
<1>2. ASSUME NEW n \in Import, ImportBecomes(b, n) PROVE imp'[b] = n
    BY <1>1, <1>2 DEF ImportBecomes
<1> HIDE DEF m
<1>3. CASE ImportCalled(b)
    <2> DEFINE n == [NoImport EXCEPT !.pc = "called"]
    <2>1. m.pc = "new" /\ ImportBecomes(b, n) /\ UNCHANGED baseVars
        BY <1>3 DEF ImportCalled, ImportAt, m
    <2>2. n \in Import /\ n.pc = "called"
        BY <1>1 DEF Import
    <2> HIDE DEF n
    <2> QED
        BY <2>1, <2>2, OnlyImport DEF ImportMoves, baseVars, m
<1>4. CASE \E pages \in SUBSET Images : ReadFolder(b, pages)
    <2> PICK pages \in SUBSET Images : ReadFolder(b, pages)
        BY <1>4
    <2> DEFINE held == {c \in Cards : AlreadyHeld(c)}
               n == [NoImport EXCEPT !.pc = "open", !.pages = pages, !.todo = pages, !.held = held]
    <2>1. m.pc = "called" /\ ImportBecomes(b, n) /\ UNCHANGED baseVars
        BY DEF ReadFolder, ImportAt, m
    <2>2. held \in SUBSET Cards
        OBVIOUS
    <2> HIDE DEF held
    <2>3. n \in Import /\ n.pc = "open" /\ n.todo = n.pages
        BY <1>1, <2>2 DEF Import
    <2> HIDE DEF n
    <2> QED
        BY <2>1, <2>3, OnlyImport DEF ImportMoves, baseVars, m
<1>5. CASE OpenBatch(b)
    <2> DEFINE n == [m EXCEPT !.pc = "persist"]
    <2>1. /\ m.pc = "open" /\ ImportBecomes(b, n)
          /\ batch' = [batch EXCEPT ![b] = "open"] /\ UNCHANGED <<unit, cands, top, holding, ext, res>>
        BY <1>5 DEF OpenBatch, ImportAt, m
    <2>2. n \in Import /\ n.pc = "persist" /\ n.todo = m.todo /\ n.pages = m.pages
        BY <1>1 DEF Import
    <2> HIDE DEF n
    <2>3. imp'[b] = n => ImportMoves(b)
        BY <2>1, <2>2 DEF ImportMoves, m
    <2> QED
        BY <2>1, <2>2, <2>3, OnlyImport
<1>6. CASE ReadKnown(b)
    <2>1. PICK known \in {KnownFronts(b)} \cup (IF ReadsFail THEN {{}} ELSE {}) :
              ImportBecomes(b, [m EXCEPT !.pc = "process", !.held = {}, !.todo = m.pages,
                                         !.known = known])
        BY <1>6 DEF ReadKnown, m
    <2> DEFINE n == [m EXCEPT !.pc = "process", !.held = {}, !.todo = m.pages, !.known = known]
    <2>2. m.pc = "persist" /\ m.todo = {} /\ ImportBecomes(b, n) /\ UNCHANGED baseVars
        BY <1>6, <2>1 DEF ReadKnown, ImportAt, m
    <2>3. known \subseteq Images /\ (~ReadsFail => known = KnownFronts(b))
        <3>1. KnownFronts(b) \subseteq Images
            BY DEF KnownFronts, FrontsElsewhere, Units
        <3> QED
            BY <3>1
    <2>4. n \in Import /\ n.pc = "process" /\ n.todo = m.pages /\ n.pages = m.pages /\ n.known = known
        BY <1>1, <2>3 DEF Import
    <2> HIDE DEF n
    <2>5. imp'[b] = n
        BY <1>2, <2>2, <2>4
    <2>6. ImportMoves(b)
        BY <2>2, <2>3, <2>4, <2>5 DEF ImportMoves, baseVars, m
    <2> QED
        BY <2>2, <2>4, <2>6, OnlyImport DEF baseVars
<1>7. CASE \E i \in imp[b].todo : SkipUnit(b, i)
    <2> PICK i \in m.todo : SkipUnit(b, i)
        BY <1>7 DEF m
    <2> DEFINE n == [m EXCEPT !.todo = m.todo \ {i}]
    <2>1. m.pc = "process" /\ ImportBecomes(b, n) /\ UNCHANGED baseVars
        BY DEF SkipUnit, ImportAt, m
    <2>2. /\ n \in Import /\ n.pc = m.pc /\ n.todo \subseteq m.todo
          /\ n.pages = m.pages /\ n.known = m.known
        BY <1>1 DEF Import
    <2> HIDE DEF n
    <2>3. imp'[b] = n => ImportMoves(b)
        BY <2>1, <2>2 DEF ImportMoves, m
    <2> QED
        BY <2>1, <2>2, <2>3, OnlyImport DEF baseVars
<1>8. CASE Finish(b)
    <2> DEFINE n == [m EXCEPT !.pc = "done", !.held = {}, !.known = {}]
    <2>1. /\ m.pc = "process" /\ ImportBecomes(b, n)
          /\ batch' = [batch EXCEPT ![b] = "review"] /\ UNCHANGED <<unit, cands, top, holding, ext, res>>
        BY <1>8 DEF Finish, ImportAt, m
    <2>2. n \in Import /\ n.pc = "done"
        BY <1>1 DEF Import
    <2> HIDE DEF n
    <2>3. imp'[b] = n => ImportMoves(b)
        BY <2>1, <2>2 DEF ImportMoves, m
    <2> QED
        BY <2>1, <2>2, <2>3, OnlyImport
<1> QED
    BY <1>3, <1>4, <1>5, <1>6, <1>7, <1>8

\* An import that dies ends the call it made.
LEMMA DeathMoves ==
    ASSUME Sound, NEW b \in Batches, UNCHANGED req, Die(b)
    PROVE  Moves
<1> DEFINE n == [imp[b] EXCEPT !.pc = "dead", !.held = {}, !.todo = {}, !.known = {}]
<1>1. /\ ImportBecomes(b, n) /\ CallBecomes(b, NoCall)
      /\ UNCHANGED <<unit, cands, top, holding, ext, batch>>
    BY DEF Die
<1>2. imp[b] \in Import
    BY DEF Sound, DeskTypeOK, IntakeTypeOK
<1>3. n \in Import /\ n.pc = "dead"
    BY <1>2 DEF Import
<1> HIDE DEF n
<1>4. imp'[b] = n => ImportMoves(b)
    BY <1>3 DEF ImportMoves
<1>5. b \in Actors
    BY DEF Actors
<1>6. res' \in [Actors -> Call] /\ \A a \in Actors : CallMoves(a)
    BY <1>1, <1>5, IdleCall, CallTurns DEF CallMoves
<1>7. /\ unit' \in [Units -> Unit] /\ batch' \in [Batches -> {"absent", "open", "review", "closed"}]
      /\ \A u \in Units : UnitMoves(u)
      /\ \A c \in Batches : BatchMoves(c)
    BY <1>1 DEF Sound, DeskTypeOK, ScanTypeOK, UnitMoves, BatchMoves
<1> QED
    BY <1>1, <1>3, <1>4, <1>6, <1>7, CandsStay, ImportFrame

LEMMA StorageMoves ==
    ASSUME Sound, NEW b \in Batches, NEW i \in imp[b].todo, NEW found \in Cards \cup {None},
           UNCHANGED req, PersistUnit(b, i, found)
    PROVE  Moves
<1> DEFINE u == <<b, i>>
           m == imp[b]
           flag == found \in m.held
           n == [m EXCEPT !.todo = m.todo \ {i}]
           x == [NoUnit EXCEPT !.mode = "staged", !.dupe = flag]
<1>1. /\ m.pc = "persist" /\ ImportBecomes(b, n)
      /\ unit' = [unit EXCEPT ![u] = x]
      /\ cands' = [cands EXCEPT ![u] = {found} \ {None}] /\ top' = [top EXCEPT ![u] = found]
      /\ UNCHANGED <<holding, ext, batch, res>>
    BY DEF PersistUnit, ImportAt
<1>2. /\ m \in Import /\ unit \in [Units -> Unit] /\ imp \in [Batches -> Import] /\ CandsAreTyped
    BY DEF Sound, DeskTypeOK, ScanTypeOK, IntakeTypeOK, CandsAreTyped
<1>3. i \in Images /\ u \in Units /\ u[1] = b /\ u[2] = i
    BY <1>2 DEF Import, Units
<1>4. ~Present(u)
    BY <1>1, <1>3 DEF Sound, ImportsAreSane
<1>5. x \in Unit /\ x.mode = "staged"
    <2>1. flag \in BOOLEAN
        OBVIOUS
    <2>2. NoUnit \in Unit
        BY AssetsAreNat DEF NoUnit, Unit, Modes
    <2> HIDE DEF flag
    <2> QED
        BY <2>1, <2>2 DEF Unit, Modes
<1>6. n \in Import /\ n.pc = m.pc /\ n.pages = m.pages /\ n.todo = m.todo \ {i}
    BY <1>2 DEF Import
<1> HIDE DEF u, x, n
<1>7. imp'[b] = n
    BY <1>1, <1>2, <1>6 DEF ImportBecomes
<1>8. /\ unit' \in [Units -> Unit] /\ unit'[u].mode = "staged"
      /\ \A w \in Units : w # u => unit'[w] = unit[w]
    BY <1>1, <1>2, <1>3, <1>5
<1>9. UnitMoves(u)
    BY <1>1, <1>3, <1>4, <1>6, <1>7, <1>8 DEF UnitMoves
<1>10. \A w \in Units : w # u => UnitMoves(w)
    BY <1>1, <1>8 DEF UnitMoves
<1>11. ImportMoves(b)
    <2>1. unit'[<<b, i>>].mode = "staged"
        BY <1>8 DEF u
    <2> QED
        BY <1>1, <1>6, <1>7, <2>1 DEF ImportMoves
<1>12. CandsAreTyped'
    <2> DEFINE S == {found} \ {None}
    <2>1. S \in SUBSET Keys /\ IF S = {} THEN found = None ELSE found \in S
        BY DEF Keys
    <2> HIDE DEF S
    <2> QED
        BY <1>1, <1>2, <1>3, <2>1, CandidatesTurn DEF S
<1>13. /\ res' \in [Actors -> Call] /\ batch' \in [Batches -> {"absent", "open", "review", "closed"}]
       /\ \A a \in Actors : CallMoves(a)
       /\ \A c \in Batches : BatchMoves(c)
    BY <1>1 DEF Sound, DeskTypeOK, ScanTypeOK, CallMoves, BatchMoves
<1> HIDE DEF m
<1> QED
    BY <1>1, <1>6, <1>8, <1>9, <1>10, <1>11, <1>12, <1>13, ImportFrame

LEMMA LooksMove ==
    ASSUME Sound, NEW b \in Batches, NEW i \in imp[b].todo, NEW found \in Cards \cup {None},
           NEW high \in BOOLEAN, NEW auto \in BOOLEAN,
           UNCHANGED req, Process(b, i, found, high, auto)
    PROVE  Moves
<1> DEFINE u == <<b, i>>
           m == imp[b]
           physical == i \in m.known
           clear == high /\ ~physical /\ ~unit[u].dupe
           best == IF found # None THEN found ELSE top[u]
           n == [m EXCEPT !.todo = m.todo \ {i}]
           x == [unit[u] EXCEPT !.list = clear, !.physical = physical]
           c == ResolveCalled(u, best, FALSE, "auto")
<1>1. /\ m.pc = "process" /\ ImportBecomes(b, n) /\ UNCHANGED <<holding, ext, batch>>
      /\ cands' = [cands EXCEPT ![u] = cands[u] \cup ({found} \ {None})]
      /\ \E t \in ({best, top[u]} \ {None}) \cup (IF best = None THEN {None} ELSE {}) :
            top' = [top EXCEPT ![u] = t]
      /\ unit' = [unit EXCEPT ![u].list = clear, ![u].physical = physical]
      /\ (auto /\ clear /\ CallBecomes(b, c)) \/ res' = res
    BY DEF Process, ImportAt
<1>2. /\ m \in Import /\ unit \in [Units -> Unit] /\ imp \in [Batches -> Import] /\ CandsAreTyped
    BY DEF Sound, DeskTypeOK, ScanTypeOK, IntakeTypeOK, CandsAreTyped
<1>3. i \in Images /\ u \in Units /\ u[1] = b /\ u[2] = i
    BY <1>2 DEF Import, Units
<1>4. Present(u)
    BY <1>1, <1>3 DEF Sound, ImportsAreSane
<1>5. clear => Clear(u)
    BY <1>1, <1>3 DEF Clear
<1>6. clear \in BOOLEAN /\ physical \in BOOLEAN
    OBVIOUS
<1>7. best \in Keys \cup {None}
    BY <1>2, <1>3 DEF CandsAreTyped, Keys
<1>8. CandsAreTyped'
    <2>1. PICK t \in ({best, top[u]} \ {None}) \cup (IF best = None THEN {None} ELSE {}) :
             top' = [top EXCEPT ![u] = t]
        BY <1>1
    <2>2. t \in ({found, top[u]} \ {None}) \cup (IF found = None /\ top[u] = None THEN {None} ELSE {})
        OBVIOUS
    <2>3. found \in Keys \cup {None}
        BY DEF Keys
    <2> HIDE DEF u
    <2> QED
        BY <1>1, <1>2, <1>3, <2>1, <2>2, <2>3, CandidateAdded
<1> HIDE DEF u, clear, physical, best
<1>9. x \in Unit /\ x.mode = unit[u].mode /\ x.turned = unit[u].turned
    BY <1>2, <1>3, <1>6 DEF Unit
<1>10. unit' = [unit EXCEPT ![u] = x]
    BY <1>1, <1>2, <1>3
<1>11. n \in Import /\ n.pc = m.pc /\ n.pages = m.pages /\ n.known = m.known /\ n.todo \subseteq m.todo
    BY <1>2 DEF Import
<1>12. c \in Call /\ c.pc = "read" /\ c.u = u /\ c.mode = "auto"
    BY <1>3, <1>7, IdleCall DEF ResolveCalled, Call, NoCall, ConfirmedModes
<1> HIDE DEF x, n, c
<1>13. unit' \in [Units -> Unit] /\ \A w \in Units : UnitMoves(w)
    <2>1. /\ unit'[u] = x /\ unit' = [unit EXCEPT ![u] = unit'[u]]
        BY <1>2, <1>3, <1>10
    <2> QED
        BY <1>1, <1>3, <1>9, <2>1, OneUnit
<1>14. imp'[b] = n => ImportMoves(b)
    BY <1>1, <1>11 DEF ImportMoves
<1>15. res' \in [Actors -> Call] /\ \A a \in Actors : CallMoves(a)
    <2>1. CASE res' = res
        BY <2>1 DEF CallMoves, Sound, DeskTypeOK, ScanTypeOK
    <2>2. CASE clear /\ CallBecomes(b, c)
        <3>1. b \in Actors
            BY DEF Actors
        <3>2. res' \in [Actors -> Call] /\ res'[b] = c /\ (CallMoves(b) => \A a \in Actors : CallMoves(a))
            BY <1>12, <2>2, <3>1, CallTurns
        <3>3. CallMoves(b)
            BY <1>3, <1>4, <1>5, <1>12, <2>2, <3>2 DEF CallMoves
        <3> QED
            BY <3>2, <3>3
    <2> QED
        BY <1>1, <2>1, <2>2
<1>16. /\ batch' \in [Batches -> {"absent", "open", "review", "closed"}]
       /\ \A d \in Batches : BatchMoves(d)
    BY <1>1 DEF Sound, DeskTypeOK, ScanTypeOK, BatchMoves
<1> HIDE DEF m
<1> QED
    BY <1>1, <1>8, <1>11, <1>13, <1>14, <1>15, <1>16, ImportFrame

LEMMA IntakeMoves ==
    ASSUME Sound, IntakeStep, UNCHANGED req
    PROVE  Moves
<1> PICK b \in Batches :
       \/ ImportByHand(b) \/ PassImports(b)
       \/ OpenBatch(b) \/ ReadKnown(b) \/ Finish(b) \/ Die(b)
       \/ \E pages \in SUBSET Images : ReadFolder(b, pages)
       \/ \E i \in imp[b].todo :
             \/ SkipUnit(b, i)
             \/ \E found \in Cards \cup {None} :
                   \/ PersistUnit(b, i, found)
                   \/ \E high, auto \in BOOLEAN : Process(b, i, found, high, auto)
    BY DEF IntakeStep
<1>1. CASE \/ ImportByHand(b) \/ PassImports(b) \/ OpenBatch(b) \/ ReadKnown(b) \/ Finish(b)
           \/ \E pages \in SUBSET Images : ReadFolder(b, pages)
           \/ \E i \in imp[b].todo : SkipUnit(b, i)
    BY <1>1, FoldersMove DEF ImportByHand, PassImports
<1>2. CASE Die(b)
    BY <1>2, DeathMoves
<1>3. CASE \E i \in imp[b].todo : \E found \in Cards \cup {None} : PersistUnit(b, i, found)
    BY <1>3, StorageMoves
<1>4. CASE \E i \in imp[b].todo : \E found \in Cards \cup {None} : \E high, auto \in BOOLEAN :
              Process(b, i, found, high, auto)
    BY <1>4, LooksMove
<1> QED
    BY <1>1, <1>2, <1>3, <1>4

LEMMA DyingRequestMoves ==
    ASSUME Sound, NEW p \in Requests, RequestDies(p)
    PROVE  Moves
<1>1. /\ RequestBecomes(p, NoRequest) /\ CallBecomes(p, NoCall) /\ p \in Actors
      /\ UNCHANGED <<unit, cands, top, holding, ext, batch, imp>>
    BY DEF RequestDies, RequestBecomes, Actors
<1>2. res' \in [Actors -> Call] /\ \A a \in Actors : CallMoves(a)
    BY <1>1, IdleCall, CallTurns DEF CallMoves
<1>3. /\ unit' \in [Units -> Unit] /\ batch' \in [Batches -> {"absent", "open", "review", "closed"}]
      /\ \A u \in Units : UnitMoves(u)
      /\ \A b \in Batches : BatchMoves(b)
    BY <1>1 DEF Sound, DeskTypeOK, ScanTypeOK, UnitMoves, BatchMoves
<1> QED
    BY <1>1, <1>2, <1>3, IdleRequest, IdleIsNew, CandsStay, ReviewFrame

LEMMA StillMoves == Sound /\ UNCHANGED vars => Moves
BY DEF Sound, Moves, DeskTypeOK, ScanTypeOK, IntakeTypeOK, ReviewTypeOK, Unit, vars, baseVars,
       UnitMoves, CallMoves, ImportMoves, BatchMoves, RequestMoves

LEMMA EveryStepMoves == Sound /\ [Next]_vars => Moves
<1> SUFFICES ASSUME Sound, [Next]_vars
             PROVE  Moves
    OBVIOUS
<1>1. CASE ResolveSteps
    BY <1>1, ResolveMoves DEF ResolveSteps
<1>2. CASE IntakeSteps
    BY <1>2, IntakeMoves DEF IntakeSteps
<1>3. CASE ReviewSteps
    BY <1>3, ReviewMoves DEF ReviewSteps
<1>4. CASE \E p \in Requests : RequestDies(p)
    BY <1>4, DyingRequestMoves
<1> QED
    BY <1>1, <1>2, <1>3, <1>4, StillMoves DEF Next

LEMMA HistoryMoves == Closing /\ [Next]_vars => LateMoves
<1> SUFFICES ASSUME Closing, [Next]_vars
             PROVE  LateMoves
    OBVIOUS
<1>1. CASE Remember
    BY <1>1 DEF Remember, LateMoves, Closing, Stored
<1>2. CASE UNCHANGED vars
    BY <1>2 DEF vars, baseVars, LateMoves, Closing, Stored
<1> QED
    BY <1>1, <1>2 DEF Next, ResolveSteps, IntakeSteps, ReviewSteps, RequestDies
-----------------------------------------------------------------------------
(* The theorems                                                            *)

LEMMA Start == Init => Sound /\ Closing /\ Unknown
<1> SUFFICES ASSUME Init
             PROVE  Sound /\ Closing /\ Unknown
    OBVIOUS
<1>1. NoUnit \in Unit /\ NoUnit.mode = "absent"
    BY AssetsAreNat DEF NoUnit, Unit, Modes
<1>2. NoImport \in Import /\ NoImport.pc = "new"
    BY DEF NoImport, Import
<1>3. /\ NoRequest \in Request /\ NoRequest.pc = "idle" /\ NoRequest.ready = {}
      /\ NoCall \in Call /\ NoCall.pc = "idle"
    BY IdleRequest, IdleCall
<1>4. /\ \A u \in Units : unit[u] = NoUnit /\ holding[u] = 0
      /\ \A p \in Actors : res[p] = NoCall
      /\ \A b \in Batches : imp[b] = NoImport
      /\ \A p \in Requests : req[p] = NoRequest
    BY DEF Init, IntakeInit, ReviewInit
<1>5. DeskTypeOK
    <2>1. 0 \in 0..MaxAssets /\ 1 \in 0..MaxAssets
        BY AssetsAreNat
    <2> QED
        BY <1>1, <1>2, <1>3, <2>1 DEF Init, IntakeInit, ReviewInit, DeskTypeOK, ScanTypeOK,
           IntakeTypeOK, ReviewTypeOK
<1>6. CallsAreSane /\ RequestsAreSane
    BY <1>3, <1>4 DEF CallsAreSane, RequestsAreSane
<1>7. ImportsAreSane
    BY <1>1, <1>2, <1>4 DEF ImportsAreSane, Present, Units
<1>8. BooksAgree
    BY <1>1, <1>4 DEF BooksAgree, Confirmed, ConfirmedModes
<1>9. Closing
    BY <1>1, <1>3, <1>4 DEF Init, Closing, NobodyHides, ClosedHidesNothing, Writing, CallAt, Staged
<1>10. \A u \in Units : ~Clear(u)
    BY <1>1, <1>2, <1>3, <1>4 DEF Clear, Units
<1> QED
    BY <1>5, <1>6, <1>7, <1>8, <1>9, <1>10 DEF Sound, Unknown

LEMMA Invariance == Spec => []IInv
<1>1. Init => IInv
    BY Start DEF IInv
<1>2. IInv /\ [Next]_vars => IInv'
    BY EveryStepMoves, HistoryMoves, SoundMoves, ClosingMoves DEF IInv
<1> QED
    BY <1>1, <1>2, PTL DEF Spec

\* Units, calls, imports, requests and batches keep their shape, and the
\* candidate stored as the best one of a card is one of its candidates.
THEOREM TypeCorrect == Spec => []TypeOK
BY Invariance, PTL DEF IInv, Sound, Closing, TypeOK, DeskTypeOK

\* resolveUnit's promise: in every interleaving of imports and requests a scan
\* is in the inventory if and only if it stands as confirmed.
THEOREM InventoryIsConfirmed == Spec => []BooksAgree
BY Invariance, PTL DEF IInv, Sound

\* However confirmations, discards and an import that goes on, ends or dies meet,
\* the one who takes a batch off the queue leaves nothing staged in it that was
\* stored when he looked.
THEOREM NothingIsForgotten == Spec => []ClosedHidesNothing
BY Invariance, PTL DEF IInv, Closing

\* No step of anyone undoes a confirmation, or gives its holding to another
\* asset.
THEOREM ConfirmationsStay == Spec => ConfirmedForGood
<1> DEFINE Stays == \A u \in Units : Confirmed(u) =>
                        Confirmed(u)' /\ holding'[u] = holding[u]
<1>1. IInv /\ [Next]_vars => [Stays]_vars
    <2> SUFFICES ASSUME IInv, [Next]_vars, NEW u \in Units, Confirmed(u)
                 PROVE  Confirmed(u)' /\ holding'[u] = holding[u]
        BY DEF IInv
    <2>1. UnitMoves(u) /\ holding[u] # 0
        BY EveryStepMoves DEF IInv, Moves, Sound, BooksAgree
    <2>2. \A p \in Actors : res[p].mode \in ConfirmedModes
        BY DEF IInv, Sound, DeskTypeOK, ScanTypeOK, Call
    <2> QED
        BY <2>1, <2>2 DEF UnitMoves, Confirmed, ConfirmedModes, Staged, Present
<1>2. ConfirmedForGood <=> [][Stays]_vars
    BY DEF ConfirmedForGood
<1> QED
    BY <1>1, <1>2, Invariance, PTL DEF Spec

\* Of the scans of one image that were not turned, at most one becomes
\* inventory by itself, in however many batches at once it is imported, if the
\* query for known images does not fail (ScanDesk_books checks the same).
THEOREM ImportedOnce ==
    ASSUME ~ReadsFail
    PROVE  Spec => []SameImageOnceByItself
<1>1. Init => IInv /\ Unknown
    BY Start DEF IInv
<1>2. IInv /\ Unknown /\ [Next]_vars => IInv' /\ Unknown'
    BY EveryStepMoves, HistoryMoves, SoundMoves, ClosingMoves, UnknownMoves DEF IInv
<1>3. Unknown => SameImageOnceByItself
    BY DEF Unknown, Clear, SameImageOnceByItself
<1> QED
    BY <1>1, <1>2, <1>3, PTL DEF Spec
=============================================================================
