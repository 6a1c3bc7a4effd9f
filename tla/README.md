# 258_VIP in TLA+

Models, model-checking runs and proofs about the parts of this repository that
run concurrently, talk to services that fail, and keep books: the eBay
selling engine (`src/packages/ebay-sell`, `src/services/api/src/lib/ebaySell`), the
council engine of Orchestr8 (`src/orchestr8/services`), card scanning from the folder to the
inventory, the GDELT radar job, and Binder Vault with its projection into the inventory.
`PROJECT.json` is the index: components,
runs, the source lines behind every definition (`map`), findings, hazards and
theorems. In this file a path without a directory, such as `service.ts`, is in
`src/services/api/src/lib/ebaySell/` or `src/packages/ebay-sell/src/`, a `.py` file
in `src/orchestr8/services/`, and the files of scanning, radar and binder are
in `src/services/api/src/lib/`, `src/services/jobs/src/` and `src/apps/binder-vault/src/lib/`.

## 1. The system

258_VIP manages a collection of trading cards and comics. Its parts:

| part | state it keeps | operations | talks to |
|---|---|---|---|
| **eBay engine: approve and publish** (`service.ts approveAndPublish`, `adapter/inventory.ts publishListing`, `adapter/client.ts`) | `marketplace_listing` rows, `holding.sales_path_state` | read row, hydrate, check blockers, PUT item, POST/PUT offer, publish, write back | eBay Inventory API (retried HTTP), Postgres |
| **eBay engine: order ingest** (`service.ts ingestOrderLines`, `store.ts insertOrder`, `sale-completion.ts`) | `marketplace_order`, `marketplace_order_line`, `market_observation`, the listing rows, paths and dispositions | fetch orders, skip known lines, insert order and line, mark SOLD, observe, patch path, HOLD | eBay Fulfillment API; run by a route and by an hourly job |
| **eBay engine: listing sync** (`service.ts syncListingStates`) | listing rows | read all rows, GET each offer, write each row back | eBay; run by a route and by a job |
| **eBay engine: drafts, exclusivity, lots** (`draftFromHolding`, `exclusivity.ts`, `lots.ts`, `acceptLot`, `rejectLot`) | listing rows, `listing_lot`, `listing_lot_member` | draft, propose, accept, reject | the operator's requests |
| **eBay engine: dispositions** (`recommendFor`, `disposition.ts`) | `holding.current_disposition`, its history | recommend, override | read by draft, publish, lots |
| **eBay engine: connection** (`store.ts` 213-326, `adapter/auth.ts`) | `ebay_connection`, an in-memory access-token cache | connect, refresh, disconnect | read by publish, ingest, sync |
| **eBay engine: daily queue** (`rebuildQueue`, `actOnQueue`) | `listing_queue_item` | rebuild, act | - |
| **eBay engine: pricing, KPIs, experiments, payloads** | none, or append-only metrics | pure functions | - |
| **Orchestr8 council engine** (`orchestrator.py`, `credit_pause.py`) | a run's steps | single, pipeline, parallel; pause on exhausted credit; resume | LLM providers |
| **Orchestr8 job stream and run store** (`api/server.py`, `job_monitor.py`, `runstore.py`) | live jobs, cancel flags, run bundles on disk | start, stream, cancel, save | the council engine |
| **Orchestr8 registry, agents, councils, contracts** | JSON files | load, validate | - |
| **Scan intake** (`ricohIntake.ts`, `scanAutoIntake.ts`, `persistBatch`) | batches, units, candidates | list the folder, stage a batch, look at the images, resolve by itself what policy allows | the scanner's folder, OCR; started by hand and by a timer |
| **Scan review** (`scanStorePg.ts`, `reidentifyBatch.ts`) | the same, and assets, external ids, holdings | confirm, approve a list, reject, discard, edit, list, identify again; `resolveUnit` in a transaction | the operator's requests |
| **Scan identification** | none | evidence fusion | - |
| **Binder Vault** (`repo.ts`) | binders, pages, pockets | fill, move, clear, transfer, toggle owned and wishlist, push, sync | VIP's API |
| **Binder projection** (`binderWrite.ts`) | assets, external ids, holdings, watchlist | project one pocket, or many one after the other | called by Binder Vault's toggles, Push to VIP and Sync Owned |
| **GDELT radar** (`gdelt-radar.ts`) | a checkpoint file, `source_item` rows | download the minutes after the checkpoint, keep the matches | GDELT's files; started by the scheduler and by hand |
| **Hunts, comics edits, transactions, batch runs** | rows by natural key | single-statement edits | Postgres |
| **Job scheduler** (`src/services/jobs`) | provider circuits | start jobs | processes |
| **Signals, pricing, decision packages; front ends; bridge and scripts** | - | pure computation, presentation, relays | - |

The eBay engine is the core of this project: five kinds of request and two job
processes share the same rows with **no transaction around any two statements**,
each reading a whole row, waiting for eBay, and writing the whole row back.

What makes each part correct, and what is hard about it:

* *Publish.* eBay's calls are not idempotent (a second POST of an offer or of a
  publish is refused), answers get lost, the client repeats, requests die. Ids
  in rows must be ids eBay gave out; an attempt that nothing but such accidents
  hindered must end PUBLISHED; a retry must not create a second listing.
* *Ingest.* The same order is seen by every run of the hour, by two processes at
  once, and by runs after a crash. A sale must be recorded once, completed once,
  and only if somebody paid.
* *Sync.* Rows are written back minutes after they were read. A dead listing
  must not come back; a row must end up saying what eBay says.
* *Drafts and lots.* Drafts must keep the ids of an earlier listing; copies
  of a rejected lot must be free again, although its members are written one by one
  and the request may die between them.
* *All together.* Whoever writes a row last, a row that says it is listed must
  name a listing that exists or existed.
* *Council.* Every call to a model is paid for, and credit runs out in the middle. A
  step that succeeded must not be called again by a resume, or by the resume of a
  resume; an answer must not be composed as if the roles without credit had answered;
  a stopped job must call nobody else; and a paused run must be able to end.
* *Scanning.* One folder is imported by a timer, by the operator and by an import whose
  caller gave up on it, all at once, each import taking minutes; the operator reviews what is still
  being imported. A scan must be in the inventory if and only if it stands as confirmed,
  one image must not become inventory by itself twice, and who closes a batch must hide nothing
  he could see.
* *Radar.* Passes overlap, fail and die, and GDELT publishes late or never. What the
  checkpoint is past must have been kept, and what is published must be kept in the end.
* *Binder.* Two databases' worth of tables, no transaction, and every row written from an
  earlier read. VIP's rows must be of cards that were marked in their pocket, and one
  undisturbed push must repair whatever failed before.
* *Not modelled.* Refresh against disconnect (connection), a queue rebuilt
  under the operator's hands, the event queue of a job stream.

## 2. Modules

```
EbayBase            shared state: what eBay holds, what the rows say
 ├─ EbayPublish         approveAndPublish + publishListing
 │   └─ EbayPublish_proofs
 ├─ OrderIngest         ingestOrderLines        ── refines ──> SaleLedger
 │   └─ OrderIngest_proofs
 ├─ ListingSync         syncListingStates
 ├─ ListingDraft        draftFromHolding, acceptLot, rejectLot
 │   └─ ListingRows_proofs  about both
 └─ EbaySell            INSTANCEs the four above over one set of rows
     └─ EbaySell_proofs     INSTANCEs the three proof modules above
Council             _execute_job, run_job, resume_job, pause and stop
 └─ Council_proofs
ScanBase            tables of scanning, and resolveUnit
 ├─ ScanIntake          ingestRicohBatch, persistBatch, the watching pass
 ├─ ScanReview          the operator's requests
 └─ ScanDesk            EXTENDS both: one set of tables
     └─ ScanDesk_proofs
GdeltRadar          runGdeltRadar, and who starts it
 └─ GdeltRadar_proofs
BinderVault         pockets, and their projection into VIP
 └─ BinderVault_proofs
MC<module>              instances for TLC
```

**Conventions.** An action is the code between two awaits, so everything else may
happen between any two actions of one request. A request is a record: its
program counter `pc` and the locals that survive an await. A holding is one
physical copy (quantity 1) with one SKU and one idempotency key, so a SKU and a
listing row are indexed by the holding. eBay refuses a second offer for a
SKU, so an offer id is a Boolean; the listing ids of a SKU are numbered in the
order eBay issues them, 0 is null.

`EbayBase` - `offer`, `issued`, `paid` are eBay's state (external to the
repository: modelled from how the adapter reads the answers). `offer[h]` is
`unpublished`, `published` (live) or `ended` (over, but still shown with its
listing id; eBay may also show such an offer as unpublished again, and then
`offer[h]` is `unpublished`). `row`, `path`, `disp` are the database.

`EbayPublish` - `pub[p]` is one `approveAndPublish`. `snap` is the row object the
code reads once, spreads the adapter's result over, and upserts at the end.

| action | code |
|---|---|
| `Load`, `ReadListing`, `Hydrate` | the route's hydrate map, `getListing`, `hydrateHolding` and the blockers; a blocked request stores ERROR |
| `StoreHigh`, `Connect` | the high-value rule; connection state decides between APPROVED and going on |
| `Prepare` | location and inventory item |
| `OfferCall` | PUT of a known offer or POST of a new one: answered, refused, failed, or answered and lost. `RetriesThen` counts the client's `maxRetries` |
| `Lookup`, `Adopt` | GET by SKU after a failed call, adopting a left-over offer |
| `PublishCall`, `Check` | POST publish, and the GET that settles what a failed one did |
| `Store`, `Persist` | the row, then the path: two statements |
| `Abort` | an await throws, or the process ends |

`unhindered` is history, not program state: TRUE while nothing but lost answers
within the retry budget, and left-overs of earlier attempts, was in the way.
`stale` is history too: another request has written the row since this one read it.

`OrderIngest` - `ing[i]` is one ingest call. `Fetch`, `TakeLine` (`hasOrderLine`),
`FindListing`, `InsertOrder`, `InsertLine`, `MarkSold`, `InsertObservation`,
`PatchPath`, `Hold` are its statements in order. `mine` says whether the fresh
order id this call generated is the one in the table: `ON CONFLICT DO NOTHING`
keeps the first, and a line under any other id violates the foreign key and
throws. `SaleLedger` is the promise without calls or tables: pay, record
once, mark sold after recording, complete once after marking. The refinement
maps `recorded` to the stored lines, `completions` to the observations, and
`sold` to the copies whose row is SOLD.

`ListingSync` - `syn[s]` is one sync; `seen` is the array of rows it read once.
`StatusesFromOffer` is `listingStatusFromOffer`, with the listing container's
presence left open. A sync is `Overtaken` when the row it is about to write over is not the one it
read. Its specification is `SyncSpec`, so that one module can be proved about
drafts and syncs.

`ListingDraft` - `dra[d]` and `req[r]` are draft and lot requests. `DraftCheckLots`
passes the memberships of *every* lot to the assertion, as the code does. `lot[l].priced`
is the set of copies the lot was accepted for.
A lot's members are written one statement at a time; `HeldByAnotherLot` is the
unique index `uq_lot_member_active`. `DraftDies` and `LotDies` are a failed statement or the end of the
process, between any two statements. Two fields are history: `whole` of a rejection that read the lot while no request
was accepting it, and `freed` of a lot for which such a rejection was answered.

`EbaySell` - the disjunction of all components' steps over shared rows, plus the
operator's `Recommend`, the seller's `SellerEnds` and the buyer's `Checkout`.

`Council` - `council` is the request (mode, with a coordinator or not, with a build spec
or not), `job[j]` a job thread, `paused` the stored bundles of paused runs, of which
only what a resume reads is kept. The record of a job: `pc`, the result of every step so
far (`trace`), the roles the thread pool has not begun (`queued`), the calls in flight, and the cancel
flag (`stopped`). `heard` is history: the steps that succeeded in this job or in any run it
resumes. `Team[1]` stands for the role of a single job, and for the architect whom
`order_build_spec_roles` puts first.

| action | code |
|---|---|
| `Start`, `Resume` | `run_job`, and `resume_job` from any paused bundle: `_execute_job` up to its first call, with `seed_trace` filled in |
| `Call`, `Answer` | `monitor.check` and `_run_agent` of the lone role, the plan, a pipeline worker, the final answer or the synthesis; then the branch on its result: credit pauses, a failed plan or architect ends, other failures are walked around |
| `PoolCall`, `PoolAnswer` | a thread of the `ThreadPoolExecutor` takes the next role, its call returns |
| `CancelOthers` | `cancel()` of the futures not begun, when the main thread meets a credit failure |
| `PoolDone` | the end of `as_completed`: pause, or synthesis |
| `StopBeforeRetry`, `PoolStopBeforeRetry`, `Drained` | `monitor.check` before a retry raises, in the pool only once its other calls are over |
| `Store`, `StoreFails` | `_persist_run`, whose failed write is logged and forgotten |
| `Stop`, `Die` | the cancel flag set by the job stream; the end of the gateway with its daemon threads |

`ScanBase` - `unit`, `cands`, `top`, `holding`, `ext` and `batch` are the tables; a unit is the scan of
one image in one batch. `res[p]` is a call of `resolveUnit`, made by a request or by an import. The unit and the
candidate are read before the transaction (`ReadUnit`); in it the asset is found or made, the
rows are written (`Write`, which waits for another transaction's row locks) and become visible at
`Commit`; whether the batch closes is decided on what was committed before.
`late` of `ScanDesk` is history: the scans stored while somebody who had looked at the batch was about to close it
(`SetsOut`), or after that, until the batch is back on the queue.

| module | action | code |
|---|---|---|
| `ScanIntake` | `ImportByHand`, `PassImports` | the route, and the pass of the timer, which starts only on a folder with no known image |
| | `ReadFolder` | the route's read of the inventory, the listing of the folder, the pairs, OCR |
| | `OpenBatch`, `PersistUnit` | `persistBatch`, unit by unit |
| | `ReadKnown` | `knownFrontHashes`, once every unit is stored |
| | `Process`, `SkipUnit`, `Finish` | the loop over the units: what was identified is stored, and what policy allows is resolved at once; the last UPDATE |
| `ScanReview` | `Resolve` | POST resolve |
| | `ApproveRead`, `ApproveCheck`, `ApproveNext`, `ApproveDone` | `approveConfirmList`: the batch read once, the check for copies, then one `resolveUnit` after the other |
| | `Reject`; `DiscardUnits`, `DiscardBatch` | `rejectUnit`; the two statements of `discardBatch` |
| | `EditCandidate`, `EditUnit`; `SetConfirmList` | `editStagedUnit`, `setUnitConfirmList` |
| | `Swap`, `SwapCandidates`, `SwapFaces` | `swapStagedFaces`, of a unit or a batch: read once, then unit by unit |
| | `Reidentify`, `DeleteCandidates`, `InsertCandidate`, `UpdateIdentified` | `reidentifyStagedBatch`, one unit |

`GdeltRadar` - `pass[p]` is a pass under way, with the `now` it read when it began. `checkpoint` is the file
(last minute, circuit). `StartPass` is `readCheckpoint` and `minuteStamps`; `DownloadToc`, `DownloadNgrams`
are the two files of a minute, with `Missing` for a 404; `NgramsError` is any other
answer to the second; `KeepItem`, `KeptAll` are `keepMatches`; `EndPass` writes the checkpoint. `refused` is
history: the minutes whose second file was answered with an error.

`BinderVault` - `slot` has the pockets there are, `holding` and `watch` VIP's rows per pocket (their key is
the pocket's id), `assets` slugs and `linked` external ids. `WriteCard`, `ClearSlot`, `DeletePage` are edits of
one statement. The others are requests `req[r]`:

| action | code |
|---|---|
| `Move`, `ReadSource`, `WriteTarget`, `WriteSource` | `writeSlot` with a source: two reads, two UPDATEs |
| `AddPage`, `TransferPage`, `InsertPage`, `DeletePages` | `addPage` and `createBinder`; `transferPage`, copy and move |
| `DeleteBinder`, `DeletePages`, `BinderGone` | `deleteBinder`: the pockets of each page it read, then pages and binder |
| `Toggle`, `SetFlag`; `Push`; `SyncOwned`, `MatchPockets`, `MarkOwned`, `PushMarked` | `setSlotOwned` and `setSlotWishlist`; Push to VIP; Sync Owned |
| `ReadSlot`, `FindAsset`, `InsertAsset`, `LinkAsset`, `WriteHolding`, `WriteWatch` | `projectSlotToVip`, one pocket after the other |
| `SlotFails`, `Die` | its `catch`, which goes on with the next pocket; a request cut off |

`marked` and `alone` are history: what each pocket has held that was marked, and whether
nothing failed and no other request was made since this one began.

## 3. Runs

| run | question | bounds, and why they are enough |
|---|---|---|
| `publish_races` | stored ids are real; unhindered publishes end PUBLISHED; no second listing for a row that has one | 1 copy (copies do not interact in a publish), 2 requests, 1 retry (a first call lost and a repeated one), 2 listings (one ended by the seller, one issued again) |
| `ingest_safety` | books follow the money; one observation per line; refinement of `SaleLedger` | 2 calls, 2 copies sold as one order or as two, calls die anywhere. Three calls add no new pair of interleaved statements |
| `ingest_live` | every paid line is recorded and carried through | orders of one line (`ingest_basket` shows why), calls that do not die (a sale recorded by a call that died is never completed: section 4) |
| `ingest_basket` | *violated*: a second line of an order is never recorded | as above, an order of two lines |
| `sync_settles` | no dead listing revived but by a sync that was overtaken; rows settle | 2 syncs (the job's and the route's) of 1 row: a sync does the same for every row, each indexed by its copy, and the time it spends on other rows is time that passes before its own steps; 3 listings, so a row is relisted twice; a sale; calls die |
| `draft_lots` | drafts keep ids; an answered rejection frees the copies | 2 drafts, 2 lots of 2 copies (so a request can die between two members), 2 lot requests; all may die anywhere |
| `sell_sale` | listed rows are real and the books follow the money, all together | 1 copy, listed up to twice; a draft, a publish and an ingest, calls die |
| `sell_rows` | listed rows and listed paths are real | 1 copy; a publish, a sync, lot requests and an operator changing the disposition |
| `council_resumes` | nothing that succeeded is called again; no credit failure is walked around; no work before a plan; stop calls nobody; a paused run is answered | 3 workers and a pool of 2, so that one role waits; all modes, with and without coordinator and build spec; any number of pauses and resumes. 1 job at a time: jobs share only bundles, which are never changed |
| `scan_books` | inventory and confirmations agree; confirmed for good; a closed batch hides nothing that was there to see; an image resolves itself once | 2 images and 2 batches, at most 2 units: one import of both images, or two overlapping imports of one; 2 requests of the operator, one at a time, beside the imports; 1 catalog card and a typed identity; everything may fail or die |
| `radar_keeps` | the checkpoint is never ahead of what was kept; what is published is kept | 2 passes (a third adds no new pair), 2 minutes that share an article, a lag and a gap limit of 1 minute, so that every order of publishing, looking and giving up occurs; 1 failure of any kind |
| `binder_rows` | rows are of cards that were marked there; an unhindered push repairs | 2 pages of one pocket and one more that a transfer makes in another binder; a linked card, a held one and an upload; 3 edits or requests, 2 of them at once; statements fail anywhere |

Deadlock is checked except where the environment is finite by construction: in the
`EbaySell` runs, when a bound is used up and every request found its row missing or
blocked, and in the last three, when every import, minute or edit has been had. Symmetry is used only in runs with no temporal property of the
liveness kind.
The two passing `EbaySell` runs and `draft_lots` use a view (`MCEbaySell!LiveState`, `MCListingDraft!LiveState`), which leaves out of a state
what no later step and no property of the run reads: the history of a publish and of lots where no property of the run speaks of it,
the parts of the row a request once read that it will overwrite or not look at again, and in `draft_lots` the
copies a lot was priced for and which disposition a copy has that is not held.

**Bounds that are part of the models.** `MaxListings` caps how often eBay issues
a listing for a SKU (a guard of `EbayPublishesOffer`), `MaxLines` caps the lines of
an order, `MaxRetries` is the client's own parameter:
its default is 2, and 1 already shows a call that is lost and repeated.

`MaxUnits`, `MaxAsked`, `MaxAssets` cap the units, the operator's requests and the assets of
scanning; `LastMinute`, `MaxFaults` the minutes GDELT publishes and the failures of the radar;
`MaxEdits` the requests of Binder Vault. `MaxBatches`, `Lag` and `GapAfter` are the radar's own parameters.

**Assumptions that are part of the models.** There is one folder and nothing is taken out of it.
`ReadsFail = FALSE`: a failed query for known images is taken for an empty answer by the code, and
then `SameImageOnceByItself` fails (section 4). GDELT publishes a minute within
`GapAfter` minutes or never, as the code assumes of it. The radar's model starts with a
checkpoint. The inventory Sync Owned reads is one read; the page row and its pockets are inserted in
one step.

The operator of `Council` starts no new job while there is a paused run to resume (a guard of `Start`).

**Fairness.** Four specifications have any. `OrderIngest!FairSpec`: the job is
started every hour, so a `Fetch` that stays possible happens; a call that has
begun runs its statements, so `Proceed` is weakly fair. Nothing is assumed about
checkouts or crashes. `ListingSync!SyncFairSpec`: the job is started again and again
and database writes go through (weak fairness of `List`, `WriteBack`); eBay does
not fail for the same offer for ever (strong fairness of `AskAnswered`: between
two answers any number of calls may fail), and a process that dies does not do so on every later run (from some point on no `Crash`;
a call that ends by writing what its last row already says is no crash). And the job's sync and the route's do
not go on overtaking each other: from some point on none writes over a row that changed since it read it. The code
does not ensure this, the schedule does (the job runs now and then, the route when somebody presses it, and a sync of
the job that is not overtaken repairs the row); without it `RowSettles` fails (section 4).
`Council!FairSpec`: threads run and calls return (weak fairness of the calls, answers
and the pool), a paused run is resumed and a result stored; and from some
point on there is credit, nobody stops or kills the job, and its bundle is
stored (`Hindered`). Without the latter, an operator who always stops the job never gets an answer.
`GdeltRadar!FairSpec`: time passes, the timer starts passes on and on, and a pass that has begun goes on
(weak fairness of its steps); that downloads do not fail for ever is `MaxFaults`.

## 4. Findings

One is a run of its own, with the document quoted in `PROJECT.json`:

* `ingest_basket` - `insertOrder` is called per line with a fresh order id; from the
  second line of an order on, the foreign key refuses the line, in every run.

The models reach more states worth a look, which no run is spent on.

*eBay engine*

* A sale recorded by a call that died is never completed: the line is what later runs
  skip on (`service.ts:453`), and it is stored before the listing, the observation and the path.
* The exclusivity assertion is given the memberships of all lots and does not compare the
  copy, so one accepted lot blocks the drafts of all copies (`exclusivity.ts:35`).
* The holding is hydrated once, before the first eBay call (`service.ts:367`); a copy
  sold meanwhile is listed again.
* A publish of a row whose listing ended reports PUBLISHED (and stamps `listedAt`) with
  nothing live (`inventory.ts:274`).
* A publish in flight writes an older row over SOLD (`service.ts:422`).
* A rejection of a lot that dies, or whose statement fails, between two of the members it writes leaves the lot
  rejected with memberships still accepted (`store.ts:631`, no transaction): those copies are refused by the unique index to
  every other lot, until somebody rejects the same lot again. `AnsweredRejectionFrees` says that this repairs it.
* A lot rejected while it is being accepted keeps the copies whose memberships were not yet written when the
  rejection read them (`service.ts` `rejectLot`): they stay locked by a rejected lot.
* Of two syncs at once, the one that asked eBay earlier and writes later brings an ended listing back to
  its older status, until the next sync; if the next one is overtaken in the same way, once more. Two that go on doing so
  keep the row from ever settling.
* A lot keeps its price for all copies when the index refuses some of its members
  (`store.ts:618`).
* A lot is accepted for a copy already being listed as a single (`service.ts:751`).
* A copy the operator holds comes back with the next queue: `rebuildQueue` ranks by the rules and does not
  read the stored disposition (`queue.ts:89`, `disposition.ts:20`), though "Human override always wins"
  (`disposition.ts:18`); the publish is what it blocks. Two rebuilds at once queue a copy twice. Read, not modelled.

*Council*, where the code and what its comments lead one to expect differ

* A resume calls a role again that failed ordinarily *before* the role that lacked credit
  (`credit_pause.py:99` speaks of the failed role retrying first).
* Two resumes of one bundle, or a resume of a bundle whose last resume was stopped, pay
  again for the steps in between, as a stopped job leaves no bundle.
* `orchestrator.py:1002` lists roles as still waiting that were completed in the same run.
* The architect's continuation call (`orchestrator.py:356`) is made without looking at
  the cancel flag.

*Scanning*

* Identifying a batch again deletes the candidates of a unit confirmed while it looked at
  the images, and may put it on the list (`reidentifyBatch.ts:36`: "Confirmed units are left alone.").
* Two confirms with different candidates both pass the check outside the transaction: the
  holding keeps the first asset, the unit says the second (`scanStorePg.ts:418`).
* A rejected unit, or one of a discarded batch, can still be confirmed; two units of one typed
  card each make an asset.
* Approving a list takes the candidate of the highest confidence, which after an edit need
  not be the operator's (its confidence is 0.9); its check for copies is made once, before the first card.
* A discard rejects the staged cards and closes the batch in two statements, and a confirmation decides in one and commits in
  another (`scanStorePg.ts:941`, `scanStorePg.ts:566`); neither waits for the import that is still storing cards. If the second statement comes after the
  import's last UPDATE, or the import dies, the batch is off the queue with staged cards in it. These are the cards
  `late` stands for.
* The last UPDATE of an import puts a batch that was discarded or closed meanwhile back into
  review; rejecting the last card of a batch does not close it, and two concurrent last
  confirmations both leave it in review.
* The watching pass gives up on the import it started; the folder can then be imported
  twice. A folder of which some images are known, as after an import that failed halfway, is
  skipped for good (`scanAutoIntake.ts:45`).
* `knownFrontHashes` takes a failed query for "no image known".
* A card whose front and back were swapped is known by its back: importing the folder again
  by hand finds its scan to be new and may resolve it by itself (`ricohIntake.ts:85`; the check of the
  watching pass, `scanAutoIntake.ts:92`, looks at both). `SameImageOnceByItself` leaves swapped cards out.

*Radar*

* An error other than 404 for the second file of a recent minute is taken for a gap, and the
  minute is lost (`gdelt-radar.ts:221`), although its header promises a retry.
* A pass that ends later writes its older checkpoint over a newer one; minutes are then
  downloaded again, and nothing is lost. An unreadable checkpoint starts an hour back.
* The radar records outcomes that open its circuit, and asks nobody whether it is open.

*Binder Vault*

* The rows of a pocket that was emptied, moved away or deleted stay: a push reads filled
  pockets only, and the branch that would remove the rows (`binderWrite.ts:320`) is not reached.
* Sync Owned marks a pocket refilled since it was read (`repo.ts:683`), and takes such left-over rows as
  evidence of ownership.
* A page transferred as a copy doubles owned cards; moved, its old pockets' rows stay.
* A toggle racing a clear leaves an empty pocket owned. A move cut off between its UPDATEs
  loses the card of the target. Two uploads in one pocket share an asset.
* Two first projections of one card: the second fails on the slug, until the next push.
* The price sync reads the binder, fetches guide prices and then writes them by pocket id
  (`repo.ts:1003`): a pocket refilled meanwhile gets the price of the card it held. Read, not modelled.

## 5. Proofs

Every invariant and every action property of a passing run is also a theorem, for all values
of the constants that satisfy the named `ASSUME`s; TLC evaluates those in every run. One theorem
(`ImportedOnce`) has a hypothesis of its own. The others hold with or without crashes,
for any number of requests at once. Each property follows from an inductive invariant; those of publish,
scanning and binder were first found by TLC to hold on the instances of their runs.

`OrderIngest_proofs` proves, for any sets of copies, orders and ingesters, any
bounds and with or without crashes:

* `TypeCorrect`: `Spec => []TypeOK`
* `SalesArePaid`: `Spec => []SoldIsPaid`
* `CompletedOnce`: `Spec => []OneObservationPerLine`
* `ImplementsLedger`: `Spec => KeepsLedger`, i.e. `Spec => Ledger!Spec`

Assumptions: the constants' named ones in `EbayBase` and `OrderIngest` (`None`
is neither a copy nor a line; the bounds are naturals; `Crashes` is Boolean), which TLC
evaluates in every run.

None of these properties is inductive. `OneObservationPerLine` needs to know that a
call about to write an observation is the only one for its line, and that
depends on who inserted the *order*. The inductive invariant `IInv` adds three facts. `Books` is the part of it that speaks of the
ledger alone and `SoldFirst` the one that needs the rows, so that `EbaySell` can use the first:

* `InHandIsPaid`: every line in a call's payload, or in its hands, was paid. Payloads
  are what eBay reported, and a paid line stays paid.
* `OwnersAreAlone`: the call whose fresh order id went in (`mine`) is alone, and the
  order has no line yet. `InsertOrder` gives `mine` only if the order was
  not in the table, and the table never loses an order.
* `CompletersAreAlone`: between inserting a line and observing it, a call is alone with the line,
  nothing has been observed for it, and at the observation the row is SOLD. It follows from `OwnersAreAlone` because only an
  owner passes `InsertLine`.

`InitTyped`, `ProceedTyped` and the lemmas under them take types action by action,
`Invariance` the other conjuncts; `InitRefines` and `NextRefines` map each action
to a ledger step or a stutter (`InsertLine` to `Record`, `MarkSold` to
`MarkSold`, `InsertObservation` to `Complete`, `Checkout` to `Pay`).

`Council_proofs` proves, for any team, pool size and number of jobs:

* `TypesHold`: `Spec => []TypeOK`, with it the bound on the calls in flight
* `SuccessIsNotRecalled`: `Spec => []NotRecalled`
* `CreditIsNotWalkedAround`: `Spec => []NeverWalksAround`
* `PlanComesFirst`: `Spec => []NoWorkBeforePlan`
* `StoppedIsStopped`: `Spec => StopCallsNoOne`

Assumptions: the team is a non-empty list without repetitions, the coordinator's steps
are not workers, the pool has a thread.

`NotRecalled` speaks of `heard`, of which the code knows nothing. The invariant ties it to what the code
has: `heard` is exactly the successful part of the trace (`Bookkeeping`), and of a
stored pause exactly its seed (`GoodRun`); what is called or queued has no result yet.
The latter is not inductive without knowing which step each `pc` leads to (`InPlace`) and that this step is
still open (`IsDue`); resuming a coordinated pipeline without its plan would break it, if such a
seed could hold anything, which `PlanFirst` and `GoodRun` exclude. `CreditStops` is why credit
is not walked around: one call after the other, a job has no credit failure behind it; in
the pool, a role that is no longer waiting or in flight has a result unless there was one.
`GoodJob` is the conjunction; there is one lemma per action that a good job stays good,
and `StepIsGood` puts them together. TLC finds it to hold in every state of the instance of `council_resumes`; no run is
spent on it, as it says nothing the four properties do not rest on.

`GdeltRadar_proofs` proves, for any sets of passes, articles and matches and any bounds:

* `RadarTypes`: `Spec => []TypeOK`
* `RadarKeepsWhatItPasses`: `Spec => []NothingPassedOver`

Assumptions: `RadarBounds` and `MatchesAreArticles`. `NothingPassedOver` speaks of the checkpoint, which is
written from what a pass believes, and is regressed by slower passes. The invariant says the same of every pass:
all minutes up to its `last` are settled (kept, refused, or gaps that GDELT can no longer fill), and the minute in
its hands has every match kept or still in `fresh` (`InOrder`). The lemma the
steps rest on is that a settled minute stays settled: time goes on, rows are never deleted, and a gap
that is old for a pass is older for the clock.

`EbayPublish_proofs` proves:

* `TypeCorrect`: `Spec => []TypeOK`
* `RealIds`: `Spec => []IdsAreReal`
* `Converges`: `Spec => []UnhinderedPublishes`
* `OneListing`: `Spec => NoSecondListing`

The invariant is one predicate `Fine` of a request's record, beside what eBay and the rows say: the ids
in its hands are real; from `Adopt` to `Check` its offer exists and its row had no listing; at `Check`, if nothing
hindered it, eBay has the listing live; and while no other request wrote the row, the row's listing id is
the one it read. The last two hold only while nobody but requests and the seller acts, so `Fine` takes a
flag `alone`: `Spec` proves it for TRUE, and the FALSE half is what is left of it among ingest and sync.

`ListingRows_proofs` proves, about `ListingDraft`'s `Spec` and `ListingSync`'s `SyncSpec`:

* `DraftTypeCorrect`: `Spec => []TypeOK`; `SyncTypeCorrect`: `SyncSpec => []SyncTypeOK`
* `RedraftKeepsIds`: `Spec => DraftKeepsIds`, for any drafts at once: the ids a draft carries are those of its row,
  as drafts are the only writers here and write back the ids they read
* `RejectionFrees`: `Spec => []AnsweredRejectionFrees`, for any number of requests, any of which may die.
  A membership is active only if it was there when the rejection read the lot, and then the request still
  has it to write (`LeftFor`), or if somebody accepts the lot; nobody does after a rejection that read the
  lot while nobody did (`Quiet`), because a lot is accepted once
* `EndedStaysEnded`: `SyncSpec => OnlyNewListingsRevive`, for any number of syncs. What a call writes
  it made from the row it read and an answer it got since (`Past`), so if the row is still the one it
  read, an ended listing that comes back has a newer id on eBay

`EbaySell_proofs` proves, about all components over the same rows:

* `TypeCorrect`: `Spec => []TypeOK`
* `RowsStayReal`: `Spec => []ListedRowsAreReal`
* `PathsStayReal`: `Spec => []ListedPathWasIssued`
* `BooksFollowMoney`: `Spec => []SalesArePaid`

The invariant says the same of every row on its way: what a publish, an ingest, a draft or a sync has read and
will write back is made of ids eBay gave out (`Real`), and a real row stays real as eBay's books only
grow (`RealStays`). Two facts are not local. A sync must not write SOLD over a row whose sale nobody
recorded, so the rows it keeps are not SOLD ones, nor is what it makes of an answer. And a path that says listed was
written by a publish at `Persist`, where `Fine` knows that a listing was issued. The proofs of the components are
used by INSTANCE: the `Same...` lemmas identify their definitions with those of `EbaySell`, the `...Stand`
lemmas say that one component's invariant survives the others' steps (`GrowsOnly`, `NothingSold`), and there is
one `...Keeps` lemma per component.

`BinderVault_proofs` proves, for any pages, pockets, cards and requests:

* `TypeCorrect`: `Spec => []TypeOK`
* `RowsFollowMarks`: `Spec => []RowsWereMarked`
* `PushesMirror`: `Spec => []UnhinderedMirrors`

`Sane` is what a request may hold at each step: a filled pocket in its hands that is marked is one `marked` remembers, with
that very card, so whatever overtakes the request, the row it writes in the end is of a card that
was marked there. `OnItsWay` is what a request that is alone knows: the pockets of its scope that are
not to do any more are mirrored, and the one in hand is as it read it. That is inductive only because of `Lonely` (the
others are at rest) and `Missing` (an asset it did not find is still not there, so its INSERT cannot fail).

`ScanDesk_proofs` proves, for any images, batches, imports and requests:

* `TypeCorrect`: `Spec => []TypeOK`
* `InventoryIsConfirmed`: `Spec => []BooksAgree`
* `ConfirmationsStay`: `Spec => ConfirmedForGood`
* `NothingIsForgotten`: `Spec => []ClosedHidesNothing`
* `ImportedOnce`: `Spec => []SameImageOnceByItself`, *if the query for known images does not fail* (section 4 says
  what happens if it does)

`Moves` sums up in one formula what any step does to a unit, a call of `resolveUnit`, an import, a request and
a batch. The first half of the module shows which invariants such a step keeps, the second that every step is one.
`Sound` (calls are about stored units, an import stores each image once and then looks at what it stored) gives
`BooksAgree`: a unit becomes confirmed only where its holding is written. `NobodyHides` is why a closed batch hides
nothing else than late cards: whoever is about to take a batch off the queue, a commit that found all others resolved or a
discard that has rejected the rest, left nothing staged when he looked; nothing that was decided becomes staged again, and
what is stored from then on is remembered (`LateMoves`). `Unknown` is why an image resolves itself once: among
the units that were, are being or may still be resolved by themselves (`Clear`), two of one image
include a turned one, as a unit becomes clear only when its import finds no front of that image in any other
batch, and by then all its own units are stored, for the other to find.

**Only model-checked.** The liveness properties (`EveryLineRecorded`, `RecordedSaleCompletes`, `RowSettles`, `PausedGetsAnswered`,
`PublishedIsKept`): fairness and ENABLED are beyond the prover.

## 6. What the models leave out

* *Data*: prices, payloads, KPIs, wording. Which disposition the rules choose, whether a payload is
  incomplete, whether a card is of high value are free choices.
* *Windows and pages*: the fetch of orders reads 50 orders of seven days, `listListings` the
  500 newest rows. The models read all.
* *Statements taken as one*: the two SELECTs of `listLots`, and `patchHolding`'s UPDATEs.
* *eBay's delays*: a request that got no answer is applied before the client repeats it, or never.
* An answer to POST /offer without an `offerId` or to a publish without a `listingId`, and a
  publish route called with the ids of two different copies.
* The connection's token store: `Connect` takes either outcome.
* The daily queue: no other component reads its rows, and what an action on a row does is in the models
  already (approve is `DraftLoad`, hold and reject are `Recommend`).
* *Council*: prompts, costs, votes, the emission of a build spec's files, the retries of a call (a call is one action up to its
  last attempt), the architect's continuation call (a second call within the same step),
  a roster changed between pause and resume, the queue of events to the console.
* *Scanning*: OCR, matching and confidences (what is identified, and how surely, is a free choice); upload
  sessions, which end in the same import;
  batches opened and confirmed in memory only (POST /api/scan/batches, units/:id/confirm), which write no
  table; the demonstration batch 001; a client that resolves with the automatic mode. Every
  card has a back (the swap passes over others).
* *Radar*: watch terms, raw files, snapshots, how an article is classified.
* *Binder*: the order of pages, titles, prices and conditions; the artwork of an upload.
* *Hazards without a property*, beside those marked in `PROJECT.json`: a 51st order in the fetch's
  window, a 501st listing row, a second row for one environment by two first connects, a
  cancelled job that leaves no bundle.

## 7. Plan

In this order:

1. More refinements, stated and then proved: an abstract inventory (a scan is staged, then confirmed or
   rejected, and confirmed for good) implemented by `ScanDesk`, of which `Moves` is already the step; a
   listing that goes through the ids eBay issues in order, implemented by `EbayPublish`.
2. `EbayConnection` - connect, refresh, disconnect over the stored rows and the in-memory cache;
   a refresh in flight against a disconnect; two first connects. Abstract
   specification: one connection per environment that is usable only between a
   connect and the next disconnect. Composes with `EbayPublish` at `Connect`.
3. The job stream and the run store: the event queue between job thread and console, heartbeats, a console
   that closes at the end, bundles half written. Composes with `Council` at `Stop` and `Store`.
4. The prices and the page order of `BinderVault`.
