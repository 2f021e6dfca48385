# BenchLedger: TLA+ models, checks and proofs

BenchLedger is a self-hosted workshop ledger: inventory with an event-sourced
stock ledger, maker projects with revisions and bills of materials, reservations
of stock for them, files, and a close-out that settles what a build used. One
Node process serves REST, MCP and the web application; everything durable is in
one SQLite file (one synchronous connection) and one directory of artifacts.
Paths below are relative to the repository; `packages/` and `apps/` are at its
top.

This directory holds TLA+ modules for the parts whose correctness depends on the
order of steps, TLC configurations that check them on small instances, and TLAPS
proofs for every instance. `PROJECT.json` lists components, runs, mutants,
findings, hazards and theorems, and maps each definition to the lines it models.

## Inventory of the system

| Component | State it keeps | Operations | What makes it correct | Modelled by |
|---|---|---|---|---|
| Runtime barrier (`packages/runtime/src/barrier.ts`, `unit-of-work.ts`) | FIFO queue, running turn, AsyncLocalStorage scopes, accepting flag | `exclusive`, `shutdown`, `pump` | turns exclusive and in order, re-entrancy only inside the running turn, nothing after close, every accepted operation served | Barrier, FifoTurns |
| Audited commands (`ApplicationService.mutate`, `packages/database/src/sqlite.ts`) | SQLite file, transaction depth, audit rows, idempotency rows | lookup, write, audit, record, commit, rollback, publish, compensate | all rows of a command or none; one effect per key; events and answers only for what is durable | Transactions, AtomicCommands |
| Stock ledger (`packages/domain/src/stock.ts`, `inventory-repository.ts`) | `stock_events`, per-item balance derived by a replay | append, balance | on hand and allocated never negative, never over-allocated; every stored event takes effect; a key is stored once | StockEvents, StockLedger; used by Inventory, Reservations |
| Reservations and usage (`domain/projects.ts`, `project-repository.ts`, `project-adapter.ts`) | reservation rows with a status | create, release, use | a claim is covered by the allocation; ends once, with one release | Reservations |
| Project life cycle (`project-adapter.ts`) | status, removed_at | create, update, archive, restore, remove | no reservation outlives its project | Reservations (archive, restore, remove) |
| Inventory commands (`inventory-adapter.ts`) | items, evidence state, versions | create, update, bulk update, retire, stock event, count, commission | an item with reserved stock is kept; a count is what the ledger shows | Inventory; with keys and reservations in Reservations |
| Post-project reconciliation (`application/reconciliation.ts`, `reconciliation-adapter.ts`) | one draft per revision with a hashed basis | save draft, commit | a committed review was true when committed; what it says is what the stock shows; nothing is left active | Reservations |
| Artifact uploads (`artifact-adapter.ts`, `packages/artifacts`) | sessions, part files, blobs, rows | begin, append, finalize, abort, recover | rows and files agree, acknowledged bytes are kept | ArtifactUpload (append, finalise, expire) |
| Backup and restore (`backup.ts`) | a staging directory, the backup, the restored directory | create, verify, restore | rows and files of a copy belong together; nothing partial or damaged passes for whole | Backup |
| Guided inspection (`application/inspection.ts`, `inspection-adapter.ts`) | previews with their basis | derive the queue, preview, commit | a commit overwrites nothing that came after its preview | Inventory |
| BOM evaluation (`evaluateBomGapsFromData`), quantity conversion | none | a pure allocator | no unit of stock is promised twice | BomGaps; used by Inventory, ProjectSetup |
| Project setup (`previewProjectSetup`, `commitProjectSetup`, `project-setup-adapter.ts`) | previews with their basis | preview, commit | what was shown is what is made; an accepted preview can be committed | ProjectSetup |
| Inventory import (`packages/importers`) | dated purchase snapshots | plan, import | a snapshot is received once, however its file is edited | Inventory |
| Web application (`apps/web/src/api.ts`) | pending keys, one call per wish | create, upload, retry | nothing done twice; whoever retries is told in the end | WebClient |
| Catalog, categories, images, offers | versioned rows | single-row commands | optimistic version check | not modelled: one statement each |
| Assembly and maker workflows | plans, snapshots | read sources in parallel inside a turn | reads belong to the turn | Barrier with `FailFast = TRUE` |
| Workspace security and team; REST server; MCP adapter; demo store; migrations | | | | not modelled, see the end |

How they interact. A REST handler builds a request context `<actor, idempotency
key>` and calls `ApplicationService`. Every mutation goes through `mutate` (or
`mutateBulk`): `unitOfWork.run` takes a turn at the barrier and opens the outer
transaction; adapters called inside re-enter the barrier and open savepoints;
audit and idempotency rows are written in the same transaction; the event bus is
called after the commit. Consistent reads and backups take turns of the same
barrier. Close-out, project and stock commands meet in the stock ledger: all of
them move one figure per item, `allocated`, and all of them bump item versions
that a reconciliation draft's basis contains.

The hard behaviours: operations of several requests interleaved at every `await`
around one shared connection; detached tasks that keep a scope; parallel nested
calls; statements that fail half-way; a compensation that runs after its turn; a
crash between commit and answer; retries; keys reused by other clients; reviews
committed against a state that moved on; five commands that end a reservation;
a ledger ordered by a clock that may step back; two stores copied one after the
other; answers that are lost on their way to a page that will ask again.
`PROJECT.json` lists each at its line under `hazards`.

## Modules

**FifoTurns** is the abstract lock: operations arrive, get one turn each, in
order, and after the close request none arrives.

**Barrier** is `ExclusiveBarrier`. `queue`, `active`, `accepting` are the fields
of the class (`active` is the flag `pump` tests); `lease` is the set of scopes
whose `active` is true; `store[t]` is the AsyncLocalStorage scope of task `t`;
`pc` is where the task is inside `exclusive`. `StartNext` is the body of `pump`,
`Finish` its `finally`, which starts the next operation in the same synchronous
step. `FailFast` says whether a turn may end while nested calls made in it are
still running, which is what `Promise.all` does in `application/src/assembly.ts:43`.
Any operation but the close may spawn a detached task: the only close callback
(`runtime/src/index.ts:180-183`) is synchronous. `Shutdown` has no re-entrant branch,
since `close()` is not called inside a turn.
`TurnsInOrder` is FifoTurns under a refinement mapping: arrived = finished ++
running ++ queue.

**AtomicCommands** is what a command promises: all its rows at once, or none.

**Transactions** is `mutate` over the unit of work, one action per `await`:
`Arrive`, `Begin` (barrier turn and `BEGIN IMMEDIATE`), `Lookup`, `Write`,
`WriteProfile`, `Audit`, `Record`, `Commit`, `Publish`; `Fail` at any statement of
the turn is `rollbackScope`; `AskUndo`, `UndoProfile`, `UndoItem`, `UndoFails` are
the compensation of a compound create, which queues for turns of its own;
`Crash` at any moment. `disk` is the committed database, `work` what the
connection sees, `depth` is `transactionDepth`. The barrier appears as its
contract, a FIFO `queue` and an `owner`, which Barrier is checked to implement.
Adapters' own transactions are savepoints inside one step of the model. Three
kinds of command stand for all: a create, a compound create (item and product
profile, the only command with a compensation inside SQLite) and an update.
`CommandsAreAtomic` is AtomicCommands with `db <- disk`.

**StockEvents** has the arithmetic of one stock event and the balances that are
refused (`applyEvent`, `validateEvent`, the mapping of posted types to kinds).

**Reservations** has one action per audited command, which Transactions
justifies: it runs alone, and a command that fails leaves nothing. Its state is
the balance of each item, evidence, retirement, reservations, project life, the
drafts, the event keys stored in the ledger and the contexts answered before.
`Fresh` and `Reply` are `mutate`'s replay check and idempotency record; `Key` and
`Known` are the ledger's own deduplication, which is by key alone and not by
actor. `Touch` stands for every `bumpVersion` of an item: the draft of a revision
whose basis has the item is no longer current.

**ArtifactUpload** is one audited command over two stores. `sess`, `part`,
`records` and `blobs` are the files of `ArtifactStore`; `disk` and `work` are the
database as in Transactions; `receipt` is `finalizationReceipts`, in memory.
`Link` to `UnlinkPart` are the file operations of `finalizeUpload` in their order,
`Relink` to `Reopen` those of `rollbackFinalizationReceipt`. `FailInTurn` leads to
the compensation inside the turn, `FailAround` and `StartUndo` to the one that
`mutate` starts after the transaction has rolled back and its turn is over;
`Close` and `CloseFails` are the receipt's removal after the commit. `owner` is
the barrier's turn; who waits has no effect yet, so there is no queue and any
waiting operation may be next, which allows every order the FIFO barrier does.
`Overlap` says whether clients ask for one upload again before they have an
answer, `Retried` which requests are asked again after an error or a crash. A file
operation may fail before or after it has had its effect.

**StockLedger** adds to StockEvents what the database does with events: they are
replayed by time and, at equal times, in the order stored; a balance is derived
from all of them on each read, and an append is refused unless the whole ledger
replays with the new event in its place (`Accepts` is `appendStockEvent`).

**BomGaps** is the allocator `evaluateBomGapsFromData` as pure operators: which
items are candidates of which line (`Kind`), in what order lines and candidates
are visited, and the pools that the confirmed pass and the inspect pass take from
(`Take` is `allocate`). The filter and the stable sort by rank that it uses are in
**Ranking**, apart so that lemmas can speak of them. Packages are a factor per line and item. `Capacity` and
`ShownCapacity` differ in the inspect pass: what the code takes keeps the line's
own reservation out, although the comment at `service.ts:635-642` adds it back.

**Inventory** has one action per command over the real ledger: create, update and
bulk update, retire, stock events, counts and commissioning, import, reserve and
end a reservation, edit a line, preview and commit an inspection. Every command
picks its own wall-clock time from `Times`, so clocks may stand still or step
back. `Basis` and `StillCurrent` are what a preview saves and what a commit
compares. `updatedAt` and names are left out of the basis, so the model's
comparison is weaker than the code's and `NoCommandIsLost` is the harder to
satisfy. Inspections with an inconclusive outcome (they write nothing of the
stock) and questions about conversions are left out.

**ProjectSetup** is the preview of a project with its lines and reservations and
its commit. `FieldErrors` are the errors that refuse a commit, `PlannedGaps` the
gaps shown, evaluated on the projected inventory, `Affected` the items whose state
is part of the basis, `BasisHolds` the three comparisons of `commitProjectSetup`.
`CreateReservations` is the transaction of `commitPreview`. Whatever other clients
do to an item is one action, `CommandElsewhere`, which bumps its version, and
`ImportRow`, which does not. It assumes of those commands what Reservations
establishes, that reservations stay set aside; the posted release events that
break it (below) are left out. Expiry is an action because the wall clock can pass
the end of a preview's life at any time. A saved preview with errors keeps no
basis in the model: its commit is refused before the basis is read.

**Backup** extends ArtifactUpload: the copy is one turn of the barrier beside
running uploads. `staging`, `backup` and `restored` are directories with a
database, a manifest and the files; each copy is a step of its own that may fail
or be the last of the process; `Damage` is an external action, a stored copy that
loses or changes a file. `Verifies` is `verifyProductionBackup`. `cut` records the
live system at the start of the turn for the properties to refer to. Its
`settled` says that no failed finalisation was waiting for its compensation: a
backup taken then has a finalised session without rows, as the live system has.
The verification does not look into session or part files and neither does the
model. What a restore that failed leaves blocks its retry; that
`createProductionRuntime` opens any directory, with or without a manifest,
migrations and seeding after opening, and a second process on the live directory
are outside the model.

**WebClient** is the page's side of a command: the pending key, the attempt, the
answer or its loss, the refusal, the resumed upload. The server handles a request
in one step, which Transactions and ArtifactUpload justify. A wish is one thing a
user wants done once; the page keeps its keys in memory, so a reload abandons its
wishes, and one call at a time is made for a wish because the buttons are disabled
while it runs. An answer of 500 and above counts as lost, because the page treats
it so. Sessions that a server that crashed has left behind are left out.

`*_proofs` modules hold the theorems (Artifacts_proofs those of ArtifactUpload and
Backup), **DataLemmas** what they need to know of sums and of sequences, `MC*`
modules and `.cfg` files the instances.

What the models leave out: quantities are integers, and outside BomGaps share one unit (the code
has floats); a revision has one consumed
BOM line; `expectedVersion` checks only make a command fail, so they are not
guards anyone relies on; one outcome quantity per reservation in a close-out, and
no converted assets; `RestoreProject` also stands for `updateProject` to a status
other than archived. In Transactions a `ROLLBACK` that itself fails and the
read-only turns are left out. Reservations starts with items whose stock is
already counted, as `createItem` and a count leave it; how the ledger derives its
balances is in Inventory. In ArtifactUpload
sessions are begun already and bytes arrive in one piece; the hard link a project
gets to its files, build bindings and manifests are left out; the metadata that a
late compensation deletes goes in the step that reopens the session.

## Runs

| Run | Question | Bounds | Result |
|---|---|---|---|
| barrier | order, re-entrancy and progress when operations await their nested calls | 2 requests, the close request, 2 spawned tasks of 2 calls each | holds |
| barrier_failfast | are two requests ever inside the lease at once, if operations do not await their nested calls? | same | violated |
| transactions | atomicity, keys, answers, audit, termination with failures and a crash | compound create, its retry, a reuse of the key, an update; 2 ids, 1 key, 1 crash | holds |
| artifact_upload | do files and rows agree, are bytes and committed artifacts kept, is everyone answered? | an upload finalised under two keys, one retried, another upload of the same bytes; any operation may fail, 1 crash | holds |
| artifact_overlap | the same with overlapping requests for one upload | no crash | violated |
| backup | is a copy consistent, and can a partial or damaged one be served? | 1 upload, 2 requests without keys, 1 crash, 1 damage; 560,000 states | holds |
| reservations | all reservation properties with stock events, counts, life cycle and close-outs, requests without keys | 1 item, 1 project, 2 revisions, 2 reservations, quantities to 2; 391,534 states | holds |
| reservations_shared_key | is what was used taken from the stock, if two clients choose one key? | 1 reservation | violated |
| inventory | ledger order, imports, allocation and inspections under any clock | 1 item, 2 lines (one in packages of two, one doubtful), 2 reservations, 2 instants, 1 snapshot in two versions, 3 events, quantity 1 and the package; 41,168 states | holds |
| project_setup | is what a preview shows what its commit makes, and is an accepted preview possible? | 2 items (stock to 2 and 1, one whose fit may change), 2 lines, 1 preview, 3 plans; 222,230 states | holds |
| web_client | exactly once, one live session, and an answer in the end | a file of 2 bytes, a careful create, 3 faults; 117,316 states | holds |
| web_client_key_dropped | a create that forgets its key on any settled refusal | 1 create, 3 faults | violated |

Why the bounds are enough to meet the interesting cases. Barrier: two requests
and the closer give a queue of length two behind a running turn; one spawned task
nested in another and two calls each let a task outlive its scope, queue again,
and race a sibling. Transactions: the four commands are every pair that shares a
key, an id, or neither, and one crash reaches every step. ArtifactUpload: a second
upload of the same bytes is what deduplication needs, a second request for the
first is a rival, a retried request meets its own key, and one crash reaches every step of a finalisation or
compensation; a second crash finds nothing in memory that the first has left.
Reservations: two
reservations are the fewest that compete for stock, sit on two revisions or
survive one another; quantity 2 lets a claim, a use and a count be partial; a third
reservation or item would only repeat a pair. Inventory: one item under
two lines is what makes the passes compete; three events are a count, a move and
one dated between them; two instants are enough for a clock that stands still,
goes on or steps back. ProjectSetup: an item that both lines can use and one for
one of them give plans that share stock and plans that do not, plans that are
refused as a whole only, candidates that appear and disappear, and changes with
and without a version. Backup: the second request gives a finalisation to
compensate beside the copy. WebClient: lost answer, refusal and retry are three
faults, and so are a lost byte, an expiry and a lost answer. Bounds are `MaxCalls`, `MaxQty`,
`MaxEvents`, `Times`, `Retried`, `MaxFaults` and `MaxCrashes`; reservation ids are
used once in Reservations, which bounds the ledger.

`CHECK_DEADLOCK FALSE` is set because the system may stop: clients need not send
anything, tasks and reservation ids run out, and a closed runtime is quiet. That
nobody waits for ever is checked by the liveness properties instead. Symmetry is
used only in runs without liveness properties, over ids no definition singles out
(`AnyReservationOrRevision`, `AnyReservation`).

Fairness. Barrier assumes weak fairness of the end of a turn and of nested calls:
an operation's promise settles, and `pump`'s `finally` runs. Transactions assumes
it of the progress of each command: synchronous SQLite statements return or
throw, and the event loop runs continuations that are ready; weak fairness is
enough because the turn keeps its owner's next step enabled. ArtifactUpload
assumes the same of file operations, which return or fail; requests are finitely
many, so no one waits behind an endless stream. WebClient assumes that a user
retries until the page says done (an assumption about people: without it nothing
is owed to them), that the page handles an answer that has come, that a wait whose
answer is lost ends (the time-out of `binaryRequest`, the failure of `fetch`), and
that the server handles what reaches it; no fairness is assumed of the network,
and faults are finitely many. No request is
assumed to arrive elsewhere; Reservations, Inventory, ProjectSetup and Backup
assume no fairness.

Every property of a passing run has a mutant in `PROJECT.json`: a plausible bug
in one mapped definition under which TLC finds the property violated.

## Findings

- **Two requests inside the lease** (`barrier_failfast`). `inspectSources`
  reads in parallel with `Promise.all`; on the first rejection the turn ends and
  the other reads run beside the next request (`RequestsAreSerialised`; in TLC's trace
  the turn of `r1` ends with a nested read under way, and `r2` has its turn). The barrier counts nested calls in
  `scope.depth` and never waits for them. The README of the runtime promises that
  mutations and consistent reads are serialised.
- **One key, two clients, one lost consumption** (`reservations_shared_key`). The
  idempotency record is per actor and key, the stock event per key.
- **A late compensation removes a committed artifact** (`artifact_overlap`). The
  first request's transaction fails, a second one for the same upload commits
  before the compensation gets its turn, and the receipt is still held.
- **A create that forgets its key** (`web_client_key_dropped`). After a lost answer
  the retry is refused, `createBomLine` and eleven more commands of the page drop
  the pending key, and the next retry is a second command. `createInventoryItem`
  keeps the key, which is what the passing run `web_client` checks.

Others are visible in the models without a run of their own.

- The compensation of a failed compound create runs in a later turn too and
  deletes whatever item has the client-chosen id at version 1
  (`inventory-adapter.ts:151-165`), which may be another client's by then.
  `OnlyUndoneItemsGo` proves, for any ids, that this is the only way an item can go:
  a compensation whose item is at version 1 and whose transaction has failed.
- A posted `release` event lowers the allocation of an item below what its active
  reservations rely on (`mappers.ts:333-345`), after which they can be neither
  used nor ended. The passing run leaves such events out (`NoManualRelease`).
- A compensation that stops after removing the record (`artifacts/src/index.ts:929`)
  leaves a session that is finalised without one, which no operation takes up.
- `writeJsonExclusive` (`artifacts/src/index.ts:1677-1697`) can throw after it has
  linked the record; the receipt then says that none was created, and the rollback
  leaves it in listings. `NothingHalfDone` does not exclude it.
- With `FailFast` a detached read can still run when the database is closed.
- An import writes over a row that was retired or edited and bumps no version
  (`inventory-importer.ts:192`); the setup's commit notices only because it compares
  quantities, evidence and candidates besides versions, which is what the mutant
  of `CommittedAsShown` takes away.

## What is proved

All theorems hold for any sets and any bounds satisfying the named assumptions
of the modules (`BarrierAssumption`, `ReservationsAssumption`,
`TransactionsAssumption`, `UploadAssumption`, `BomAssumption`,
`InventoryAssumption`, `SetupAssumption`, `ClientAssumption`: functions have the
right domains, absent values are not elements, the BOM lists each line and each
item once, there are finitely many previews). A theorem that needs more says so
in its `ASSUME`: `~Overlap`, `~FailFast`, `OwnKeysOnly`, `PlainIdsApart`,
`NoManualRelease`, `AllCareful`. The passing runs meet each of these, and what goes
wrong without it is a finding above.

**Barrier_proofs.** `TypeCorrect`; `NestedExclusion`, `RequestsSerialised` and
`ClosingIsLast` when `FailFast` is false; `OneTurn` and `QueueIsExact` whatever it
is. `RequestsSerialised` states what `barrier_failfast` refutes. `ClosingIsLast` adds that
no task carries the scope of the close callback (`ScopesOfRequests`). `OneTurn`
(`OneTurnAndNoneForgotten`) and `ClosingIsLast` (`CloseRunsLast`) are stated by
theorems only. The inductive invariant adds to the
types that the queue holds exactly the waiting tasks, each once and the closer
last (`QueueExact`), and that a task in a
nested call still has calls to make. Without the exactness of the queue, starting
its head could give a turn to a task that already has one.
`ImplementsFifoTurns` is the safety half of `TurnsInOrder`: the initial states map
to initial states of FifoTurns, and every step is an arrival, a turn's end with
the next one's start, or a stutter. It adds that an operation whose turn is over
is never revived and that a running turn has a scope (`ServedInv`).

**Reservations_proofs.** `TypeCorrect` strengthens the types by the shape of a
draft's plan. `ReservationsEndOnce` is an action property. `ProjectsReleaseAll`,
`CommittedRevisionsStaySettled`, together `NothingStaysReserved`, and
`SettlementFollowsReview` are inductive over the types. `OneRelease` needs that a `reconcile-consume` key exists only for
settled reservations. `UsageTakesStock` has an assumption of its own,
`OwnKeysOnly` (no two clients use one key and bodies carry none), and the
invariant that every command key in the ledger belongs to a context that was
answered; `reservations_shared_key` shows that the assumption is needed.
`ReservedStockStaysHeld` compares, for every item, the allocation in the balance
with the sum of its active reservations; each command is shown to move both by
the same amount, or the allocation by more (`HeldInv`, which adds that the active
reservations are finitely many, so that sums exist). Its assumption is
`NoManualRelease`: a client that posts a `release` event lowers the allocation with
no reservation ended (see Findings), and the run leaves such
events out in the same way. `CurrentDraftsAreTrue` says that a draft whose basis
is still current lists the revision's active reservations as they are: whatever
makes, ends or moves one also touches its item.
`ReviewsCanBeSettled` says that a complete review with a current basis is refused
neither by the inventory nor by the ledger. Its invariant is that a plan stays
within what was reserved (`PlansWithin`) and that the items of a current draft are in
the inventory (`ItemsPresent`): a command that moves either touches a version of the
basis (`StepTouches`). What it frees is part of what is held for the item, by
`HeldInv` again, so it has the assumption `NoManualRelease` too.

**Transactions_proofs.** The invariant says, for each stage of the command in its
turn, what the connection sees as a function of what is on disk (`Stage`), that
outside turns it sees exactly the disk (`TurnInv`), and that keys on disk belong
to commands on disk (`KeyInv`). From it: `TypeCorrect`, `CleanConnection`,
`KeysAnswerOnce`. Under `PlainIdsApart` (plain and compound creates use different
ids) no compensation finds anything to remove, so each step of the runtime is one
abstract command or none: `ImplementsAtomicCommands`, and with it
`AnswersAreTrue` and `AuditTrailIsComplete` (by counting, with FiniteSetTheorems).
`OnlyUndoneItemsGo` (`ItemsGoOnlyUndone`, stated by the theorem only) does not assume
it: whatever ids the clients choose, no commit overwrites an item, and one that
disappears is a plain create at version 1, taken away by the compensation of a
compound create of the same id that did not commit. That an item with a profile is
never met follows from `RowsInv`: profiles on disk belong to audited commands.

**Artifacts_proofs.** Uploads first. Bytes an artifact or a client relies on lie in the part
file or in the blob. `SessionInv` says which, between turns, and `Stage` at each
step of a finalisation or compensation: a part file is removed only behind a
record, a record only in front of a part file, a blob only when no record needs
it. With it `ListedHasBytes` and `AcknowledgedIsKept` hold for every behaviour,
overlapping requests, retries and crashes included. `CommittedStays` has the
assumption `~Overlap`; its invariant adds that of the requests for one upload one
is under way (`AloneInv`), what the transaction has added (`Work`) and that
whoever may still have to compensate does so for an upload nobody has committed
(`Claim`). `artifact_overlap` shows that the assumption is needed.
`NothingLeftHalfDone` has `HalfInv`: while a finalisation or its compensation is
under way there is someone who will end it, and nothing is half done otherwise.

Then the backup: its half carries the invariants of the uploads over (every step of
BackupSpec is a step of ArtifactUpload or leaves its variables alone) and follows
the cut into the staging directory, the backup and the restored directory, one
copied part after the other (`CopyInv`): `BackupTypeCorrect`, `OnlyWholeVerifies`
and, with `~Overlap`, `BackupsAreConsistent`.

**Inventory_proofs.** The inductive invariant has three parts. `LedgerInv`: every
ledger is in order of time, short of its bound, has one receipt per snapshot, and
can be replayed from its start without a refusal. `RecordInv`: the types of rows,
alternatives, reservations and the preview. `TrackInv`: what has been touched since
a preview has been moved. Every command adds to a ledger nothing, one event in
the place its time gives it, or two (`Grown`). From it: `TypeCorrect`;
`BalancesAreExplained`, by following the replay one event at a time from the last
count on; `LatestEventsTakeEffect`; `SnapshotsAreReceivedOnce`, because every way to
append keeps the other receipts where they are (`InsertPlaces`) and an import looks
for its own first; `InspectionsLoseNothing`, because a commit needs its items and
lines not to be among the moved. `SupplyIsPromisedOnce` is about the allocator and
needs little of the state: finitely many active reservations and quantities that
are natural numbers. Its invariant is over the visits of one evaluation
(`PoolsOK`): what is left in each pool plus what each line has taken is what was
there, each `Take` keeps that, and no line meets a candidate twice in a pass.

**WebClient_proofs.** `ClientInv` relates four things that change apart: what the
page remembers of a wish, the requests still under way, the answer that has come,
and what the server keeps under each key. `Waiting` ties calls to requests,
`OwnKeys` gives each key to one wish, `Records` says what the idempotency records
of a wish's key are about, `OneSession` that the only session of a file that can
still be written is the one its pending key has begun, `Answers` that what the
page is told is so, and `OneKey` that a careful create has one key until it is
settled. From it: `TypesHold`, `LiveSessionIsOne` and `CarefulIsOnce` (files, and creates
whose form keeps its key, take effect at most once, whatever the other forms
do). `NothingIsDoneTwice` states `ExactlyOnce` with the assumption `AllCareful`, that
every form keeps its key while an attempt is in doubt; `web_client` checks an
instance that meets it, and `web_client_key_dropped` shows that the assumption is
needed.

**ProjectSetup_proofs.** `TypeOK` says among the types that what the projects have
reserved of an item is set aside. `SetupInv` adds that an active preview shows the
gaps of its plan in the inventory it was made from, without errors. `ReviewedCanBeCommitted` is about two checks that differ: the
preview sums the whole plan per item and per line, the commit makes one
reservation after the other, each against what those before it have left. By
induction on the steps of the plan, room for all of it is room for each
(`HasRoom`, `MadeAsPlanned`). `CommitsMakeWhatWasShown` compares two
evaluations, the preview's on a projected inventory without reservations and the
commit's on the real one with them; it rests on the lemmas that an evaluation
depends on the candidates only (`GapsAgree`) and that the candidates are part of
the basis.

**DataLemmas** proves what these need of `SumFunctionOnSet` (an element more or less,
an element changed, a comparison element by element, a finite union) and of
`FlattenSeq`, `Those` and `ByRank` (what they contain, and that nothing is repeated).
The library's sums are recursive functions that recur on a chosen element, and its
induction theorems take a predicate, which the provers cannot instantiate. The
lemmas use induction by sets instead: `NatSetInduction` and `SubsetInduction` speak of
the set of numbers, or of subsets, for which the claim holds.

Only model-checked: what is owed in the end, which is outside the prover.
These are `QueuedIsServed`, the fairness of FifoTurns in `TurnsInOrder`,
`EveryRequestIsAnswered` of Transactions and of ArtifactUpload, and
`EveryWishIsGranted`. Every other property of a passing run is stated by a theorem,
some under the assumptions named above.

## Plan

Done, in this order: Barrier and FifoTurns, on which everything else relies;
Reservations over StockEvents, the program's own core; Transactions and
AtomicCommands, why one command may be one action; ArtifactUpload; StockLedger,
BomGaps and Inventory; Backup; WebClient; ProjectSetup.

The theorems follow the same order; each module with a passing run has its own.

Left:

1. The append order of StockLedger under a clock that does not step back: a
   theorem that then every event takes effect, of which `LatestEventsTakeEffect` is
   the step.
2. ArtifactUpload: begin with the read of the project outside the turn that opens
   the session (`service.ts:2778`), abort and its compensation, the leftovers the
   sweeps reclaim, and an abstract specification (a file is in the project or not)
   that the detailed one is proved to implement.
3. Close-outs with several outcomes per reservation and converted assets.
4. `expectedVersion` as a guard of its own: an abstract specification of a versioned
   row for the commands that have nothing else (catalog, team, procurement).

## Not modelled

- **Catalog, categories, images and starter catalog; offers and procurement**: one
  versioned row per command, written by one statement inside `mutate`, whose
  ordering is Transactions'; the rest is validation and mapping.
- **Workspace security and team**: sessions, tokens, password hashing and access
  modes; one versioned row with the same optimistic check. Access control is not a
  subject of this project.
- **MCP adapter and the routes of the REST server**: they translate and call the
  commands modelled here and keep no state of their own between calls. The event
  stream is best effort; what matters of it, that nothing is published before the
  commit, is `ToldIsTrue`.
- **Demo memory store**: a second implementation for demonstrations, without
  transactions, files or restarts.
- **Views, caches, paging and sample mode of the web application**: what is shown
  is read again from the server after each command.
- **Database migrations**: statements run once before any request is accepted.
- **Parsing, validation and normalisation** of requests, snapshots and proposals:
  pure functions over one value that the unit tests enumerate; their results are
  the inputs of the actions.
- Parts of modelled components, named in `PROJECT.json`: abort, download and
  retirement of artifacts, build bindings and manifests; work items, printers and
  specifications in a project setup; converted assets in a close-out.
