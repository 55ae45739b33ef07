# A verification project for 0db

0db draws noise maps. A pipeline (TypeScript) fills arrow files with traffic and
other source data; a batch engine (Rust) computes noise tiles from them, keeps
them in packed stores, sums layers into a total, builds zoom pyramids and
publishes archives; a server (TypeScript) serves the published tiles and computes
single points on demand in a pool of worker threads; a frontend shows them. Paths
below are relative to the repository (`src/` here); `TP` stands for
`engine/tile-painter/src`.

## 1. Inventory

| Component | State | Operations | What is hard | What makes it correct |
|---|---|---|---|---|
| **Tile store** `TP/tile_store/{store,format,mod}.rs` | `z{N}.idx` (dense index), `z{N}.dat` (append-only log), flock of `z{N}.lock`; per handle the atomic `tail` and `allocated` | `create`, `open`, `put_blob`, `delete`, `sync_all`, `get_blob` | several processes, rayon threads inside one, readers without any lock, process death, host crash with partial writeback | no two tiles share bytes; the index entry is the commit point; a reader never decodes foreign bytes; sync_all is durable |
| **Locks and fences** `TP/tile_store/{locks,rebuild}.rs`, `TP/bin/tile_store_transaction.rs` | flocks (die with the process), `.rebuilding` and scoped-update markers (do not) | bounded lock acquisition; begin, adopt, finish, reject a marker | lock order over five programs, adoption by a retry with a new owner token | one cascade at a time, no deadlock, a marker stays exactly as long as its operation is incomplete |
| **Level producers**: pyramid `TP/pyramid.rs`, combine `TP/bin/build_heatmap_combine.rs`, transcode `TP/bin/tile_store_transcode.rs`, ingest `TP/bin/tile_store_ingest.rs`, scoped repaint `scripts/build-heatmap.sh` | the levels of each layer's store and of `total/` | write a level from the one above, sum layers, import a push, remove tiles | death between two levels, a push between two steps of a script | what is packed is a whole cascade, and the total includes every repaint |
| **Publishing** `TP/bin/tile_store_pack.rs`, `TP/tile_store/manifest.rs` | publish directory: archives, hidden staging files, `.pack-transaction-{build}` markers, `current.json` | stage, begin, rename without replacing, flip manifest, complete, recover | death after any rename or fsync, partial packs merging with old entries | readers see whole publishes only; a failed build can be retried |
| **Retention** `TP/bin/tile_store_gc.rs` | the same directory, `current.{env}.json`, `history/{env}/` | keep set, age gate, delete | promotions, rollbacks and packs between two sweeps | rollback targets and served archives stay |
| **Fsck** `TP/bin/tile_store_fsck.rs` | none (reads snapshots) | overlap, bounds and decode checks | takes its snapshot against live writers | accepts only consistent stores |
| **Arrow file lock** `pipeline/lib/provenance.ts` | `<arrow>.lock`, `<arrow>.lock.reap`, `<arrow>.tmp` | `acquireLock` with stale-lock recovery, `releaseLock`, `withArrowWrite` | a lock is created empty and gets its pid later; kills between any two calls; several waiters judging one stale lock | one writer at a time, no update lost, no lock blocks for ever |
| **Road enrichment** `pipeline/lib/{sources,roads-arrow,roads-taper-plan}.ts`, `pipeline/heal-road-*.ts`, `enrich-roads-*.ts` | per road row: dataset id, vehicles, graded speed | two heals, censuses with and without a retract arm, service tree, continuity fill, taper | each run meets what earlier runs stamped, with other feeds and rules | the best count wins and is never lost; heuristics invent no traffic; runs settle |
| **Chain runner** `pipeline/chain/{manifest,run,status,gate}.ts`, `pipeline/audit-enrichment-invariants.ts` | `plan.json`, `status.json`, the sealed gate baseline | launch, phases, skips, resume, completeness, gate, baseline update | kills, edits of the plan between a stop and its resume, dying auditor, enrichers that claim too much | the gate is fail-closed; `safeToSync` is true; a resume continues its own plan |
| **Noise worker pool** `server/src/engine/noise-onfly-supervisor.ts`, `server/src/workers/noise-onfly-worker.mjs` | queue, slots, timers, abort listeners, worker threads | `enqueue`, start next, worker message / error / exit, two timeouts, abort, recycle, `close` | late answers, terminations that take time, shutdown during all of it | every request settled once, never two threads per slot, no lost wakeup |
| **Manifest route** `server/src/routes/tiles-manifest.ts`, `runtime-readiness.ts` | a cache of the last validated manifest | `GET /api/tiles-manifest` | the pin moves while it is validated, requests overtake each other | an answer is as new as its request |
| **Heatmap overlay** `frontend/src/components/HeatmapOverlay.tsx`, `lib/tile-urls.ts`, `lib/tile-composite.ts` | generation store, React closures, composite, mirror of deck's cache | poll, toggle, move, stitch, apply, tile request / eviction | closures of three renders alive at once, slow stitches, evictions under way | the live generation, sources and range are painted; the mirror tells the truth |
| **Tile loader** `frontend/src/lib/progressive-tile-loader.ts`, `lib/compose-off-thread.ts` | one tile's grids, timers, preview, compose worker | early or whole resolve, refine, abort | fetches that fail or stall, three timers, a dying worker | the picture only gains and ends complete |
| Other enrichment, noise routes, rest of the frontend | - | - | no protocol of their own | not modelled |
| Noise computation, painters, region runner | none beyond a run | numeric kernels | none that are concurrent | not modelled: floating-point, out of TLC's reach |
| Source readers, extractors | caches of read-only data; files of a batch run | data conversion | re-running after a failure | not modelled: data transformation |

How they interact. The chain runner starts enrichers one by one; each takes the
lock of a hex file, reads it, changes the rows its dataset may claim and replaces
it. The runner's last step audits the tree, and its status tells a repaint whether
to start. Painters stage tiles that the ingest imports into the stores
under the ingest lock; combine, transcode and pyramid rewrite levels under
their locks and fences; pack takes every lock, rejects a root with any marker
and copies what it captured into archives; `current.json` names those; `worldctl`
(not in the repository) promotes `current.json` to an environment's pin and
archives it under `history/`; gc deletes what none of these names. The server
answers with the pin, the frontend polls it, keys its layers by the generation it
names and loads their tiles one by one. The worker pool shares nothing with all
this but the data.

The hazards (what can go wrong here that a test would hardly reach) are listed
line by line in `PROJECT.json`, each with the properties that would catch it.

## 2. Modules

| Module | Models | Role |
|---|---|---|
| `TileMap` | what users of one store rely on | abstract specification |
| `TileStore` | `store.rs`: one (layer, zoom) store | refines `TileMap` |
| `StoreTransactions` | locks, fences and the order of calls of all programs on one store root | composes `locks.rs`, `rebuild.rs` and the binaries |
| `TileCatalogue` | what readers of the publish directory rely on | abstract specification |
| `PackPublish` | pack, its recovery, gc, promotions on one publish directory | refines `TileCatalogue` |
| `IngestPush` | one push: preflight, import, tombstones | |
| `NoiseOnflySupervisor` | the pool and its threads | |
| `Sources` | the provenance registry and which dataset may replace which | used by the next three |
| `ArrowLock` | the lockfile and the read-modify-write of one arrow file | extends `Sources` |
| `RoadLayer` | each writer of `roads.arrow` as a function of the table | pure operators over `Sources` |
| `RoadChain` | runs of the road phases over one hex | composes `RoadLayer` |
| `ChainRunner` | runner, plan, completeness, gate, status | |
| `ManifestRoute` | the server's answer for the current pin | |
| `HeatmapOverlay` | a browser session that follows the pin | composes `ManifestRoute` |
| `TileLoader` | one tile loading | |
| `*Proofs` | | TLAPS proofs about the module of that name; `FrontendProofs` is about `ManifestRoute`, `HeatmapOverlay` and `TileLoader`, `PipelineProofs` about `ArrowLock` and `ChainRunner` |
| `MC*` | instances for TLC: jobs, networks, plans, symmetry | |

Operators whose comment begins with "Broken", "Mutant" or "MUTANT" are mutations of
the one that follows; no specification uses them. They show that each property
can fail.

### TileStore and TileMap

State. `index` and `log` are the page-cache contents of the two files, a byte
of the log being `Hole` or the put (tile, blob) that wrote it; `dataLen`,
`indexOk`, `dataOk` what `open` looks at; `lock` the flock; `tail`, `allocated`
the atomics of each handle; `thread` the put in progress of each writer thread;
`reader` a `get_blob` between its two reads. For the host crash, `onDisk` holds
for each tile the entries the disk may have, `dirty` and `durLen` which bytes
and which length may be lost. The blob in an entry is a ghost: the program
stores the offset and the length.

Actions. `AcquireLock`; `Open` with `RecoveredTail` (the larger of the file
length and the highest indexed end) or `OpenFails`; `create` in its four writes
`TruncateIndex`, `InitIndex`, `TruncateData`, `InitData`; `put_blob` as
`Reserve` (`checked_add` on the tail), `Grow` (the grow mutex and `fallocate`
in chunks), one `WriteByte` per byte, `Commit` (the index entry); `PutFails`
after any of them; `Delete`; `SyncData` and `SyncIndex` in the order of
`sync_all`; `ReadEntry` and `ReadBlob` without a lock; `ProcessCrash`;
`HostCrash`, which keeps an arbitrary part of what was not synced. A put of an
empty tile is a delete in the code (`put_cells*`), and here.

Abstractions: zstd and Brotli payloads are blobs of a given length; one
`pwrite` of an index entry (16 bytes in a page) is atomic; an offset is a small
number, `MaxOffset` is where `checked_add` fails.

`TileMap` has one action per operation: `Store` a value or nothing, `Clear`,
`Sync`, `HostCrash`. `ImplementsTileMap` maps a tile to the blob its entry
leads to, or to `Garbage` if a host crash punched holes into it.

### StoreTransactions

A job is a process of one of six kinds. Its program is written as the list of its steps
(`Combine`, `Transcode`, `Push`, `Repaint`, `Pyramid`, `Pack`), so that the order of locks
and fences can be compared with the source line by line. A step is one call, or goes through
several layers: `stage` writes the base of each layer of the job, `rebuild` runs
a fenced cascade for each layer in `Rebuilds`, `capture` takes every z-lock of what a pack
validates. `Turns` gives the layers of a step; where a job is (`at`) is the step, the turn, the
level and the call there, and `After` the next call, as `build_pyramid_levels` and
`build_one_level` have it. Which lock or fence a call is about follows from
that place (`LockAt`, `Fenced`).

The store's content is abstract: a level of a layer records, per area, which job
last wrote it, and the total records which content of each layer it was summed
from. `PutTiles` takes one area at a time, so that a process may die in the
middle of a level. A failure, an exhausted bounded wait and a death are one
action (`Abort`): flocks are released, markers remain, the operation is retried
from its start; a marker of another operation or scope stops it (`Refused`).

The repaint is the script: ingest in one process, which lets go of the ingest
lock, then fenced pyramids, the scoped combine, and the removal of the root
marker.

### PackPublish and TileCatalogue

Every job takes `.pack.lock` first, hence one job at a time (`job`), with a
program counter for each point where it may die. `archives` and `staged` map
file names to the number of the pack that wrote them, which stands for the
inode, size and digest in the manifest's proof. `PublishFails` covers the errors
between the first rename and the end of `write_manifest`, including its last
directory fsync after the rename of the manifest, which is why `Undo` may run
with the new manifest already visible. The keep set of the collector
(`Keep`) is head, pins and the newest `HistoryKeep` entries of each history.
`young` are the files whose mtime is within the minimum age; `AgePasses` ends
that for all. `TileCatalogue` has two actions, `Publish` some layers at once
and `Promote`.

### NoiseOnflySupervisor

A handler of the event loop is one action; `starting` is the queued
`startNextIfPossible` microtask and `closing`/`awaiting` the position of the
loop in `close()` at each `await`. Worker threads run beside it: messages to
one go to `inbox`, its messages and its `error` and `exit` events to `outbox`,
from where they are delivered in order but at any later time. `Recycle` holds a
slot until the old thread has ended. Numbers of ended threads whose
events are delivered are reused, so `MaxWorkers` bounds the threads that
exist, not those ever started; it is larger than the pool, so that a second
thread in a slot would show.

### IngestPush

A run (an attempt) has a staged tree (`run`), chosen by `Stage` as painters
would leave it: tiles for what is not silent, a numeric zoom directory only
where there is a tile (`groups`). `Declared` is what the script adds for silent
layers. `Start` takes the ingest lock and does all of `preflight_ingest`; it only
reads what the lock protects, so it is one step. Each group is then opened
(`OpenStore`), created in two steps (`CreateIndex`, `CreateData`) or skipped; its
tiles are written in any order (`WriteTile`), then what went silent is found and
removed tile by tile. `Die` may come anywhere. An attempt after it, with the same
or another rebuild, is the retry.

### Sources and ArrowLock

`ShouldOverwrite` is the arbitration all enrichment layers share: rank of the
provenance, then year, then id. `YearsAssumption` says that every entry but the
sentinel has a year. The registry fulfils it, and the order needs it: among three
entries of one rank, one of them without a year, each could replace the next in a
circle.

`ArrowLock` follows `acquireLock` call by call. `lock` and `reap` are the two
lockfiles: the inode (named by the writer that created it), its body, and whether
it has outlived the two seconds of grace an empty body gets (`AgeLock`, `AgeReap`).
`Create` and `WritePid` are two calls, since an `O_EXCL` open makes an empty file
first; the pid goes to the inode even if the name was unlinked in between. A
waiter reads (`Read`), judges (`Judge` with `HolderDead`), takes the reap mutex,
rechecks the body, unlinks, and lets go. `Load`, `OpenTmp`, `WriteTmp`, `Rename` are
the read-modify-write; each writer stamps one row with its dataset id. `Crash` may
come between any two calls of any writer, the creation of a lock and its pid included,
whoever else is waiting; only the number of kills is bounded. Writers outside `Patient` may
run into the five minutes (`GiveUp`). A pid is never reused, and a writer that has finished
lives on: both can only make others wait.

The lock does not exclude in all of this (section 4), and two history variables, which
guard nothing, tell the two ways in which it fails: `crowded` becomes true when two live
waiters are at once on their way to remove a lock without a pid, `robbed` when a waiter
unlinks the `.reap` of a live reaper. `LoneRecovery` says that neither has happened, and is
the condition of `RecoveryExcludes` and `RecoveryLosesNothing`; `MutualExclusion` and
`ReapMutexSuffices` state what the code's comments say without it, and are refuted.

### RoadLayer and RoadChain

A row is a dataset id, one number of vehicles and whether a graded speed stands on
it. `WriteRoadAadt` is the shared writer: retract, coverage of the class, country,
rank, in this order. The other operators are the writers themselves, from the table
they read to the table they leave: two heals, `Census` with or without its retract
arm, the service tree (components, roots, distances, accumulated trips), the
continuity fill (breadth first from each anchor, shares at junctions, disputes), the
taper (boundaries of 2 dB, ramps of one or two rows, on fresh facts). They
are recursive functions, so that the proofs may use them. Abstractions: vehicles are
small integers, divided as such, a geometric mean is an arithmetic one, a ramp is
linear, rows have one length, either flow or speed alone makes a boundary, the
share of each vehicle class and the cap per class are left out; trips of buildings
and the match of a feed to rows are inputs. A census that counts zero vehicles on a row stops
the chain; the writer skips such a row when it is outside the dataset's coverage or country,
the model stops there as well, so that a feed that goes through has no zero.

`RoadChain` runs the passes in the order of `chain/manifest.ts`, again and again.
Every write is one step, as it holds the file's lock; the fill and the taper read the
table before (`PlanFill`, `PlanTaper`), and what they write is planned on that. Feeds
and extraction rules change between runs (`Refresh`, `ChangeRules`), a census may
be run by hand between a plan and its write (`Stray`), and a feed that counts zero
vehicles stops the chain (`ChainStops`). The first run may find tables that older
code left. The read-only step that verifies the heals is left out.

### ChainRunner

`run` is the runner process with the rest of its plan, `plans` the `plan.json` files of
all runs so far, `status` the last `status.json`, `baseline` the sealed multiset
of violations per scope. A step is a name; its effect is what the environment
chooses: how much of a floored feed it loaded, what it prints about that (honest,
boasting, or nothing: `MarkersFor`), and one change of the tree's violations
(`Touch`). `Launch`, `Resume`, `SkipStep`, `StepDone`, `StepFails`, the three outcomes of the gate
step, `Finish`, `RunnerDies`, `UpdateGateBaseline` are the runner; `SpoilBaseline`,
`EditManifest`, `CacheChanges` are what happens around it. The auditor appears as
the outputs it may leave (`Reports`): it can die before, between and after its two
files, with an exit code that means something else. `behind`, `ran`, `short`, `hint` and `waived`
are history for the properties.

A resume takes any of the plan files, an old or a completed run's included, and any step of
the plan: the code compares year, scope, phase and digest (`ResumeAllowed`) and then slices at
`--from` (`SliceFrom`). No file that it reads says where a run stopped. That is told to the
operator: `hint` keeps the plan file and step of the resume command the log prints, or of the
step `status.json` leaves out after a kill or a refusal of the gate. `PassesInOrder`
therefore rests on an assumption about the operator, which the property names: the steps in
front of a `--from` that is not the told one are `waived`, in that run and in those that
continue it. What it shows of the code is that a resume as told, over any edits of
the manifest and changes of the caches, leaves nothing out, and that any other leaves out no
more than the operator has jumped over.

### ManifestRoute and HeatmapOverlay

A pin is the number of its promotion. A request stats it (`Asks`), is answered from the
cache or reads (`Reads`) and validates (`Validates`) while the pin may move;
`Expires` ends the ten seconds a validation lasts. Missing and refused manifests are left
out (the frontend keeps what it has).

The session polls with several requests that may overtake each other. A React closure
is a pair of generation and sources; the rendered one, the one `moveend` was
subscribed with and the one a frame waits with may differ. `RunEffects`, `MoveEnd`,
`Frame`, `StitchEnds` and `Reapply` are the callbacks; `Layers` is what `apply`
paints, with its signature check; `Swap` is `dropTileTails`. `held` is deck's own
cache, `loaded` and `inFlight` the overlay's mirror of it; `DeckRequests`,
`RequestResolves` and `DeckEvicts` interleave freely.

### TileLoader

The loader's awaits are the values of `pc`; a continuation that is ready runs before
the next event, which is the rule for microtasks, and every event is guarded by it.
Fetches land, come back empty, fail or hang (`LayerSettles`); the three timers fire
when they were armed; the compose worker answers in order or dies (`WorkerDies`),
and its pending requests are then composed on the main thread or fail (`Drain`, bounded
by `MaxSpoilt`); deck's cached ancestor comes and goes (`FallbackChanges`); a frame recomposes the tail
(`Recompose`); deck aborts the tile. An image is how many of the landed grids it shows. The
specification is `LoadSpec`, so that the proofs can extend this module and the overlay's
at once.

## 3. Runs

| Run | Instance | Shows |
|---|---|---|
| `Store` | 2 processes x 2 threads, 1 reader, 2 tiles, blobs of 1 and 2 bytes, offsets below 3, chunks of 2, process deaths and 1 host crash (760 000 states) | offsets are never shared between tiles, threads or processes; a reader is never misled; the entry is the commit point; `TileStore` implements `TileMap` |
| `Transactions` | 2 layers and the total, 2 areas, 1 level below the base; a repaint of both layers, one of another area, a pyramid, a push, a pack; 1 failure; fair (130 000 states) | a pack publishes whole cascades and summed repaints; the root marker stays as long as a repaint is incomplete; everything gets done, no lock cycle, no marker nobody can clear |
| `PackCrashes` | 2 layers, 2 builds, 1 environment, 4 packs, 3 promotions, history of 2 | whole publishes for readers, rollback targets, no orphan archives |
| `IngestRuns` | 2 layers, a box of one tile, one tile outside, one beyond the grid, 2 runs of three kinds | a run that ends well did exactly its rebuild; nothing else changes; a corrupt push writes nothing |
| `IngestSilent` | the same | **finding** |
| `Pool` | 2 slots, queue of 1, 3 requests, 3 threads; fair | the pool's invariants under every interleaving; requests settle, `close` returns |
| `ArrowWriters` | 3 writers of three ranks, 2 patient; 2 kills at any step; fair (200 000 states) | while recoveries are lone, one holder at a time and no lost update; without that condition, whatever was left behind is taken over |
| `ArrowOrphan` | the same, 1 kill | **finding** |
| `RoadRuns` | 6 rows (a road, a lane, a street), 3 censuses, 3 changes of feeds and rules, 1 census by hand, 2 legacy tables (37 000 states) | counts survive, ramps are the taper's, the fill stays below its counts and repeats itself; after one quiet run taper and tree find nothing to do, after two every count stands |
| `Chain` | two manifests of 3 and 4 steps, run whole or one phase at a time, resumed from any step with any matching plan file; one step that is floored and cached, one that the extraction's tail may have run, one fingerprint up to 2 times, 3 starts (340 000 states) | the gate is fail-closed, `safeToSync` of a fresh world run tells the truth, steps pass in the order of their plan but for what an operator waived |
| `TileLoads` | 3 layers, 1 failed compose; fair | nothing sharper is hidden, the picture only gains, it ends complete, one landed layer is enough to end |
| `Overlay` | 1 source, 1 range over-zoomed and none, 1 tile with 2 requests, 2 polls, 2 generations, 1 toggle or move; fair (750 000 states) | the live layer is painted, no ghost tile, an answer is not stale, the session catches up |

Why the bounds are enough. Two tiles and two blob lengths let blobs of different
size contend for one place; three offsets let two of them fit but not all, so
the tail reaches its limit, and a chunk of two bytes makes some puts grow and
others not. Two areas give every scope a part it does not touch. The
pyramid is the writer without a root lock that makes pack check the fences twice; the repaints
bring the programs of the ingest, of the cascades and of the scoped combine. Two
configurations beside the runs, in which TLC finds no error either, have more programs: `TxPublish` (one
layer, two levels, so that a cascade can stop in the middle, and a transcode; 830 000 states,
safety) and `TxRecovery` (two layers, a full combine and a transcode, which takes the
root locks in the order of pack; 97 000 states, `AllRecovered`). Four packs over two builds give a full pack, a partial
one, a retry and another after a promotion. A second ingest run suffices for a
retry, since only the store's state carries over. Three requests fill two slots
and the queue of one; while slots are recycled the queue overflows. Threads
are reused, so three exceed what two slots may own. Three writers are a holder, a
waiter that reaps and one that comes in between; two kills leave a lock and kill its
reaper. A fourth writer adds what `ArrowReapers` shows (section 4). The six rows have a junction, a through road with a boundary, an exit and
a street behind it, so that each writer has rows it claims, rows it must leave and
rows it disowns; three changes reach every feed twice. Three starts are a run, its
resume and a baseline update, or a run and two resumes over an edited manifest, as told or not.
One scope, since a narrower one only switches checks off; the theorems are for all. Three
layers make a first, a middle and a last. Two generations and two polls are the least
that can overtake; a longer session repeats them, and the overlay's safety is proved
for all.

`CHECK_DEADLOCK FALSE` stands where a run ends because its bounded supply does
(offsets, packs, attempts, requests, changes) or because the program may rest (an idle
pool, a store nobody has open, writers that are done, a tile that is loaded). `Transactions`,
`Chain` and `Overlay` check deadlock: in `Transactions` a state in which every job is done
stutters explicitly, so that any other stop is a lock cycle.

Every constant named `Max...` is a bound, except that `MaxOffset` also
stands for the code's end of the offset range. `MaxAborts`, `MaxHostCrashes`,
`MaxCrashes` and `MaxSpoilt` bound failures.

Fairness. In `Transactions` a running process takes its next step (weak fairness
of `Progress`), and a lock that is free again and again is at some time taken by
each job that retries for it (strong fairness of `AcquireLock`): bounded waits are
retried by whoever runs the tools. In `Pool` the event loop runs queued
microtasks, delivers events and fires armed timers, and a `terminate()` ends its
thread; these are weak. No worker has to answer and no client has to abort. In
`ArrowWriters` the operating system schedules every live process and time passes; no
writer is promised the lock before another, a patient one only keeps trying. In `TileLoads`
the browser runs what is ready, fires timers and frames, and its worker answers or is
reported dead; a fetch may hang for ever. In `Overlay` the interval and the visibility
event keep polling, a poll is answered, effects and frames run; stitches and tile
requests may hang. `RoadRuns` and `Chain` need none.

## 4. Findings and promises not kept

Finding (`IngestSilent`): **a layer that became wholly silent keeps its old tiles.** The
script declares it with a directory `z12`; the ingest takes numeric names only.
If every layer asked for is silent, the ingest fails ("no tiles").

Finding (`ArrowOrphan`, `MutualExclusion`; `provenance.ts:67-69`, `136-137`): **two waiters at
a lock that never got its pid can both come to hold it.** A writer is killed between creating
the lock and writing its pid. Two waiters find the body empty and past the grace. One reaps
the lock, lets go of `.reap` and creates the lock anew, its body still empty; the other, whose
read of the body is older, takes `.reap`, finds the same empty body and unlinks a lock that is
alive. The recheck compares bodies, and all empty bodies are alike.

In consequence two enrichers read, change and replace one file, and what one renames into place
between the other's read and rename is lost.

Seven more configurations (not the two wider ones of section 3) lie beside the runs. Each states one sentence of the code or its
comments that holds in ordinary conditions, in an instance in which TLC finds a
trace against it. They bound what the passing runs and the theorems say.

1. `StoreTwoCrashes` (`MCTileStore`, `CommittedBytes`; `tile_store/mod.rs:60`). A second
   host crash can put another tile's bytes behind an entry. The recovered tail is the
   larger of the file length and the highest indexed end. After a first crash an entry may
   point beyond the file. Deleting that tile removes what kept the tail up; a reopened store
   hands out its bytes again; a second crash that loses the unsynced delete brings the
   entry back. One crash is safe, which is proved.
2. `PackGrace` (`MCPackPublish`, `GraceAfterUnnamed`; `tile_store_gc.rs:28-31`). The
   collector compares the age of the archive's file with `--min-age-secs`, while its header
   justifies the period by the time since manifests stopped naming it. With a
   history window of two, promoting twice in a row takes an old archive out of
   the keep set minutes after it was served.
3. `IngestRetry` (`MCIngestPush`, `PushesRerunnable`; `tile_store/mod.rs:58`). A push that
   dies while it creates a store leaves a half pair of files that the preflight refuses, also
   of the push that would create it anew.
4. `ArrowReapers` (`MCArrowReapers`, `ReapMutexSuffices`; `provenance.ts:111-112`, `131`,
   `136-137`). The unlink race on `.reap` is not benign. The unlink of a `.reap` judged
   orphaned rests on a pid read before. If its reaper let go of it, got the lock and was killed
   in the meantime, and another waiter has created its own `.reap` to recover that lock, the
   unlink removes this one, and a second reaper comes in beside the first. Both have found the
   same dead pid; one unlinks the lock and creates a fresh one, the other unlinks that. No lock
   without a pid plays a part. It takes two kills and four writers, who here have one claim,
   so that symmetry keeps the search small.
5. `ChainResume` (`MCChainRunner`, `ExitCodeTells`; `chain/status.ts:66-70`). A fresh world
   run fails its completeness check at the gate. `--from` the gate step then audits the
   tree alone, exits 0, and its status is `safeToSync`; the short feed is as short as
   before. The status file's comment tells consumers to trust the exit code of a resume.
6. `TileSilent` (`MCTileLoader`, `FailedIsNotSilence`; `progressive-tile-loader.ts:172-176`).
   A tile of which every layer fails is rejected only if all failed before it resolved.
   If it resolved early with the preview, it is cleared to a transparent tile and cached.
7. `RoadTaper` (`MCRoadChain`, `TaperYields`; `enrichment-datasets.ts:186-188`,
   `enrich-roads-taper.ts:11-12`). The taper is declared a baseline "so every real enricher"
   (the registry names the continuity fill) "overwrites taper rows on its next run". The fill
   carries flow only into rows without a source or its own
   (`enrich-roads-continuity-fill.ts:241`). A row tapered before a census arrives beside it
   therefore stays a boundary for the fill, and each taper afterwards stamps it anew.

Observations without a promise to hold them against: the service tree returns before its
sweep when no row is eligible (`enrich-roads-service-tree.ts:769-771`), so the last
stamped rows of a hex keep their stamp; a fill whose anchor has gone is never retracted; an
over-zoomed session that rests after an inaudible composite stays on tiles.

## 5. Proofs

`TileStoreProofs` proves the safety of `TileStore` for any sets of processes,
threads, readers, tiles and blobs, any lengths and limits, under
`StoreAssumption` (lengths are positive, as `put_blob` refuses an empty blob; the
marks `None`, `Hole`, `Garbage` are no values) and, stated in each theorem, at most
one host crash: `StoreTwoCrashes` shows that with two `CommittedBytes` is false, and
the properties hang together.

The properties are not inductive: from a state in which a reader's entry lies
beyond the tail, the next put breaks it. `IInv` adds

- `LockInv`: whoever is past the flock holds it, and only an open handle has puts.
  Hence one tail counts.
- `TailInv`: that tail lies above the file's end, every indexed blob, every put in
  progress.
- `PrefixInv`: what a put has written so far is in the log.
- `NoCrashInv`: as long as no host crash has happened, every entry that the disk or
  a reader may still name is whole, which is what the crash then falls back on.
- `CreateInv`: during `create` nothing points into the log about to be truncated.

Each action preserves each conjunct it can disturb; theorems `TypeCorrect`,
`OffsetsNeverShared`, `EntryIsCommitPoint`, `LockFreeReads`, `PutsPreallocated`
and the action property `AllocationMonotone` follow.

`StoreIsTileMap` is the refinement: with at most one host crash, `TileStore` implements
`TileMap`. The mapping needs one more invariant, `DiskInv`: an entry is among those its
tile may have on disk, only open handles are in the middle of `sync_all`, and until a host
crash every tile that is being synced or is durable is `Safe` (its bytes lie within the durable
length and none is dirty). Then `Commit` and `Delete` map to `Store`, `TruncateIndex` to
`Clear`, `SyncIndex` to `Sync`, `HostCrash` to `HostCrash`, and every other step leaves what
the map shows alone: bytes are written where no entry points.

`StoreTransactionsProofs` is about any layers, areas, depth, set of jobs and number of crashes,
under `TransactionAssumption` (what the script and the binaries accept as arguments: a
push, a scoped repaint and a transcode name source layers, a scoped update is not of the
full scope). What a pack publishes depends on who crashed where before, so `IInv` says of every state:

- `Placed`: a job is at a call that its program has.
- `Held`: the place implies the locks (`Holds`): the master and ingest lock between their
  steps, the rebuild lock of a layer through its turn, the z-lock of a level while it is written,
  all z-locks of a pack from its capture to its release. So no two places imply one lock.
- `Owned`: in a cascade the layer's marker is the job's own, and in a scoped update the root's.
  Nobody else can adopt it meanwhile, because the lock that guards it is held.
- `Content`: what the tiles may be. A level agrees with the base unless a marker covers the
  area and its owner, if it still runs, has not written it yet (`Pending`), a scoped update
  is under way (`Updating`) or, in the first level, a Hub push is ahead. A repaint in a
  layer is in the total unless a marker says that it is to be combined. And what a running
  scoped update has staged, rolled up and summed stays so (`UpdateStands`), which is where the
  second taking of the ingest lock is needed.

A crash makes `Pending` true of all that the marker covers: that is why markers must outlive
their process, and why one may be adopted only by the same descriptor, whose owner
rewrites all it covers. A step that writes no tile and removes no marker keeps
`Content` (`Quiet`); `FinishContent`, `CreateContent` and `PutContent` are the others. When a pack has all z-locks and finds
no marker, `Content` says that the cascades are whole, and no writer can move a level while it
holds them: `PackPublishesWhole`, `PackPublishesSums`. `MarkerGoesWhenComplete` is the action
property `MarkerMeansIncomplete`: whoever removes the root's marker has itself done all it
stands for, also when it adopted it. `LevelsHaveOneWriter` and `StoreTyped` come from `Held` and
the types.

`IngestPushProofs` proves, for any number of layers and runs, any tiles and any
rebuilds asked for (`IngestAssumption`: boxes lie on the grid), that a corrupt push
writes nothing (`CorruptPushWritesNothing`), that a run that ends well leaves its
groups as staged (`RunsImport`) and that no run reaches beyond its rebuild
(`OnlyRebuiltChanges`). None of these is inductive: they speak of the end of a run or
of one write, while what makes them true was established by the preflight or by
earlier steps. `IInv` carries it along:

- `OneRunning`: the ingest lock admits one run past the preflight, so `left` and
  `todo` are its own.
- `Preflighted`: what the preflight found out stays true, as nobody changes
  a staged tree; hence every write is in the box.
- `WritersSound`: whoever wrote a tile had nothing corrupt staged.
- `StoresWhole`: a store without both of its files holds no tiles, so a skipped layer
  is silent.
- `ImportedSoFar`: finished groups are imported, and of the current one all but `todo`
  is written, or written and swept.

`PackPublishProofs` is about any layers, builds and environments, any history window and
number of packs and promotions, and a death at any step. `IInv` consists of the types,
`JobInv` (one job, where it stands), `KeptInv` (every archive of a manifest that a pin, the
head or the kept history names is valid), `AgeInv` (what a pack has made is young, hence
safe from a collector), `StagedInv` (only the pack at work has staged files), `MarkerInv` (what
a marker lists), `PhaseInv` (how far the renames are) and `CommitInv`. From it follow
`RollbackAlwaysFinds`, `NoUnmarkedOrphan` and, step by step, `DirectoryImplementsCatalogue`:
`PackPublish` refines `TileCatalogue`, with what the archives hold as the refinement mapping.

`PipelineProofs` is, for the arrow lock, about any number of writers, of which any number may
be killed at any step. `IInv` is not kept by every step, as the findings show: it is kept as
long as recoveries are lone (`LoneInv` is `LoneRecovery => IInv`; the history variables only go
from false to true). `LockInv` says that an owner's inode is the one behind the name; `ReapInv`
that live reapers exclude each other, and that what a waiter goes to remove is a dead writer's
lock, which a live successor's body cannot equal, or an orphan without a pid that this waiter
alone goes for; `RowInv` that the row a holder has read is the row on disk.
`LoneRecoveryKeepsTheLock` and `LoneRecoveryLosesNothing` follow.

`RoadChainProofs` begins with the arbitration: it is a strict total order on the registry
(`OutranksIsTotalOrder`), hence two datasets never take a row from each other in turn. What
the heuristics plan is then left open: `RampsAreTheTapers` and `CountsAreKept` follow from the
writer's gate alone (`WriteRow`), for any network, registry, feeds and runs, because no
heuristic ranks with a measurement. Two results say that runs come to rest:

- `TwoRunsSettle`. By `SettleInv`, the first undisturbed run makes each dataset `Fresh` when its
  census is reached (a well-formed feed, and no stale rows if it retracts); in the second run the
  census finds none but fresh rows above its own and serves the rest. One run is not enough: a
  row kept by a better dataset that retracts later in the run would be served to nobody.
- `OneRunQuiets`. By `QuietInv`, each heuristic of an undisturbed run plans on the table it
  writes, and from the service tree on the table is one the tree would not change. The taper
  plans on the table without its stamps, the fill on its own earlier rows as if they were
  empty, so both reproduce themselves. The recursive plans are used only through what tables
  they read, never through what they compute.

Both rest on `ChainAssumption` (the registry's entries: censuses are measured, heuristics are
not, the tree outranks the taper, the fill covers no class of local roads) and
`InputAssumption` (the extraction leaves rows without a source blank; feeds count naturals).

`PipelineProofs`, about the chain runner: `RunInv` (a run stands at a place of its plan, and all before it
is `behind` or waived), `HintInv` (so does what the operator is told of a stopped run), `GateInv` (nothing touches the tree
after the gate) give `GateIsFailClosed`, `SafeIsWhole` and `StepsPassInOrder` for any manifests,
feeds, fingerprints and number of starts, resumed from any step with any plan file. The proof of
the last rests on the equality of digests: the same digest means the same ordered steps, so a
place in the told plan is a place in the one resolved now.

`NoiseOnflySupervisorProofs` is about any number of slots, threads and requests and any length of
the queue. Three layers of invariants build on each other, since the accounting of timers
needs that of requests, and that one the ownership of threads:

- `PoolInv`: an active request is at its slot's worker (`SlotOK`) and active once
  (`ActiveOnce`); every thread, an ended one with undelivered events included, belongs to a slot
  or to `close()` (`ThreadOK`); the slots behind `close()` are empty (`CloseOK`); a waiting
  request waits once (`WaitingOK`). Hence `ThreadsOwned` (`OneThreadPerSlot`).
- `OwedInv`: between the inbox, the thread and the outbox at most one answer is under way,
  and only to the active request. Hence `OneRequestPerWorker`.
- `TimersInv`: the timers and listeners are those of requests that wait or are
  active. Hence `RequestsAccounted` (`NothingLeftBehind`) and `CloseLeavesNothing`.

`FrontendProofs`, about the session: `RouteInv` (the cache holds a manifest no older than the
identity it is kept under) gives `RouteIsNotStale`; `MirrorInv` (a current token is the held
instance's) gives `NoTileHaunts`; `RestInv` (between callbacks deck holds what `apply` would
paint now) gives `LayerIsCurrent`. About one tile, for any number of layers: `LoaderInv` says
that the loader only decides early over a layer that landed or a preview that hides nothing
(`HeldBack`), that the picture is the last compose (`ShowsComposed`), and that the requests in
the worker are awaited and ask for no fewer layers than those before them
(`RequestsInOrder`). The worker answers in order, hence `PreviewHidesNoAncestor` and
`LateLayersOnlyAdd`, whenever the worker dies.

Only model-checked:

- `AllRecovered` of `StoreTransactions`: liveness.
- `FillsBelowCounts`: an induction over the recursive spread of the fill.
- Every liveness property: fairness and `ENABLED` are out of the proof system's reach.

## 6. Not modelled, and what comes next

Not modelled, and why: numeric kernels and codecs (floating point; here a blob
or a job's number); argument parsing and reporting; tier packs and the PMTiles
encoding; the ingest's refusal of z13 pushes and of foreign source ids (one zoom
and one source id per layer); the matching of feeds to rows, the rail, industrial and
terrain enrichers (data transformation behind the same lock, arbitration and runner);
extractors and source readers (batch conversion, read-only caches); the manifest route's
refusals; projection, prefetch and tier tokens of the overlay, and the
wrapped copies of the world that share one key of its mirror; routes and presentation
(see `components` in `PROJECT.json`).

Next, in order:

1. Tier packs in `PackPublish`, and the tier tokens the overlay reads from them.
2. The rail layer as a second instance of the writer in `RoadLayer`.
3. Pure algorithms against a reference definition: the store's overlap check (fsck),
   the canonical lock order, the partition of tiles into areas by the pyramid.
