# NetCluster: verification project

NetCluster keeps millions of moving points clustered at every zoom level. It is a Rust
index (`crates/netcluster`), an HTTP server around it (`crates/netcluster-server`) and a
Node client (`clients/node`). This directory holds TLA+ models of the parts whose
correctness depends on more than one function at a time, the TLC runs that check them, and
proofs of the central invariants.

Paths below are relative to the repository (`README.md:n` is its README), `index/mod.rs` is
`crates/netcluster/src/index/mod.rs`, and server files are in
`crates/netcluster-server/src/`. `PROJECT.json` maps every definition to the lines it stands
for.

1. [The system](#1-the-system)
2. [Modules](#2-modules)
3. [Runs](#3-runs)
4. [Fairness](#4-fairness)
5. [Proofs](#5-proofs)
6. [Where code and documentation disagree](#6-where-code-and-documentation-disagree)
7. [Not modelled](#7-not-modelled)
8. [Plan](#8-plan)

## 1. The system

| Component | State | Operations | Hard behaviour | What makes it correct |
|---|---|---|---|---|
| Net hierarchy, `index/mod.rs` | level, position and parent of every device; per level, a grid of the centers | insert, remove, move (fast and slow path), re-homing of children in `unlink` | a removal is repaired by a loop that uses the very structure it repairs; small moves within the slack add up along a chain | centers of a level are separated, every device is covered from the level above, the grid lists exactly the centers, devices are within a bounded distance of the cluster that shows them |
| Aggregates, `index/mod.rs` | child lists sorted by level; count and sums of every subtree, in total and per filter cell | additions and subtractions along ancestor chains, `recell` | old chain before the parent changes, new chain after | lists sorted, sums equal to sums worked out afresh |
| Slots and cell table, `index/mod.rs`, `index/cells.rs` | slots of the devices, their free list (which runs through the array of the parents); the masses per filter cell: densely, or as pooled entries on a chain per device, with a directory and a free list | `alloc_slot`, `free_slot`, `set_self`, `walk`, `move_subtree`, `drop_slot` | an entry is released in the middle of a walk and taken again with what it held; chains are cut at either end; a slot is recycled while its number may still be somebody's parent | live and free slots never mix, both layouts read the same, no entry is on two lists or on none |
| Grid, `index/mod.rs`, `cellhash.rs` | open-addressed directory, bucket lists, one free list of entries | `grid_add`, `grid_del`, `grid_move`; probe, grow, back-shift | churn for ever without a rebuild; wrap-around; walks that stop early | every bucket exact, no entry leaks, no key lost |
| Queries, `index/mod.rs` | none (they take `&self`) | viewport, tile, `cluster_at`, expansion zoom, children, leaves, single device | answers by subtraction and pruning instead of enumeration | they agree with the enumeration |
| Checker, `index/verify.rs` | none | `verify` | works everything out afresh, consulting nothing the index caches | accepts every index calls can lead to, and no other |
| Search and listing, `collection.rs` | none | `select_clusters`, `list_devices` over all devices or an id list | a scan must draw what the aggregates draw | markers match the map, pages hold every match once |
| Filter schema, `schema.rs` | per dimension, the interned values | resolve a report, resolve a query, restore labels | a cell number is used long after, and under other locks than, it was resolved; restarts | a number means the same for ever |
| Collection, `collection.rs` | per device: last seen, version, position, cells, props; the index; TTL and limits | upsert, patch, remove, sweep, adopt limits, restore | duplicates, late and unordered batches; a two-phase sweep beside writers; limits that move at any time | records and index agree, nothing goes back, expiry drops those that fell silent and no other |
| Snapshots, `snapshot.rs`, `collection.rs`, `main.rs` | image on disk, temporary file, one gate per collection | periodic, forced and final snapshot, restore | crash between any two steps, write errors, a DELETE meanwhile | what was saved is found again, a drop stays dropped |
| Ingest, `routes.rs`, `geojson.rs` | none | compact reports or a FeatureCollection to ids, positions, values and properties | two formats and two older spellings must come to the same; checks must precede what cannot be undone | nothing malformed takes a slot of a dimension, nothing refused one past its first error |
| HTTP layer and admission, `routes.rs` | registry of collections; permits of the admission layer and of the blocking pool; a write gate per collection | create, drop, report, delete, query, force a snapshot; admit, wait, give up, answer | a handler is dropped when its client hangs up while the job it started runs on; waits that time out | one writer at a time, bounded memory, an answer means what it says, nobody waits in a circle |
| Process, `main.rs` | background tasks, shutdown sequence | restore all, snapshot all, sweep all, drain | jobs that outlive their connection | a clean stop loses nothing that was acknowledged |
| Node client requests, `clients/node/index.js` | one leg per replica | `_req` (timeout, retries), `_write` (fan-out), reads | a retry of what arrived; some replicas take a write and some do not | no replica misses a write unreported, replicas agree once they took the newest |
| Node client `Reporter`, `clients/node/index.js` | queue with one report per device, the send in flight | report, flush, timer, close | several flushes await one send; answers get lost; failed batches return next to newer reports | sends do not overlap, no newest position is lost, the queue drains |

The client posts batches to the HTTP layer of every replica; replicas do not speak to each
other. A request is admitted or refused at once, its body is parsed on the blocking pool, its
handler looks the collection up, waits for the write gate and for a worker, and moves both into a job
that survives the handler. The job checks properties, resolves filter values under the lock of
the interner, and hands the batch to the collection, which takes the lock of its state and updates records and
index together. The sweep takes only the lock of the state, a chunk at a time, snapshots read
under the lock of the state and then under that of the interner, and the registry has a lock
of its own. Every one of these gaps between two locks is a step boundary in the models. The
index itself is single-threaded: queries share it, mutations own it.

## 2. Modules

```
NetTree ─┬─ NetAggregates ── NetClusters ─┬─ NetQueries ── NetSelection
         │                                └─ NetVerify
         └─ TreeVerify ── (NetVerify)
Collection ─(INSTANCE)─ Registry      Exchange ─(INSTANCE)─ Admission ── Replicas
CellHash ─(INSTANCE)─ GridIndex       Intake ── Dimensions
CellTable       Snapshots       Reporter
```
`A ── B`: B extends A; NetVerify extends both NetClusters and TreeVerify. `MC*` modules give the
constants their values; MCNetQueries takes NetQueries, NetSelection and NetVerify together. Two modules are abstract
specifications: **Registry** of Collection and **Exchange** of Admission. `*Proofs` modules extend the module they
are named for: NetTreeProofs extends TreeVerify, ReplicasProofs has the lemmas about one server and those about the
client in one module, and NetAggregatesProofs builds on NetTreeProofs and extends NetVerify.

**NetTree** models the hierarchy. `live`, `pos`, `tz`, `par` are the fields `ids`, `qx`/`qy`,
`tz`, `par` of the index; `listed[z]` is the set of slots that can be reached through the grid
of level z. `Insert`, `MoveFast` are `insert_projected_cells` and the fast path of
`move_to_projected_cells`, each one step. `MoveSlow` and `RemoveDevice` begin a detach
(`BeginUnlink`), `RehomeChild` is one iteration of the loop of `unlink`, and `FinishMove`,
`FinishRemove` are what follows it. The loop is spread over steps so that properties speak of
every intermediate state; no other operation may start meanwhile (`job = Idle`), as `&mut self`
guarantees. Positions are integers, as they are in the code after projection; distances are
compared squared with the code's arrays `r2` and `hyst2`. `scan` in the code looks at the grid
cells around a point and drops candidates beyond a fixed buffer: `Within` is the set it is meant to find,
which is justified by GridIndex (buckets are exact) and by `Separation` (that many candidates
cannot be that close).

**NetAggregates** conjoins each action of NetTree with what the same operation does to child
lists and masses, so each of its steps is one of NetTree's or leaves NetTree's variables
alone (`AggRefile`). The mass of a subtree is a function from `All` and the filter cells to a
count and a sum of x; y is computed as x is and left out.

**NetClusters** defines how a device is represented at a level and what a cluster of it weighs, as the code reads it
off lists and sums, and the reads that need no walk: a cluster, the clusters a level further down, a device by itself. **NetQueries** has the
rest of the read side. Each answer is compared
with one derived from positions and parent edges alone. The world is a line, so that a viewport
is an interval. Centroids are exact fractions where the code divides. A tile (`get_tile`) is cut
with the integer arithmetic of the code, at every zoom up to one past the finest; only the scale
`PREC` is small.

**TreeVerify** and **NetVerify** are the checker of the repository, part by part: levels and edges,
separation of each pair of centers at one level, and the grid over the states of NetTree; child lists,
subtree sums, cells and the clusters of every level over those of NetAggregates. `VerifyAccepts` runs
it on every state between two operations.

**NetSelection** has the queries by text and by id list: `visit_matches`, the grouping by
representative, the paged listing. Which devices pass the text predicates is an arbitrary set, and
`SelectionMatchesMap` holds the answers against those of NetQueries.

**CellTable** is what the index keeps per device. `AllocSlot` and `FreeSlot` hand out slots, whose free list
runs through `par`. The masses per cell are driven in the dense and the sparse layout side by
side by the operations of the index, over a forest in which a device may come under any other outside
its subtree, so that nothing is taken from NetTree about which parent it gets. `Entry`, `Release`, `Bump`, `DropSlot`,
`SetSelf`, `Walk` and `MoveSubtree` are the functions of the same names, on a table that is one value. `Drop`, `Put`,
`BumpAll` and `BumpChain` are the bodies of their loops, `Follow` every walk along links, at most as long as there are nodes.
A freed entry keeps its count and sum, as in the code; its cell and back link, which are overwritten before
they are read, are cleared so that histories meet in one state. The directory is a function here; it
is a CellHash in the code, which GridIndex exercises.

**GridIndex** and **CellHash** store the sets `listed`: a directory with linear probing from
`<<level, cell>>` to the head of a list, entries from one free list. GridIndex has the loops over
levels (`GridAdd`, `GridDel`, `GridMove`); CellHash has `Put`, `Set`, `Grow`, `Delete`, the
back-shift as a scan over positions.

**Collection** models one collection and the request that holds its write gate. `req.pc` runs
through the stages of the `positions` handler: `Submit` (property check, before any lock), `BeginUpsert`
(the check again, the clock, the lock), one `StaleReport` or `AcceptReport` per report,
`BeginPatch`, one `RefusePatch` or `AcceptPatch` per patch, `Reply`. `SweepScan` and
`SweepChunk` are the two phases of `sweep`, `Adopt` the lock-free change of limits, `Remove` the
DELETE of a device. (`upsert` reads the clock just before it waits for the lock; the model
takes both in one step.) The index is what it must agree with, a position and a set of cells per
device; that it really keeps those is NetTree's and NetAggregates' business. The rebuild of the
index in `upsert` is modelled together with the comparison that triggers it. While a section is open
under the lock the sweep cannot run (`Locked`); the clock and `Adopt` can. That one batch at a
time is under way is `OneWriter` of Admission.

**Registry** is what a collection promises, without batches, locks or an index: a register per device,
changed only by an update that supersedes what it holds, and emptied only by a DELETE or when it was
suspected of silence and still is silent. Collection implements it (`ImplementsRegistry`): every step, the ones in
the middle of a batch included, is one step of Registry or a stutter.

**Intake** reads an item of either wire format: which id applies (a Feature has up to three places for
one), where the values are, what makes an item ill-formed. A field is present or absent, a text that
cannot be parsed is a flag, and so is a dimension the collection does not have (`extra`): nothing
comes of it, but a compact report that names one names something, and its device is re-filed under
the defaults where a bare report leaves it (`IsBare`).

**Dimensions**, on top of it, models the schema: strides, bases and cells are computed as in `Schema::new` and
`emit`, values are interned as in `Interning::get`. Steps are split where the locks are:
`ResolveReport` (interner) and `Apply` (state), `Ask` and `Answer`, `CopyRecords` and
`WriteSnapshot`, with `Restart` at any moment. `held`, what a device's last report said, exists
in the model only, to compare cells with.

**Snapshots** models one name, the objects it denotes one after the other, and its two files.
A task that takes a snapshot goes through the steps of `snapshot_to` and `snapshot::write`: take
the gate and copy the records, read the labels, create the temporary file, write two halves,
sync, rename. `file` is what the processes see under the name and `kept` what the directory says on the platter: the
code syncs the file and not the directory, so a rename or a removal lasts through a loss of power only once
the operating system wrote the directory back (`SyncDir`). `Crash(power)` ends the process at any step, and
with `power` the machine too: `kept`, if it was synced, is all there is. A request connects, sends its body for as long as it likes
(`Connect`, `BeginBatch`), and becomes a job (`ApplyBatch`) that is acknowledged unless its client hung up
(`HangUp`): then nobody waits for it. `Signal`, `Drained` and the task `Main` are the shutdown
sequence of `main`; `Drained` waits for connections, one that is still sending its body included, and not for jobs. `Sweep` changes the collection at any time,
shutdown included. A file verifies when both halves come from one image (the checksum).

**Admission** is the life of a writing request inside a server: `stage[s][q]` is how far it got. Permits
are not counters but follow from the stages (`Working`, `Gated`, `Admitted`), because in the code a permit is a
value that lives exactly as long as the future or the closure it was moved into. `Drop` is the drop of
a handler, whose job goes on "alone". `GiveUp` is a wait of one second that ends, possible whenever what
it waits for is not to be had. A batch is refused before any of it is applied (`RefuseBatch`), or by `patch` after `upsert` took the
reports (`RefusePatches`, `routes.rs:1125-1130`).

**Exchange** is what a server promises about one request: it takes effect at most once; it is acknowledged only when the whole of
it did; answered "overloaded" only when nothing of it did or ever will; refused only when not all of it did or will, which leaves
room for a part. Each request at each server implements it (`ImplementsExchange`), through overload, hang-ups and crashes.

**Replicas** adds the client: `_write` starts a leg per url, `_req` times out, pauses and tries again with the
same bytes, and the call settles when every leg has. Servers apply reports by version, lose what a
snapshot did not save when they crash, apply reports of a batch whose patches they refuse (`Take`), and may receive a request long after its leg gave up on it.

**Reporter** models the client's `Reporter` and a server that keeps the newest version of each device.
An action is what runs between two awaits. Flushes that await one send resume one by one when
it settles, before any other task runs (`ready`): promise reactions are microtasks, and the
application is taken to call from tasks of its own. A request arrives in full, in part, late,
repeatedly or never, whatever answer the client gets.

## 3. Runs

Counts are distinct states. All passing runs are exhaustive within their bounds.

| Run | Instance | States | What it shows |
|---|---|---|---|
| *net_tree* | `MCNetTree`, `NetTree.cfg` | 1,848,853 | every history of four devices over three levels, each iteration of a repair observed: nets separated and covering, the grid lists the centers, devices near the cluster that shows them (`RadiusBound`) |
| *net_queries* | `MCNetQueries`, `NetQueries.cfg` | 552,881 | child lists sorted and masses exact at every step of a repair; between operations every query agrees with its enumeration, searches and listings with the map, and `verify` accepts |
| *viewport_slack* | `MCNetQueries`, `ViewportSlack.cfg` | violation | a cluster drawn inside the viewport is pruned |
| *cell_table* | `MCCellTable`, `CellTable.cfg` | 347,647 (symmetry) | recycled slots never mix with live ones, the sparse layout reads as the dense one, its entries are linked both ways, found and recycled without a leak |
| *collection* | `MCCollection`, `Collection.cfg` | 450,492 | records and index agree and the rebuild is never needed; a collection is a Registry (nothing goes back, nothing but silence expires); silent devices leave |
| *snapshots* | `Snapshots`, `Snapshots.cfg` | 1,315,294 | with crashes, losses of power, write errors, restarts and clients that stall or go away: until a DELETE the file verifies and nothing reported written is lost but what a loss of power takes with a directory that was not written back; exports never go back; what was acknowledged is in the final snapshot; a shutdown ends unless a client stalls in its body |
| *snapshots_drop* | `Snapshots`, `SnapshotsDrop.cfg` | violation | a dropped collection is restored |
| *replicated_writes* | `MCReplicas`, `Replicas.cfg` | 401,160 | one writer at a time, bodies in memory bounded, every request an Exchange ("overloaded" means not applied, a refusal not applied whole); no replica misses a write unreported, replicas hold the newest they took; calls settle and servers come to rest |
| *grid_index* | `MCGridIndex`, `GridIndex.cfg` | 25,386 (symmetry) | every bucket lists what it must and nothing else, entries conserved, no key lost while the directory wraps, grows and shifts back |
| *reporter* | `MCReporter`, `Reporter.cfg` | 1,152,554 | sends never overlap, newest positions are kept, props arrive unless a send fails, the queue drains |
| *reporter_props* | `MCReporter`, `ReporterProps.cfg` | violation | props of a failed batch are dropped |
| *dimensions* | `MCDimensions`, `Dimensions.cfg` | 390,004 | no malformed item takes a slot and a refused one none past its first error; a filter finds exactly the devices that hold what it names, also across restarts and for requests under way |

The bounds, and why they are enough:

- *net_tree*: radii 16, 8, 4 with slack 1/4 and seven positions at 4/5, 8/9/10, 14..20 and 26 from one
  another: below, within the slack of, and beyond every radius. Four devices suffice for a detached
  device with two children of different levels beside a third center that adopts one of them.
  `RadiusBound` needs a chain that was stretched edge by edge, which takes three devices.
- *net_queries*: four devices on a line over two levels of radius 16 and 8, at three positions 12 and 9
  apart, and one filter cell. Two devices may share a position; a re-homed child finds a parent
  that has a parent of its own, so the old and the new ancestor chain differ and are longer than one.
  15 viewports whose borders are at device positions and between them, and every tile of zooms 0 to 2 with its margin.
  Pages of one and two.
- *cell_table*: three devices, so that a child is re-homed under another; three cells held all at once
  or the second alone, so that chains of three lose the first, the middle and the last entry; five
  operations (`MaxOps`), so that an entry or a slot given back by one device is taken by the next. Deadlock is
  not checked: the operations are bounded.
- *viewport_slack*: four levels, which is what the slack takes to add up past the ball.
- *grid_index*: three slots, two levels, a hash that sends most keys to the last two positions of a
  directory of four, so that probes wrap and the directory grows. `MaxListed` (four listings at a
  time) keeps the directory at eight positions.
- *collection*: one device (devices share nothing in a collection but locks), a report without, with
  an old and with a new version, a patch without and with one, properties that pass the limit before
  and not after it is lowered, all batches of one and two, TTL 0, 1 and 2, `MaxTime` 4: enough for a device to report,
  fall silent for longer than every TTL and be scanned, report and be swept.
- *dimensions*: two slots for three client names, so that one is refused; a declared dimension given by name
  and by number. Four requests: reports in the compact format of which the first takes a slot and is then refused; a
  batch with half a position, with oversized properties, with a value that is refused before another is read, with a dimension the
  collection does not have, and a patch; two feature collections, with the id in each
  place it may be in and in none. Each is posted whole and `partial`.
- *snapshots*: two writers, two objects of the name (`MaxInc`), and objects in memory that hold two changes between them
  (`MaxChange`): one before and one after an export, so that two snapshots differ and the older is the one on the platter. One request at a time, whose body may arrive
  at any time or never. *snapshots_drop* needs one change. Deadlock is not
  checked: when both objects are used up the bounded system stops.
- *replicated_writes*: one retry. Server *a* admits two requests and has one worker, so that requests wait
  for workers with the gate in hand; *b* admits one and has two workers, so that a hang-up lets the next request in beside a
  running job. Six plans: one call to both servers; two calls to one, where what is left of the first meets
  the second, with reports in and against the order of their versions, a removal before and after a report,
  a batch the server refuses, and a crash with a snapshot. Replicas share no state and meet only where a call settles,
  so two calls to two servers would multiply states without a new meeting. Deadlock is not checked: the plan ends.
- *reporter* and *reporter_props*: two devices; three reports of one in any order of versions, the older two with props, so that
  props may come late and be overtaken, or wait while a plain position is coalesced with them; two of the other, of which the
  first has props the server refuses; two waiting flushes (`MaxWaiters`) next to `close`. Deadlock is
  not checked: after `close` the program ends.

Some properties are restricted. `FileIntactUndropped`, `SavedSurvives` and `AnsweredIsSaved` hold until a
DELETE is handled, `SavedSurvives` after a loss of power only for what the directory was written back for, and `SettlesUnfailed` until a send fails, and not for
devices whose props came late; see section 6. `SelectionMatchesMap` takes lists of
distinct ids.

Every property has a mutant in `PROJECT.json`: a plausible bug in the code the property is
about, defined next to the original, which the run of that property finds.

## 4. Fairness

Four runs check liveness.

`Collection!FairSpec`: weak fairness of `Serving`, because a request that holds the gate runs to
its end on a blocking thread; strong fairness of `Sweeping`, because the sweep task comes round
for ever and its chunks compete for the lock with requests that keep opening sections. The request runs
on a blocking thread that owns the write guard and outlives a client that disconnects
(`routes.rs:1031-1035`), which justifies the former. The latter is an assumption on
the platform: the state is behind a `std::sync::RwLock`, whose sections are all finite but
which promises no order; the model takes it that a writer that waits is not passed over for ever.
`GhostsLeave` needs nothing of the clock: a device that is silent is so at the
end of time too.

`Reporter!FairSpec`: weak fairness of `Tick` (the interval timer) and `Resume` (microtasks), and of
an outcome of each send (requests time out). `SF(Succeed)` is an assumption about the network, not
the code: a send that is tried again and again gets through. `Drains` excludes the case the code
does not promise: without `partial` a refused report fails its batch for ever.

`Snapshots!FairSpec`: weak fairness of `ApplyBatch`, of `Drained` and of each task that takes a snapshot (jobs of the
blocking pool run to their end), strong fairness of `Export(Main)`: the final snapshot competes with the timer's for
the gate, and the timer sleeps between two snapshots, so it cannot win for ever. Nothing is assumed of the directory being
written back, of writes succeeding, or of clients: `Drained` is enabled only when no handler is left, and a client that
stalls in the middle of its body without hanging up keeps it from that for ever, since the graceful shutdown of `main.rs:294-296` waits
for every connection and reading a body has no timeout. `ShutdownEnds` therefore says that a shutdown that finds no body half
read ends: new connections are not accepted any more, jobs, gates and failing writes do not keep it.

`Replicas!FairSpec`: weak fairness of the client's steps (timers fire, promises settle) and of what each server does by
itself. Nothing is assumed of crashes, of clients that hang up, of waits that run out, or of answers getting through; so
`WritesEnd` says that permits, gate and workers are never waited for in a circle, not that a timeout breaks one.

## 5. Proofs

`tlapm` checks eight proof modules; nothing is assumed but the named assumptions on constants.

**NetTreeProofs**, for every set of devices and positions, any number of levels and any radii with a
slack: `SpecIInv`, `Spec => []IInv`, where

    IInv == TypeOK /\ JobOK /\ GridListsCenters /\ Separation /\ Covering

and from it each of the five parts. No part is inductive alone. Covering of a re-homed child
holds because the grid lists the covering center, which is a live device at the right level
(GridListsCenters) and not the one being detached (JobOK). Separation of a re-homed child is
the delicate step: `link` sweeps only levels coarser than the child's old one, so that it is
separated at finer ones must come from before, and does: it was separated there when it was listed, and
`GridListsCenters` and `Separation` hold after each iteration of the loop, not only at its end. The lemma `PlacementIsSeparated` states what a sweep gives for the levels it visits,
`PlacementIsCovered` what it gives for the parent it finds; `RehomeChildIInv` combines them with what is
known of the levels the sweep skips. There is one lemma per action. Of distance this proof uses
only that it is a symmetric integer, so it holds for the fixed-point arithmetic of the code as
long as that does not overflow.

`RadiusBoundHolds`, `Spec => []RadiusBound`: between calls each device is within twice the radius (with the
slack) of the center that represents it, however long the chain between them. Each edge is short by `Covering`; the climb from a device
is followed center by center (`Climbed`), with twice the bound of the last edge as what is left to go. That needs
no square roots: by the parallelogram law the square of a sum of two distances is at most twice the sum of their squares, and each
level has a quarter of the squared bound of the one above (`HalvingAssumption`, which is how `NetCluster::new` fills `hyst2`).

The module also proves the checker right about this part. `VerifierExact`: with radii that do not grow
with the level, `VerifyTree` holds exactly when `Covering`, `Separation` and `GridListsCenters` do, so a
pair of centers need be compared at one level only and no broken hierarchy passes. `VerifyPasses`:
`Spec => [](job = Idle => VerifyTree)`.

**NetAggregatesProofs**, for every set of devices and filter cells, any levels, radii and coordinates:
`AggregatesStayExact`, `AggSpec => []AggregatesExact`. Its invariant takes that of the hierarchy over
(`AggregatesFollowNet`: every step is one of NetTree's or leaves NetTree alone) and adds

    Rooted   parents are devices of coarser levels, that of the device being detached included
    Listed   the list of every device holds its children, that of the device being detached included
    Counted  each placed device carries the mass of the placed devices under it

`Rooted` makes the parents a forest: a chain of ancestors falls in levels, so it ends within as many steps as
there are levels, and of the devices that violate a claim about chains there is one on the lowest level, which is how the
lemmas about chains are proved. The steps change sums in five ways only, each a lemma about any forest: a
device joins, leaves, counts for something else, takes its subtree elsewhere, or goes when nothing depends on it.
`MassMoves` is the step a repair consists of. The parent the child leaves has left the sums already, so what the subtree weighs
is taken off what is above that parent, and added above the new one; where both chains meet the two cancel,
which needs that the new parent is not in the subtree (its level is below the one the child had, and levels rise inside the
subtree), and that chains inside the subtree stay (`ChainSplits`). Sums are the folds of the community modules, which are
defined by CHOOSE of a recursive function: `AddsExists` shows that there is such a function for every finite set, `SumStep`
that the order of adding does not matter. `AddKeepsOrder` and `DelKeepsOrder` are the child lists.

On the same invariant rest the answers about clusters. `ClustersAreExact` (`ClusterIsItsMembers`): the subtrees of
siblings are apart (`SiblingsApart`), a device is represented at a level by the first center above it (`RepIs`), so the members of a
cluster are its subtree less the subtrees of the children that are centers there (`MembersAre`), and a sum over the children in list order is one over the
union of their subtrees (`ListWeighs`); that the code stops at the first finer child is right because lists are sorted (`ShownIs`).
`DrillDownIsExact` (`DrillDownPartitions`): nothing splits before the expansion zoom, and there the members are those of the center and of
the children shown. `SingleIsExact` (`SingleIsTheMember`): the search enters the one child whose subtree has a device of the cell,
and each call is a level finer, so it ends at that device.

`VerifierAlwaysAccepts`, `AggSpec => []VerifyAccepts`: no sequence of calls leads to an index that the repository's own checker
refuses. That is `VerifyPasses` for the hierarchy; for lists, sums, cells and clusters it is shown that what the
checker works out afresh is what is stored: `SubtreeSumsExact` goes down the levels and finds that `subtree_sums` returns the subtree and its
mass, and a slot without a device holds nothing (`FreeIsEmpty`, the only addition to the invariant).

**CellTableProofs**, for every set of ids, cells and operations: `SlotsStaySound`, `Spec => []SlotsSound`. The invariant says that
some sequence without repetitions lists exactly the slots that are not live, each linked to the next through `par`
(`ListsFree`), that ids and slots name each other, and that the children of a detached device are those the repair
still has to move (`Detached`), without which its slot would be freed while it is a parent. The free list of the model is
read by a recursive function; the proof shows that following the links gives the sequence.

`EntriesStayAccounted`, `Spec => []EntriesAccounted`: no entry of the sparse layout is leaked, on two chains, or missing from the
directory, between the steps of a repair too, and there are never more entries than devices times cells. What a chain contains is a
statement about walks, which no single step keeps; what each step does keep is `TInv`, a statement about single entries. Each
has one owner, a device or the free list; the entry it links to has the same owner and names it as the one before; and a depth
grows along the links, so that a chain cannot close on itself (`Chained`). The directory has exactly the entries with a device
(`Directed`), and their back links are right (`Backed`). `Entry`, `Release` and each step of `Drop` take an entry
off one chain and put it at the front of another, for which one lemma (`Rechained`) is enough; `FollowLists` then says that the walk from
a head meets the entries of its owner, once and in order. In the middle of `drop_slot` the head of the slot names an
entry that is free already, so its steps keep the table sound but for that head (`Beheaded`). `Roomy`, the bound on the pool, holds
because the pool grows only when no entry is free, and entries in use differ in slot or cell. It takes `Cell` to be finite, as it is in the code
(`MAX_CELLS`, `schema.rs:180-196`). Sums and counts need not be bounded, or even agree with the masses, for any of this.

**CollectionProofs**, for every set of devices, items, batches, clock bound and limits: `IndexAgrees`,
`Spec => []IndexMatchesRecords`, and `ServesRegistry`, `Spec => ImplementsRegistry`. `Agree` is index against records; `Stamped` says that the
time an open section took is no later than the clock and no earlier than any device was seen, so that "seen" never goes back;
`Behind` that the cutoff of a sweep lies some TTL before the clock, so that a device which reported since it was
scanned is no victim. The refinement maps each device to its register (`Promised`): `BeginUpsert`, `Reply` and the like stutter,
an accepted report is an `Update`, a chunk of the sweep empties registers that were suspected and still are silent.

**SnapshotsProofs**, for any number of tasks, objects, changes and inodes. `ImagesAdvance` (`SnapshotsAdvance`) holds with DELETEs, up to a loss of power, and needs
`Sound`: a task that holds an image has the gate of its object and the image is no newer than that; a lineage, the
objects that descend from one another through restarts, has one object at a time; and the file is no newer than any object or image of its
lineage (`FileIsOld`). `Halves` and `TmpIsNew` rule out that a torn file verifies: what two tasks wrote to
one inode comes from two lineages. `FileStaysIntact`, `SavedLasts` and `AnswersAreSaved` hold until the first
DELETE and need `Undropped`: then there is one object, its gate leaves one writer (`OneObject`), the temporary file is that
task's (`OwnTmp`), and the file is complete, synced and no older than what was reported saved (`OwnFile`); so is the
one on the platter for what was saved when the directory was last written back (`OwnKept`), which is what a loss of power leaves. `SavedLasts` thus states for both kinds of
crash how far "reported written" reaches, and no further. Neither is
inductive without the other: `Undropped` rests on `Sound` in every step.

**DimensionsProofs**, for every schema that `Schema::new` accepts and any requests and devices. Its arithmetic half: the cells of
a shape are the numerals of a mixed radix system and the blocks of two shapes are apart, so that two choices of
values never share a cell (`CellsDiffer`). The other half is the invariant

    DInv == labels \in Table /\ filed \in Recs(labels) /\ ReqOK /\ CopyOK /\ FileOK /\ AskedOK

which says of every place a cell is kept (records, the batch under way, the copy a snapshot task made, the file, the questions
asked) that it is the cell of the values it was reported with, under the labels it will be read with. Labels only grow,
and growing moves no cell (`DInvHolds`). `FilterExactHolds` and `UnderWayExactHolds` follow: a question that was resolved
before a value was interned, or before a restart, still finds what it named. `SlotsEndAtErrorHolds` needs a second
invariant, `LInv`: every label, in memory and in the file a restart reads, goes back to an item of a batch that passed the checks, and whatever that
item names before the value of the label has a place (`Reached`). The lemma `ResolveGives` follows `cells_for` value by value: until the
first error everything named so far is known, and after it nothing is interned; that tables only grow (`GetsToStays`) keeps it so.

**ReplicasProofs**, for any servers, plans of calls, requests, retries and permits. Permits follow from the
stages of requests, and `AllFit` says that those counted at each server fit: `WritersExclude` (`OneWriter`) and `BodiesStayBounded`
follow. `MissesAreReported` (`NoSilentMiss`) needs two facts about the client: a try that was not made yet is at no
server (`Unsent`), so a request is never sent twice as one, and a leg that is fulfilled was answered "ok" by its server for the
request of its current try (`Heard`). `RequestsAreExchanges`: each step of the composition is a step of Exchange or a stutter, for each request at each
server, the refusal of patches after their reports included. `ReplicasHeal` (`SelfHeals`) is that what a server holds is the newest of what it took since it last lost the device.

**ReporterProofs**, for every set of devices and reports and any number of waiting flushes:

- `SendsNeverOverlap`: `Spec => []SendsChain`. Several flushes resume from one send, and the first of them may begin
  another; that the rest do not is because the first took everything and nothing can be queued
  before all have run (`TakenAtOnce`), which strengthens the invariant.
- `NewestPositionKept`: `Spec => []NewestKept`. `AllReported` strengthens it: whatever is queued, sent, still on the wire or held by
  the server was reported of that device. A position that gives way gives way to a reported newer
  one; what a failed batch puts back displaces only what is older (`RequeuedForward`); what
  arrives moves the server only forward (`ArrivesForward`).
- `ServerSettles`: `Spec => []SettlesUnfailed`. Until a send fails, the server, then what is under way, then what
  is queued come to what a server told at once would hold (`Told`). Coalescing carries props onto a newer position, which
  would be wrong if something newer than the props were at the server already, so queued props are ahead of all that was
  sent (`Ahead`); what arrives late or again is no news (`Caught`).

Only model-checked:

- `PagesCoverCluster`: `get_leaves` is a walk defined by a RECURSIVE operator, which the prover cannot open.
- `ViewportComplete`, which holds on the run's instance and not in general: see *viewport_slack*.
- `SelectionMatchesMap`: groups and pages are what folds, `SelectSeq` and sorting make of the order of a set, which is any.
- `FilingExact` and `DirectoryExact` of GridIndex: CellHash probes, grows and shifts back by recursion, and that a probe
  finds its key is an induction over the directory.
- `LayoutsAgree` of CellTable: that the sums of both layouts agree follows from `TInv`, but that an entry whose count is zero is one whose sum
  is zero, so that it may be released, needs what the counts are sums of: the masses of subtrees, in a forest that is not NetTree's.
- The liveness properties `WritesEnd`, `Drains`, `GhostsLeave` and `ShutdownEnds`, which the prover does not reach.

## 6. Where code and documentation disagree

Shown by a run:

1. **A viewport may miss clusters** (`viewport_slack`). `get_clusters_projected` prunes a subtree by
   a ball of 2 r around its center, whose comment says that it "provably contains every
   descendant". With hysteresis an edge may stretch to (1 + h) r, so descendants may be up to
   2 (1 + h) r away.
2. **A dropped collection may come back** (`snapshots_drop`). A snapshot task that looked the
   collection up before the DELETE writes its file after the DELETE removed it.
3. **Props may be lost** (`reporter_props`). A failed batch gives way to a newer position that is
   queued, and takes the props it carried with it. Positions are never lost so (`NewestKept`).

Seen while modelling, without a run; the models behave as the code does:

- `close` may resolve while a batch is under way (`clients/node/index.js:812-817`, `862`): two flushes wait for one send, the
  timer's resumes first and takes the queue, that of `close` finds it empty and returns.
- `remove` is a DELETE without a version that is retried like any other request: one that arrives late deletes a device
  that has reported since, and a report that is repeated after a DELETE brings the device back. `SelfHeals`
  therefore speaks of what a server took since it last lost the device.
- `_write` returns the acknowledgement of the first replica that has one; what others refused item by item
  under `partial` is not seen.
- `reportGeoJSON` stamps all Features without a version with one and the same; of two Features of a device the
  first wins, where `report` gives a device it meets again a newer version, so that the last wins.
- The children of a cluster and its expansion zoom are read under two locks (`routes.rs:1596-1597`), so they may speak of
  different states.
- A patch that is refused because the device is unknown has taken slots by then.
- `?ids=` is not deduplicated (`routes.rs:826`): an id named twice is counted twice by
  `select_clusters` and listed twice by `list_devices`, against "Counts and centroids are therefore exact"
  (`collection.rs:1292`). `SelectionMatchesMap` takes lists of distinct ids.
- `select_clusters` draws a marker at the plain mean of its matches, while an unfiltered marker is pulled
  back towards its anchor (`index/mod.rs:1233`): with a search that everything matches, counts and sums
  agree, as the run shows, places need not.
- Two objects of one name (DELETE, then a new PUT) have two snapshot gates and one temporary file
  (`snapshot.rs:158`); the file renamed into place may be torn, against `snapshot.rs:149-151`. In Snapshots the
  formula `FileIntact` fails for that reason, and the runs check `FileIntactUndropped`.
- A batch without `partial` is documented as all or nothing (README.md:398-404). Props are checked again by
  `patch` (`collection.rs:1083`); a limit lowered in between fails the patches after the reports
  have been applied, and the request is answered 400 (`routes.rs:1125-1130`): `RefusePatches` in Admission, `BeginPatch` in
  Collection (outcome "error"). Exchange promises no more of a refusal than that not all of it was applied. "Overloaded", which
  the client retries, does mean that nothing was.
- `snapshot::write` syncs the file and renames it (`snapshot.rs:196-199`), and never syncs the directory; `drop_collection` removes the
  file without either. After a loss of power an older snapshot, or one that was deleted, may be back, although the newer was reported written.
  `snapshot.rs:147-151` claims that the rename is atomic, which holds (`FileIntactUndropped`), and `:194-195` that a snapshot which
  exists in the page cache only is of no use "after the kind of crash this exists for", which goes for the new name too. `SavedSurvives` says what is left.
- A client that stalls in the middle of its body keeps the server from stopping (`main.rs:294-296`), and so from writing its final
  snapshot, until it is killed; see section 4.
- "nothing can be mutating the index ... exactly the state we shut down with" (`main.rs:302-304`): the final snapshot does
  not wait for jobs of connections that went away, nor for the sweep. What holds is `AnsweredIsSaved`: nothing
  that was acknowledged is missing.
- README.md:510-512 says a dimension reclaims slots; the interner never does (`schema.rs:423`).
- "A refused report never takes a capacity slot" (README.md:415-416), since "a report about to be refused must not take one"
  (`routes.rs:1063-1065`): it may. `cells_for` interns values before a later value or dimension is refused (`schema.rs:280-317`), and the
  slots stay taken. The first request of the *dimensions* run does so. What holds is `SlotsEndAtError`: malformed items, which the comment goes on
  to check for, take none, and a refused one takes those of the values before its first error and no other.
- Props that are reported with a version older than something already sent, a late backfill, are refused as stale by the server when they go
  out alone. If they are queued and a newer plain position comes before the flush, they ride on it and are taken
  (`clients/node/index.js:790-799`). What the server holds then depends on when the timer ran, so `Settles` leaves out
  devices whose props came late (`past.late`).
- `report` coalesces a plain position onto queued props. If the server refuses the props, a partial
  batch drops the position with them; `NewestKept` excludes devices with refused props.
- A handle of a cluster names a slot (`index/mod.rs:1487-1495`, "rejecting anything stale"); after the device is gone and the
  slot reused the handle decodes to another device.
- Strides are multiplied in `u64` before the total is compared with `MAX_CELLS`
  (`schema.rs:167`); the model has no such width.

## 7. Not modelled

- Projection (`project.rs`): floating point. Positions are integers after it.
- The protobuf of vector tiles (`mvt.rs`) and JSON and GeoJSON as text: stateless formats. What tiles contain is in
  NetQueries, what a request amounts to in Intake. The older `categories` spelling of a schema is left out.
- Plain types (`feature.rs`, `lib.rs`), the demo page, benchmarks and examples.
- How text predicates, id lists and boxes are parsed, and the records a listing returns; listings and other reads beside
  writers: a read takes one lock and is one step, and pages taken at different times promise nothing to each other.
- The handles that name clusters to clients. Slots are in CellTable.
- Reads of the client, its round robin over replicas, the counts of an acknowledgement (`checkAck`), the length of its pauses,
  and the command line. Argument and environment parsing of the server; metrics and wording.
- Floating point: centroids are exact in NetQueries, radii are integers.

## 8. Plan

The order followed how much depends on a part: 1. the hierarchy, with its proofs; 2. aggregates and
queries on top, tiles, the checker and the searches; 3. the collection and its sweep, as a Registry; 4. snapshots and
shutdown; 5. the grid, slots and the cell table; 6. the client's Reporter, admission, replicas and the Exchange; 7. ingest
and filter dimensions; 8. theorems about the hierarchy, its aggregates, clusters and checker, slots and pooled entries, the collection, snapshots, filter
dimensions, admission, replicas and the Reporter. These are done. What could come next:

- CellTable: `LayoutsAgree`, from `TInv` and the masses of subtrees, as NetAggregatesProofs has them for the cells of the hierarchy.
- GridIndex: `FilingExact`, with buckets as sequences, over a directory that is taken to be a function; CellHash stays with TLC.
- NetSelection: `SelectionMatchesMap`, once a group is written as a set.
