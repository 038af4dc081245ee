# A TLA+ model of pg_fusion

pg_fusion runs PostgreSQL queries in DataFusion. Ordinary PostgreSQL backends
and one background worker (the *worker*), which hosts the DataFusion runtime,
talk to each other only through preallocated shared memory: lock-free lists,
pages, permits, byte rings and packed state words, used by processes that may
fail, leave or be restarted at any point. Around that core sit translations: SQL
queries to plans, plans to bytes, rows to pages, scans to SQL text.

This directory models the shared structures, the protocols on top of them and
the translations. TLC checks the models on small instances, and TLAPS proves the
lowest layers (freelist, page pool, ring, page stream, runtime filter) correct
for instances of every size.

Paths are relative to `src/`. `PROJECT.json` holds the exact correspondence: for
every definition the lines it translates, for every run its properties, for
every property a mutation of the code that it catches, the hazards, the findings
and the theorems.

## 1. The system and the modules

| Part | Source | Modules |
|---|---|---|
| freelist | `lockfree` | `TreiberStack`, `FreeList` (abstract), `TreiberStack_proof` |
| page pool | `page/pool` | `PagePool`, `PageOwnership` (abstract), `PagePool_proof` |
| transfer and issuance | `page/transfer`, `page/issuance` | `PageStream`, `PageStream_proof` |
| control ring | `runtime/control_transport/src/ring.rs` | `FramedRing`, `FrameChannel` (abstract), `FramedRing_proof` |
| slots and leases | `runtime/control_transport/src/region` | `SlotLease` |
| runtime filters | `runtime/filter` | `RuntimeFilterState`, `RuntimeFilter`, `RuntimeFilter_{build,lookup,release,proof}` |
| one query | `pg/extension/src/{custom_scan,worker,result_ingress}.rs`, `pg/backend_service`, `runtime/worker/src/runtime.rs` | `ExecutionControl` |
| background scan workers | the job registry and launcher of `pg/extension` | `ScanWorkerJobs` |
| the scans of one execution | `pg/backend_service`, `custom_scan.rs` | `ScanDrivers` |
| one scan, many producers | `page/scan_flow`, `runtime/worker/src/transport_scan_source.rs`, the producers | `ScanFanIn` |
| page format, encoders, page sources | `page/*` encoders and importers, result pages | `PageBlock`, `ScanPages` |
| plan codec and flow | the plan crates | `PlanCodec`, `PlanFlow` |
| materialized CTEs, aggregates, functions | the worker's own operators | `CteReads`, `PgAggregates`, `PgFunctions` |
| value and type mappings, filter keys | type crates, filter planning | `PgValues`, `FilterKeys` |
| join ordering, statistics | planner crates | `JoinOrder`, `JoinReorder` |
| scan SQL, plan builder | `pg/scan_sql`, plan builder, scan nodes | `ScanSql`, `PlanBuild` |
| SQL frontend | `pg/frontend` | `FrontendQuery`, `FrontendChecks` |
| protocol messages | `runtime/protocol`, page headers | `ControlMessages` |

A backend leases a control slot and publishes a plan as issued pages. The worker
drains one ready slot after another, decodes and plans, and executes before it
polls again. A scan of the plan starts a thread in the worker that attaches to
the slots of the scan's producers (the leader backend, and dynamic background
workers for parts of the block range) and merges their pages. Result pages travel
back over the control slot. Every page in flight is owned by exactly one side and
backed by one permit; pages, permits and slots all sit on the freelist.

At each layer a module uses the abstract behaviour of the module below:
`PagePool` and `PageStream` take permits and pages atomically, as `FreeList` and
`PageOwnership` say; `ScanFanIn`, `ScanDrivers` and `ExecutionControl` use rings
as queues, as `FrameChannel` says. The three refinements are checked by TLC and
proved.

A definition whose name extends that of the definition after it (`BumpTagNever`
before `BumpTag`, `GrantUncleared` before `Grant`) is a mutation of the code, used
only to show that a property would notice it.

### Shared memory

**`TreiberStack`.** One step per atomic access: load the head, read or write a
link, exchange the head, update `len`. `out` is a ghost: the indices clients own.
Index, tag and length wrap (`TagMod`, `LenMod` stand for 2^32 and 2^64).
`NoTagLap` is the one assumption the algorithm needs: the tag does not go all the
way round between two instructions of one operation.

**`PagePool`.** The page's state word with its generation, the freelist as an
atomic set plus its separately updated length counter, the gauges, and the handles
of processes, including copies of descriptors (they are `Copy`), which may be
released late or twice. A refused push reverts the state word as
`release_with_state` does. Generations run to exhaustion.

**`PageStream`.** Senders share a `PageTx` through clones, receivers a `PageRx`.
Every phase exchange, id reservation, page and permit operation is a step, on the
normal path, in every drop, for refused frames that are retried and for malformed
pages.

**`FramedRing`.** The ring with its bytes, prefix and payload wrapping around its
end, both snapshots, and the ready-flag handshake. A byte is known by who wrote
it, so overwriting and tearing are visible.

**`SlotLease`.** Slots with their packed word, generation and pid cells and their
ring. Operations are split at each compare-and-swap and at each store another
process may see too late; the header lists where the module is coarser. A
process's locals are reset where the code's go out of scope.

**`RuntimeFilter`.** One atomic access per step of claim, build, lookup and
release, except that the four words of a target are one value (the header says
what that leaves out). `RuntimeFilterState` has the variables and their types.
Bloom bits are the set of inserted keys; `JoinKeys` gives the keys of each
build's join. The
history variable `raced` records that a lookup took its reference while the slot
was being claimed or retired.

### Protocols

**`ExecutionControl`.** Sessions with consecutive queries over control slots, the
worker's poll/drain/execute loop and its state machine. Every error the loop
passes on ends the worker process and its memory. A worker drains a slot's ring
frame by frame until it is empty, and a frame that fails ends the drain. Scans
appear as a cause of
failure. `outcome` and `left` are history: what became of each query in the
worker, and that a backend gave up a query (an error, a closed cursor, an aborted
start).

**`ScanWorkerJobs`, `ScanDrivers`, `ScanFanIn`.** The three parts of a scan's life:
how a leader takes background workers from the shared registry, how the executor
node of one backend drives the streams of all scans of a query, and how the
worker's scan thread merges the producers of one scan. Pages and permits are one
counter; a page's contents are its position. The address a worker process
publishes is one value, where the code has three relaxed stores and three loads.

**`PlanFlow`, `PlanCodec`, `CteReads`.** Both incremental codec sessions over a
stack machine, cut into pages of any size; the two roles of the flow with their
pages and permits, where the receiver refuses a frame by its transfer id; the
readers of materialized CTEs with the mutex they share, which any reader that is
polled may get once it is free. Whether a page ended inside a value is decided as
in the code, by the wording of the decoder's error.

### Translations

`PageBlock`, `ScanPages`, `PgValues`, `FilterKeys`, `PgAggregates`, `PgFunctions`,
`JoinOrder`, `JoinReorder`, `ScanSql`, `PlanBuild`, `FrontendQuery`,
`FrontendChecks` and `ControlMessages` are operators, each compared with a
reference definition: the sequence of rows, the value, the join of the tables, the
rows of the SQL query, the cheapest order among all orders, the message that was
written. Numeric widths are parameters. Texts are short sequences; DataFusion's
and PostgreSQL's own operators are taken to implement SQL. What the frontend
supports is read from its code, which agrees with
`docs/compatibility-matrix.md:142` on subqueries; `docs/query-support.md:68`
still says there are none.

## 2. Runs

Modules that share no state are checked in one run: a variable `mode`, fixed in
the initial state, says which of them moves while the others stand still
(`MCExecution`, `MCPages`, `MCScans`, `MCPlans`). In `MCTranslation` a state is
one input of one translation.

| Run | Bounds | Distinct states | Shows |
|---|---|---|---|
| `freelist` | 2 processes, 3 indices, tags modulo 4 | 490 000 | nothing lost or owned twice, `Empty` is truthful, `len` exact up to operations in flight, refines `FreeList`, lock-free |
| `query_execution` | pages: 2 processes, 2 pages, 2 generations; queries: 2 sessions, 3 queries of 1 plan page and 2 result pages, 2 slots, 2 permits, rings of 2 frames | 470 000 | exclusive leases, dead descriptors stay dead, gauges, refines `PageOwnership`; a query gets its own pages in order, EOF means completed, no permit is lost, no waiting query is forgotten |
| `pages` | streams: 2 threads on one sender, 2 pages, 3 permits, 3 pages begun; contents: up to 4 rows, 512-byte pages | 365 000 | permit and page accounting under retries and drops, frames and rows in order, a row is refused only when no page can hold it, everything comes home |
| `control_ring` | 7 bytes with prefixes of 2, 3 frames, 2 leases | 1 040 000 | only free bytes are written, no lost wake-up, refines `FrameChannel`, every frame arrives |
| `slot_leases` | 2 backends, 2 claimers, 1 slot, 2 leases, 2 generations | 1 200 000 | a worker reads frames of its own lease only, no slot is recycled under a holder, each is pushed once, none without owners is forgotten |
| `runtime_filter` | 2 probers, 1 slot, 3 builds | 710 000 | no live query loses a row; before a race, references are exact, held filters stay, retired slots return |
| `scans` | launch: 2 leaders, 1 job, 3 worker processes; drive: 2 scans of 2 pages, 2 permits; fan-in: leader and 1 worker, 2 pages each, 2 permits; rings and channels of one entry | 424 000 | each block is read once, streams are whole and in order or end with an error that has a cause, drivers and streams stay in step, launches, nodes and threads end |
| `plans` | 4 page sizes, 2 permits, 2 flows; 4 readers of 2 CTEs, 2 drops; 2 accumulators, 3 rows | 218 000 | the plan that was encoded arrives or an error does, CTE readers agree, aggregates are those of the rows they stand for, flows and reads end |
| `translation` | the bounded inputs of each translation | 274 000 | each translation agrees with its reference or refuses its input |

The bounds are small because every race of these protocols needs few actors: two
that collide and one that reuses what they collide about. Reuse is what matters,
so there are always at least as many leases, generations, builds or queries as it
takes to hand a resource on, and pools, rings and channels are small enough to be
exhausted: in `scans` one scan can hold every permit. In `query_execution` a ring holds neither a whole plan nor a whole
result, so that a start is aborted on a full ring and a result fails on one.
Two processes suffice for the pool there: its invariant and its refinement are
proved for any number. Symmetry is used only in runs without liveness
properties, and only over sets whose members the specification cannot tell apart.

Deadlock is not checked where a system may stop: bounded sessions, builds,
queries and streams end. What must not stop is a liveness property.

### Findings

Each of these runs ends in a counterexample to a sentence of the repository, which
the finding in `PROJECT.json` quotes.

| Run | What TLC finds |
|---|---|
| `exec_two_starts` | a second `StartExecution` drained while a plan is still arriving ends the worker |
| `bytea_literal` | a bytea literal in a scan's SQL has two backslashes, and PostgreSQL reads another value |
| `semi_join_losses` | a correlated `EXISTS` or `IN` over a subquery with `LIMIT`, `OFFSET`, `HAVING` or an aggregate becomes a semi join that ignores them |

## 3. Exceptions inside the passing properties

Some properties hold up to a named exception. Each is a behaviour of the code that
the model has, met while the property was being stated.

Shared memory:

* the high watermark of the page pool may exceed the number of pages, because a
  page is counted again before its release was counted (`GaugesAccount`);
* a lease dropped while the freelist's length counter is transiently wrapped is
  refused as corrupt; the drop ignores this and the page is lost
  (`page/pool/src/lease.rs:71`);
* a reference taken by `lookup_probes` while the slot is claimed or retired makes
  the pool free a slot that is held, or free it twice (`raced`);
* the store of pid 0 that ends a release or a free publication can hit the next
  lease, whose live backend is then reaped (`misreaped`);
* an acquire that finds the worker offline after its pop leaves the slot popped,
  and one that pops a slot not yet marked pushed drops the token.

Query control:

* a plan that does not decode is dropped without `FailExecution`
  (`NoQueryIsForgotten`);
* a backend that gives up a query leaves pages in its rings, and so does a start
  that is aborted because the ring is full: their permits are gone until the
  region is initialised again (`PermitsAreConserved` ends with `left`);
* the worker checks the flow of a plan frame against its own active flow, so that
  check refuses nothing (`runtime.rs:299`);
* the worker sizes the detail of `FailExecution` by the capacity of the other
  ring (`worker.rs:564`).

Scans:

* page frames in the rings of a scan that stopped early are forgotten with the
  slot (`PagesAccounted` is an inequality); no property covers this hazard at
  `transport_scan_source.rs:404` beyond that;
* a streaming background producer never reads `CancelScan`; only its deadline
  ends it;
* `CompleteExecution` read before a late `OpenScan`, and `CancelScan` for a driver
  with a deferred terminal step, fail the query; the failure of one scan clears
  the drivers of the others, with it a deferred `ScanFinished` (`EndForgotten`);
* job indices are reused and session epochs count per backend: a worker that is
  late may find its index taken, which `EpochGap` and the producer id in
  `ScanFinished` tell apart; a leader's `mark_failed` may hit the job of another;
* scans that DataFusion does not poll yet can hold every permit; the scan it waits
  for then never gets one, not even to report its end (`Starved`). The permits
  are as many as the pages of the pool (`docs/configuration.md:89`), and what
  unpolled scans hold is bounded by their rings and channels.

Pages and values:

* a row whose tail does not fit with `SizeOverflow` fails although the next page
  would hold it; the row cap counts rows a runtime filter rejects;
* a bare numeric loses its display scale, timestamps keep PostgreSQL's epoch, and
  interval keys hash the exact triple;
* `avg(DISTINCT interval)` compares fields one by one; interval text of negative
  parts differs from PostgreSQL's; `quote_identifier` quotes no keyword;
* `round` at the 38th digit of a decimal fails when the remainder, doubled, no
  longer fits an i128, although PostgreSQL has a value.

Queries and plans:

* scan SQL: `24:00:00` and bytea literals (`Misread`), a name hidden by an empty
  `IN` list; `standard_conforming_strings` is assumed;
* plan builder: a cast to decimal of a column that may spell `NaN` or an infinity
  is refused when it is a column of the plan's root, those below are not looked
  at; a typmod function behind a cast would take the header off its length twice,
  and the frontend makes none (`Interpreted`);
* frontend: an eager scalar subquery may fail a query that would not reach it;
  `SELECT DISTINCT` over `GROUPING SETS ((), ())` drops the `DISTINCT`; collation
  comparisons outside `WHERE` are not refused; some legal shapes are refused
  (scalar subqueries in both `WHERE` and targets, unaliased outer relations of a
  correlated `EXISTS`, `GROUP BY` of a hidden column without sort or aggregate);
* CTEs: a reader dropped while it computes makes the input run again.

## 4. Fairness

Weak fairness, per process, of the operation a process is in: a running process
goes on, and every wait in the code polls (latch waits have a timeout of 1 ms, the
scan thread sleeps and polls again). Nobody is obliged to start an operation, a
page, a build, a query or a restart. What goes further:

* `PageStream`: strong fairness of `BeginAccept`. A receiver refused while another
  call holds the phase tries again, and the phase is free again and again.
* `ScanFanIn`, `ScanDrivers`: DataFusion keeps polling a stream it has not
  dropped, the leader ends its node once the stream is over, and a query whose
  scans are exhausted (or one of whose scans failed) comes to its end. Deadlines
  are not fair, so that progress does not come from giving up.
* `FramedRing`: the receiver polls, and a sender inside `send_frame` finishes.
* `PlanFlow`: each side takes the frame it has; an aborted plan is aborted on the
  other side when its successor starts.

`SlotLease`, `RuntimeFilter` and `ExecutionControl` have no liveness property.
Where something must not be forgotten there, an invariant names who will do it
(`OwnerlessSlotsAreFinalized`, `RetiredSlotsComeBack`, `NoQueryIsForgotten`).
The stack is lock-free, not wait-free, and `LockFree` says just that.

## 5. Proofs

Every theorem holds for every value of the constants that satisfies the named
assumptions of the module, which the runs evaluate too. `IInv` and `PoolInv`
are invariants of the runs as well.

| Theorem | Statement | Inductive invariant |
|---|---|---|
| `StackSafety` | `Spec => []IInv` | `IInv`: types, each index in exactly one place, loaded heads are fresh |
| `EmptyReportsAreTrue` | `Spec => EmptyIsTrue` | from `IInv` |
| `StackImplementsFreeList` | `Spec => ImplementsFreeList` | from `IInv` |
| `LengthAccounts` | `Spec => []LenAccounts` | `LenInv` |
| `PoolSafety` | `Spec => []PoolInv` | `PoolInv` |
| `PoolImplementsOwnership` | `Spec => ImplementsOwnership` | from `PoolInv` |
| `RingKeepsFrames` | `Spec => []FramesStayWhole` | `RingInv` |
| `NoLostWakeup` | `Spec => []ReadyWhenPending` | `WakeupInv` |
| `RingIsAChannel` | `Spec => IsAChannel` | `ContentInv` |
| `PagesArriveInOrder` | `Spec => []InOrder` | `OrderInv` |
| `SkippedRowsDoNotJoin` | `Spec => []NeverRejectsAJoinableRow` | `FilterInv` |
| `SlotsStayWhileReferenced` | `Spec => []SlotsInUseStay` | `PinInv` |
| `RetiredSlotsAreFreed` | `Spec => []RetiredSlotsComeBack` | `PinInv` |

**Stack** (`ProcsAssumption`, `CapacityAssumption`, `TagModAssumption`,
`LenModAssumption`). That the links from the head form a list without repetition
of exactly the free indices is not inductive: a pop installs a link loaded
earlier. `LoadedIsFresh` supplies what is missing: while the head word still
equals the one a process loaded, tag included, the link it loaded is the current
one. It rests on `NoTagLap`. `RoomForOneMore` is the pigeonhole argument for a
push. `LenInv` states the counter without `%`: the number of free indices, less or
plus the operations still to count, is the counter plus a multiple of its width.

**Pool** (`PagesAssumption`, `MaxGenerationAssumption`, `PoolLenModAssumption`).
Exclusive ownership needs to know that a spent descriptor is dead for good
(`SpentStaysDead`: its generation is in the past) and that a process in the
middle of an operation still has the page it works on
(`OperationsHaveTheirPage`). The refinement maps a page to its generation and to
the state an observer would give it; only the exchange of the state word moves it.

**Ring** (`RingAssumption`). The sender decides with a head older than its tail and
the receiver with an old tail. `RingInv` says why old snapshots are safe: the
other side only moves in the direction that leaves more room. `WakeupInv` follows
the ready flag through the receiver's clear-and-look-again. `ContentInv` says
which frame each byte belongs to, at any wrap position; the refinement reads the
queue off it.

**Page stream** (`StreamAssumption`). `InOrder` is about what `accept` returned. The
strengthening, `OrderInv`, relates the sender's next id, the frames in flight and
the receiver's expected id: either the ids in flight continue where the receiver
stands, or there is a gap whose id nobody carries, and then nothing is accepted
any more. Phases (`PhasesOK`) and single handles (`SingleHandle`) make the
reservation of an id and its use one after the other.

**Runtime filter** (`FilterAssumption`: the reference counter is wide enough for
every process). `FilterInv == TypeOK /\ Sound`: a prober that rejects a row has
seen, in one generation of the slot, the bits of its own target complete. It holds
whatever the lookup raced with. `PinInv == raced \/ Pinned`: until a race the count
is the number of holders, so that a held slot keeps its generation and target and
a retired one has somebody to free it. One module per group of actions
(`_build`, `_lookup`, `_release`) shows that the actions keep both, and
`RuntimeFilter_proof` puts them together.

Only model-checked:

* liveness and everything that needs fairness or `ENABLED`;
* `PermitsStandForPages`, `GaugesAccount` and the properties of `SlotLease`,
  `ExecutionControl` and the scan modules;
* whatever rests on recursive definitions: `CteReads`, `FrontendQuery`,
  `FrontendChecks`, `JoinReorder`, `PageBlock`, `PgFunctions`, `PlanBuild`,
  `PlanCodec`, `PlanFlow`, `ScanSql`. What a recursive definition computes on every
  input needs induction over data, which the installed provers cannot instantiate.

## 6. What is not modelled

* `reinit_in_place` of the control region: nothing outside tests calls it.
* The adapters that read PostgreSQL's query trees and catalogues, window
  functions, casts and operand coercions, `EXPLAIN`, spill files, portals, region
  layouts and attach validation, signalling, settings, logging, and metrics other
  than the page gauges.
* DataFusion's optimizer (any plan) and PostgreSQL's executor (SQL). DataFusion is
  taken to return a row for an empty grouping set over no input.
* Statistics are the numbers the catalogue gives, or their absence; how
  PostgreSQL estimates them is not modelled.
* The rounding of a float's last bit: sums, costs and selectivities are exact.
* Memory ordering weaker than sequential consistency: each atomic access is a step
  of one global order. The code uses acquire/release on the words that publish
  data; relaxed accesses are to counters and to links that a later exchange
  publishes.

The components of `PROJECT.json` give the reason for each part that is left out or
only partly modelled.

## 7. Running

    tlc -workers 2 -config MCExecution.cfg MCExecution
    tlapm PagePool_proof.tla

On two cores a run takes from half a minute to three minutes, coverage
statistics included, and a proof module from one to six minutes.
