# Formal models of poly-kit's concurrent core

poly-kit is a toolkit of Go packages for building command line tools and
services, with SDKs in other languages. Most of it is sequential: configuration,
command lines, adapters over databases and model providers. Its concurrent,
failure-handling core is modelled here in TLA+:

- the **event bus's network adapter** (`go/runtime/bus`), where processes on two
  sides of an unreliable connection must agree on positions, acknowledgements and
  who dials whom;
- the **versioned document store** (`engine/store`), where concurrent requests
  change a version graph in SQLite behind a cache;
- the **service supervisor** (`go/console/serve`), which starts and stops services
  that may fail, hang or be optional;
- the push side of the **replicator** (`go/runtime/sync`).

File names without a directory are in `src/go/runtime/bus/`.

## Inventory

| Component | State | Operations | Talks to | Hard behaviours | What makes it correct |
|---|---|---|---|---|---|
| Stream log and link (`stream_log.go`, `network_link.go`) | ring of entries, send cursor per link, last frame sent | append, drain, send, heartbeat, watchdog | fed by the bus's observer; wire to the peer | eviction under a reader, cuts that lose a suffix, frames that overtake entries | a link hides nothing: what it leaves out it reports with a reset |
| Resume (`stream_cursor.go`, `network_session.go`) | dialer's position, request, acceptor's decision | handshake, decide, link up, on event, reset, position | both sides of a connection; publishes the invalidation event | answers to a position that moved meanwhile, restarts, legacy peers, seeds out of range | the gap signal is complete; in order, at most once between two announcements |
| Dialing and teardown (`network.go`, `network_session.go`) | registered addresses, links, one reconnect loop per address, parked redial mark, wake token | Dial, Connect, Disconnect, Close, loop, link end | callers' goroutines, the loop, readers | attempts racing each other, Disconnect and Close; a request that meets a loop about to end | forgotten and closed stay down; every request is served; Close and Disconnect return |
| Acknowledged publish (`ack.go`, `network_ack.go`, `stream_ack.go`) | tickets, ack tracker and outbox on the dialer; dedupe memory and puback queue on the acceptor | PublishAcked, send, rewind, begin, settle, flush, puback, timeout, forget | publisher, link writer, acceptor's readers and handlers | redelivery on coexisting links, lost acks, pruned results, forgotten streams, restarts | no ok for what was not handled; one publish per life of the memory; no publisher stranded |
| In-memory bus (`bus.go`, `adapter.go`) | subscriptions, closed flag, async pool, wait group, RWMutex | Publish, Subscribe, Close, observers | everything above | Close against late async handlers, a nested read lock against a waiting writer, a full pool | Close waits for what it promises to wait for; no deadlock |
| Wire format, CloudEvents, topics, sinks, subscriptions on a link | little | encode, parse, match, write | the network adapter | none that is concurrent | round trips |
| Replicator (`go/runtime/sync`) | queue of diffs, cursor per remote, hybrid clock | Enqueue, push, pull, trim, add and remove remotes | transports | cursors against a queue that shifts, a full queue, partial failure of a pull | every eligible remote gets every diff |
| Versioned store (`engine/store`) | documents, version rows and edges, live bits, blob refcounts in SQLite; a DAG cache with generations | create, update, conditional update, delete, fork, merge, revert, branches, abandon, prune | HTTP handlers of `kit serve` | requests of several transactions, reads outside them, a cache invalidated before COMMIT, crashes | no lost update, live heads retained, no blob freed in use, no history without a document |
| Job poller (`go/runtime/job`) | claims with heartbeats in a store | claim, heartbeat, complete, fail, reclaim | job engines | a stale claim's late completion | one effective completion per claim |
| Supervisor (`go/console/serve`) | run record (started, ready, failed, stopped, released, abandoned), exits channel, deadline | prepare, start, await ready, release, await, ordered stop, join | services' Start and Stop goroutines, signals | a release against the ordered stop, hung services, failures at every stage, a second signal | each service stopped once and in order, an honest outcome, Run returns |
| Migrator (`go/core/upgrade`) | schema version | up, down, set version | drivers | a crash between a migration and its version | each migration applied once |
| Breaker, notify, telemetry, MCP tasks, idempotency store | counters, queues, tables | call, retry, flush, save | external services | limits, shutdown | bounded, nothing lost on a clean shutdown |
| CLI, config, storage adapters, AI clients, SDKs, templates, contracts | files and external stores | sequential | external | none modelled | outside the plan |

`PROJECT.json` lists every component with its sources and status, and under
`hazards` the places in the code that a test would hardly reach.

## Modules

| Module | Models |
|---|---|
| `StreamFeed` | abstract: what a dialer promises the consumers on its bus |
| `StreamResume` | log, handshake, writer, wire, reader and position, for one address; refines `StreamFeed` |
| `StreamResumeProofs`, `StreamFeedProofs` | theorems about `StreamResume` |
| `Redial` | dialing, reconnect loop, teardown, Dial/Connect/Disconnect/Close, for one address |
| `RedialProofs` | theorems about `Redial` |
| `AckedPublish` | acknowledged publishing from a dialer to one acceptor |
| `AckedPublishProofs` | theorems about `AckedPublish` |
| `VersionedStore` | one document of the versioned store under concurrent requests |
| `VersionedStoreProofs` | theorems about its rows, refcounts, conditional updates and history |
| `LiveHeadProofs` | theorem about its live heads, which a prune judges by stale lists and DAGs |
| `Supervisor` | one run of the service supervisor |
| `SupervisorProofs` | theorems about `Supervisor` |
| `Replicator` | the replicator's queue, cursors and sync loops |
| `MCStreamResume`, `MCRedial`, `MCAckedPublish`, `MCVersionedStore`, `MCSupervisor`, `MCReplicator` | instances for TLC |

Definitions whose comment says *Mutant* are wrong on purpose: each changes one
definition of the model as a plausible bug would, and is used to see that a
property notices. No specification uses them.

### StreamResume

One direction of the stream, from an acceptor to a dialer. `logs[epoch]` is the
acceptor's `ringLog`; all entries are kept in the model and `OldestLocked` says
which of them the ring still holds. An entry is an `event`, an entry the link's
filters drop (`filtered`), or a relay's gap `marker`; an entry the reader drops
itself (own origin, reserved topic, not decodable, `network_link.go:453-464`) counts
as filtered: no handler gets it, and the next event or heartbeat passes it.
Payloads and encodings have no part in the properties. Several connections may be under way (`Conns`),
because `Connect` and the reconnect loop dial the same address; `registered` is
`n.conns[addr]`. A connection goes through `Dial` (duplicate check), `Ask`
(the position is read and sent), `Decide` (`decideResume`), `Accept` (the head is
read *again* for the ack's stream info, `network_session.go:366`), and ends as
`Discard` (another link has the address, or the position moved since it was
asked for: `sameResume`) or `Register` (`dialerCursor.linkUp`).

The writer is split where other goroutines interleave: `ReadBatch` takes a batch,
`Send` one entry of it, `Lagged` turns an eviction into a reset, `Heartbeat` runs
only between drains, as in `writeLoop`. The reader is split at the handlers:
`OnEvent` advances the position, `HandlersReturn` ends them. `Cut` loses any
suffix of a wire; `Restart` gives the acceptor a new stream and perhaps another
build (`capable`). `base` and `delivered` are history: the position last announced
to consumers and the offsets handed to the bus since.

### Redial

A step is what the code does under one lock. `mark` and `wake` are
`pendingRedial[addr]` and the token of `wakes[addr]`, `loop` is the reconnect
loop's place, `stage[a]` how far an attempt of the loop or of a caller got.
A `peerState` is an identity (`Peers`), so that an attempt which began under an
old registration can be told from one under the current. `Disconnect` takes the
steps the code takes (forget, make final, close the link, wait for its reader), so
other calls may fall between them. `raced` abstracts the position comparison of
`connect`: another link of the registration came up since the attempt asked. It
may then lose the race, or register all the same (the position did not move).
`kept` is history: the adapter owes this registration a link. The loop's
`MaxAttempts` branch (`network.go:557`) is left out: no option sets the limit.

### AckedPublish

Offsets identify publishes, at most one per offset. Publishers hold the bus's read
lock only (`bus.go:264`), so several may be between the append of their event
(`network.go:255`) and the registration of their wait (`:259`): `PublishAcked` and
`OnLogged` are separate steps, and other publishers, the writer and the reader fall
between them. `unlogged` counts publishers whose event the adapter's topic filter
kept out of the log. A write may fail on any link (`SendFails`): `onSend` has run
by then, so on a link without acks the frame is counted as acknowledged although
the cursor steps back and the next link sends it again. The dialer's `at` is the
outbox cursor that survives links; `Rewound` is the rewind of
`ackTracker.linkUp`. The acceptor's side of a link may outlive the dialer's
(`side = "half"`), so copies of one frame may be under way on two links.
A new frame that cannot be decoded is settled in `Begin` as invalid, before it is
queued. `seen` is the stream's entry in the dedupe memory (last, floor, results in
flight, errors), `reader` a frame between `ackSeen.begin` and its place in the
puback queue. `copies` is history: each time a frame was begun as new, what became
of it and in which life of the memory. `lost`, `slipped`, `blind` and `dropped` are
history too: offsets evicted unsent, those among them that the writer passed while
no wait was registered, offsets a link without acks put out of sight, and offsets
begun before the memory was evicted.

### VersionedStore

`db` is what is committed: the document, the version rows with their live bits
and edges, the sequence counter, the blob refcounts. A write transaction (`BEGIN
IMMEDIATE`, one at a time) is two steps: `Begin` runs its body, which also drops
the cached DAG and moves the generation, and `Commit` makes its rows visible.
Every read is a statement of its own, as in the code: `Fork`, `Merge`, `Revert`,
`Abandon` and `Prune` list versions, load a DAG and write in separate steps, with
other requests in between. `LoadDAG` with its miss path (`QueryVersions`,
`QueryParents`, `StoreDAG`) is shared by `Branches`, `Abandon` and `Prune`;
`moved` holds the builders whose generation is out of date. A `version_id` is
the pair of sequence number and contents it is a digest of. Ages are abstracted
to a sequence number up to which versions are over age, chosen at the prune.
`Fail` ends a request between two steps (cancelled, or a check failed), `Crash`
ends the process. `beaten`, `half`, `cut` and `bore` (versions that have had a
child) are history.

### Supervisor

A service is its number in the order `StartOrder` returned. `at` and `cur` are
where the goroutine of `Run` is: preparing, starting, awaiting readiness or a
release, awaiting the run's end, stopping, joining, stopping what was never
started. The record of `runState` is a set per mark. `start`, `stop` and
`release` are the goroutines of the services; `Report`, `StartReturns` and
`StopReturns` are free, so a service may hang anywhere, return an error at any
time and ignore cancellation. A `select` with several ready cases is a choice.
Budgets are timers that may fire at any time; the shutdown deadline is `set` or
`passed`. `signals` counts two: the first cancels, the second escalates. `stops`
and `events` count calls of Stop and stopped events.

### Replicator

Diffs are numbered in the order of `Enqueue`. `push` is three steps, split at
`r.mu`: `PushRead`, the transport (`PushOk`, `PushFails`), `PushWrite`.
`TrimQueue` shifts the queue and all cursors. `sent` is history.

## Runs

| Run | Shows | Distinct states |
|---|---|---|
| `StreamRaces` | two racing connections, ring of one, seeds, markers, filters, cuts, either build: `NoSilentLoss`, `WireComplete`, `ImplementsFeed` | 637 thousand |
| `StreamRestarts` | one connection, two lives of the acceptor, a ring of two inside which a writer lags: `NoSilentLoss`, `ImplementsFeed`, and `CatchesUp` under fairness, although links are lost to refused resets | 496 thousand |
| `Redial` | two callers, two links, two calls beyond the configured dial: `MarksHaveALoop`, `ForgottenStaysDown`, `ClosedStaysDown`, `Served`, `CloseReturns`, `DisconnectReturns` | 76 thousand |
| `RedialDialLost` | violation, finding 1 | |
| `Acks` | two publishers at once, ring of one, two links, and any two of: a link lost or a write failed, a memory forgotten or restarted, a Disconnect: `NoFalseOk`, `PublishedOnce`, `AckedMeansAnswered`, `PubacksExpected`, `NoTicketStranded`, `NothingStuck` | 1.7 million |
| `AcksFalseOk` | violation, finding 2 | |
| `AcksOrphan` | violation, finding 3 | |
| `Versions` | two requests at once, each of which may write, merge, revert, abandon and prune, three versions with equal contents, crashes: `BlobsCounted`, `NoLostUpdate`, `DocumentHasHistory`, `LiveHeadsRetained` under retention by count | 547 thousand |
| `VersionsLastHead` | violation, finding 5 | |
| `VersionsStale` | violation under retention by age, finding 4 | |
| `Supervisor` | two services, each choice of optional ones and both policies: `StoppedOnce`, `OneStoppedEvent`, `NothingLeftUnstopped`, `CleanExit`, `OptionalNeverCounts`, `ReadyReported`, `StopsReversed`, `EndsForAReason`, `RunReturns` | 549 thousand |
| `ReplicatorSkips` | violation, finding 6 | |

**Bounds.** A ring of one entry with two appended has an eviction at every
cursor; a batch of two against it has an eviction inside a batch. Two connections
are what a race needs: the code lets the loop and callers dial at once, and every
check is between two of them. Two lives of the acceptor give every change of
build and stream; that the position survives more of them is what the theorems
add. The seeds are: none, the start of the stream, an offset the log reaches
later, and one it never reaches. In `Redial` the violation needs three calls and
the passing run has two beyond the configured dial, with at most two links alive
(one up, one in teardown) as the calls can produce. In `Acks` two things may
go wrong (`MaxFaults`): two links lost, a link lost and the stream forgotten (two
copies on two links of which the memory knows nothing), or one of these and a
Disconnect. With one of each, and wires of one frame (5.0 million states), the
properties held as well. In a ring of one the second append evicts the first, sent or not, registered or not. Two entries of
which one is evicted before the other is sent again leave few copies of pruned
results; the ring of two of `AcksFalseOk` has them, and the theorems hold for any
ring. `MaxErrors` of one makes pruning happen with two rejections. In `Versions`
three versions allow a fork, a merge of its branches, and any two of the requests
that retire versions against each other; two requests with the same rights are
interchangeable (`Requests`). Equal contents make every version share one blob.
One creation: a document deleted and created again reuses version ids, and what then happens to a request that straddles both is left out.
Every race in that component is between two requests. In `Supervisor` two services
give a dependency and its dependent, one optional and one required; the same
safety properties also held with three services of which the middle one is
optional. In `ReplicatorSkips` no remote is removed and the queue never fills, so
that the violation rests on neither. Deadlock is not checked in these
runs: appended entries, calls, breaks and lives are bounded, so an instance that
has used them up stops.

**Fairness.** Weak fairness stands for goroutines that keep being scheduled,
timers that fire, dials and handshakes that end because they have deadlines, and
handlers that return. The drain of a stream link has strong fairness: `writeLoop`
drains at the top of each turn before it can handle a tick, so ticks that fill the
wire cannot starve it. Nothing is assumed of the network except where a liveness
property needs it to hold from some point on: `Calm` in `StreamResume` and `Redial`
(finitely many cuts, failures and drops, never a bound on when). `AckedPublish`
has no fairness: that no publisher depends on its timeout is the invariant
`NothingStuck`, which asks that while a publish has no outcome some goroutine has a
step to take. Publishes, links, breaks and lives are bounded and each such step
uses one of them, or a frame or result under way, up. Callers and publishers are
never forced to call. In `Supervisor`
`Run`'s goroutine and the releases go on and the deadline passes; a Prepare, and the
Stop of a service that was never started, return, because both run on `Run`'s own
goroutine; no other Start or Stop need ever return, and no signal need come.

## What is proved

For every set of connections, ring size, batch, bound and seed that the named
assumptions of `StreamResume` allow:

- `TypeCorrect`: `Spec => []TypeOK`.
- `GapSignal`: `Spec => []NoSilentLoss`. Not inductive alone: reading a frame
  moves the position to the frame's offset, so the entries below must have been on
  the wire before it. That is `WireComplete`, stated for every prefix of a wire, so
  that a cut keeps it. `WireComplete` in turn needs to know where a
  connection's cursor started compared with the position its registration will set
  (`CursorInv`), that a live writer's stream is the current one and its cursor is
  within the log, and that a frame of kind event names an event (`InLog`).
  `IInv` is their conjunction with `PosInv` and the types; `StreamResumeProofs`
  has one lemma per action. The stale-answer check of `connect` is what the case
  `Register` rests on; the decision's comparison with `OldestLocked` turns out not
  to matter for it, because the writer reports an eviction by itself.
- `WiresComplete`: `Spec => []WireComplete`, from the same invariant.
- `Refinement`: `Spec => ImplementsFeed`. Every step maps to a step of
  `StreamFeed` or a stutter; `FInv` adds to `IInv` that a position is held exactly
  when it names a stream, that handled offsets are at or below the position (so
  that a hand-over is of something new), and that the heads an acceptor reports
  are within its log (so that an announcement names a position of the feed).

For any number of services, any of them preparing, any set of optional ones and
both policies (the assumptions of `Supervisor`), `SupervisorProofs` proves every
safety property the run `Supervisor` checks:

- `TypeCorrect` (`TypeOK`), `StopIsCalledOnce` (`StoppedOnce`), `StoppedEventOnce`
  (`OneStoppedEvent`), `RunCleansUp` (`NothingLeftUnstopped`), `CleanMeansClean`
  (`CleanExit`), `OptionalFailuresDoNotCount` (`OptionalNeverCounts`),
  `ServingIsReported` (`ReadyReported`), and the action properties `ReverseOrder`
  (`StopsReversed`) and `ReasonToEnd` (`EndsForAReason`).

All rest on one inductive invariant, `IInv` (TLC checked it on the instance of the
run before it was proved). None of the properties is inductive alone. `Stops` says
for each place of the goroutine of Run whose Stop cannot have been called yet: a
release only in the start phase and only of a service that is marked, the ordered
stop only below `cur`, `releaseUnstarted` only from `cur` on and only outside
`started`. `Reached` is its converse, whose Stop was called. `Ordered` says that
everything above `cur` is dealt with; it is given up once the deadline has passed,
since the ordered stop then skips the rest and calls no Stop any more. `ReverseOrder`
takes from both that, when the ordered stop calls a Stop, the Stop of every later
service that was not released has been called, one that crashed while it ran
included, and has returned or was given up. `Sequence`
says how far prepare and start are, which is what the cardinalities of
`emitAggregateReady` and the `AllFailed` exit need. `Honest` ties the outcome to
the failed services. `Goroutines` says that no two messages in `exits` agree in
service and kind; an injection into `toStart \X BOOLEAN` gives the bound on the
channel. The lemma `ShutdownInv` treats every way into the shutdown at once, and
`StopBelowInv` every way on to the next service of the ordered stop.

For any callers, links and bound on calls, whether or not calls may overlap a
Disconnect (`Serial`), `RedialProofs` proves every safety property of the run
`Redial`:

- `TypeCorrect` (`TypeOK`), `RequestsHaveALoop` (`MarksHaveALoop`),
  `ForgottenIsDown` (`ForgottenStaysDown`), `ClosedIsDown` (`ClosedStaysDown`).

`IInv` adds to them `Attempts` (who may be in a connect attempt), `Held` (the
registered link is alive, a link somebody waits for is not reused, and the link of a
forgotten address is one that a Disconnect under way will close) and `Closing` (a
Close under way has set `n.closed`). `Held` carries the argument: `connect` checks
the registration in the same critical section that registers the link. TLC checked
`IInv` with calls that overlap and three of them. That a fresh `peerState` always
exists is a pigeonhole lemma on `Peers`.

For every bound, ring, queue, error limit and number of links, `AckedPublishProofs`
proves every safety property of the run `Acks`:

- `TypeCorrect` (`TypeOK`), `OkMeansHandled` (`NoFalseOk`), `FramePublishedOnce`
  (`PublishedOnce`), `NothingLeftBehind` (`AckedMeansAnswered`), `PubacksInOrder`
  (`PubacksExpected`), `NoPublisherStranded` (`NoTicketStranded`).

The dialer's side rests on two facts. The frames under way on its link are in
order and not yet acknowledged (`Ordered`); and every offset the outbox cursor has
passed is acknowledged, under way, or past help: skipped by the filter, evicted, or
sent where nothing acknowledges (`Tracked`). So the puback that is read answers the
least frame under way, and resolves its ticket; an entry whose wait was registered
after the writer had passed it is resolved along with it, and is `slipped`. Only a
frame whose write failed on a link without acks is under way although it counts as
acknowledged; it is the first of its link, and `blind`. The acceptor's side: no link
brings a frame before those below it have been begun or can no longer come
(`NoHoles`); so a stream that the memory enters afresh at some frame forgets nothing
that will be asked about (`Remembered`), and what the memory answers is what became
of the frame (`Answers`, `Tickets`). TLC checked `IInv` on the instance of the run,
with a ring of one entry, and by simulation with three entries and two breaks.

`VersionedStoreProofs` proves, for any requests, contents, policies and bounds:

- `RowsWellFormed` (`TypeOK`) and `RefcountsExact` (`BlobsCounted`), by a lemma for
  each transaction body, and one that sorts every action into a read, the body of a
  transaction, the COMMIT or a crash;

and under `OneLife` (the document is created once, every policy keeps a count, as
in the run `Versions`):

- `ConditionalUpdatesSafe` (`NoLostUpdate`) and `HistoryOfDocument`
  (`DocumentHasHistory`). `Life` says that sequence numbers are not reused, that
  the newest version is always a row, and that what a request has read is no newer
  than the counter. Without `OneLife` they do not follow: a document created again
  issues the same version ids once more, so a precondition may name a version of an
  earlier life and a stale prune may empty the new history; and a prune by age
  alone may remove the newest row.

`LiveHeadProofs` proves, under `OneLife` and for any number of requests each of
which may do everything:

- the action property `PruneSparesLiveHeads` (`LiveHeadsRetained`).

The argument is how stale a DAG can be. A cached DAG, or one that may yet be cached,
was read after the body of the last transaction ran (its invalidation moved the
generation), so it lacks at most the version of that transaction, which is the
newest (`Covers`). A request lists versions before it has its DAG, so of what is on
its list and still there the DAG lacks at most the newest (`Lacks`), whatever other
requests append, retire or prune meanwhile. What has children in a DAG has had
children in the rows (`Sighted`), and what was dead when it was listed is dead.
Hence a live head that has never had a child is, for a prune, either missing from
its DAG, and then the newest on its list, which a count keeps; or a head of the DAG
too, and not dead on the list, and then in the retain floor. `Sound` says the same of
every transaction: it appends at most one version, revives none, and removes no such
head but with the document. `HInv` is the conjunction over cache, requests and the
open transaction; TLC checked it on the instance of the run.

Both store modules reason about `ComputePrunable`, whose fixpoint is a recursive
function over `0 .. MaxSeq`: the sequence of rounds is shown to exist, and to lose
versions only, by a least counterexample (lemmas `Least`, `RoundsExist`,
`RoundsNarrow`).

Only model-checked: the liveness properties `CatchesUp`, `Served`, `CloseReturns`,
`DisconnectReturns` and `RunReturns`, and `NothingStuck`, since fairness and
ENABLED are outside the prover's reach. `Replicator` has a run that expects a
violation and no theorem. Every other invariant and every safety action property of the
passing runs is proved.

## Findings

Each is a run that expects a violation; the quotes are in `PROJECT.json`.

1. `Served`: a Dial that overlaps a Disconnect of the same address can be lost.
   The `Redial` run therefore lets no call overlap a Disconnect (`Serial`), and
   there every request is served.
2. `NeverFalseOk`: a stream evicted from the dedupe memory and recreated in the
   middle answers ok to copies of earlier frames that were never handled.
   `NoFalseOk` in the passing run excepts exactly the frames begun before the
   memory was evicted, and the offsets of a second way to a false ok (`slipped`):
   an entry is evicted by another publisher's append while its own publisher is
   between append and registration (`network.go:255-259`); the writer passes it and
   finds no wait to fail; then it is registered, and the cumulative puback of a later
   frame confirms it. `bus-streams.md:829-830` says such a publish fails `evicted`.
3. `EveryFrameHandled`: a frame is remembered before it has room in the puback
   queue; when the link ends while it waits for room, it is never handled, and its
   copies wait for it. `NothingStuck` excepts states with such a frame.
4. `LiveHeadsRetained`: a write transaction invalidates the DAG cache before its
   COMMIT. A DAG built in between is cached without the version that is about to be
   committed; a later prune by age takes the new live head for a version no head
   protects, and deletes it. With a count in the policy the newest version is
   within the count, and `Versions` checks that the property then holds.
5. `SomeLiveHead`: two `Abandon` requests, one for each of two live heads, both pass
   the last-live-head check, which reads before the transaction of `SetLive`
   (`versioned.go:663-723`), and leave the document without a live head, which
   `ErrCannotAbandonLastLiveHead` says must not be.
6. `NothingSkipped`: `push` writes back a cursor computed from one that another
   remote's `trimQueue` has lowered in the meantime; the remote passes over diffs it
   never got.

Observations without a run:

- The acceptor reads the log's head twice in the handshake
  (`network_session.go:365-366`). A gap marker and another entry appended between
  the reads: the marker reaches the dialer as a reset below its position, and the
  dialer closes the link with a protocol error (`RefuseReset`), although
  `bus-streams.md:664` says a gap reaches every stream link as a reset. It redials
  and resumes; nothing is lost in silence, since the position the dialer started
  at is after the marker.
- `Merge` and `Revert` that end between marking old heads dead and appending the new
  one leave the document without a live head (`cut` in `SomeLiveHead`).
- Two overlapping prunes may remove a live version that is a head again: the first
  removes its dead children, and the second, whose DAG still has them, takes it for
  an inner version outside the floor. `LiveHeadsRetained` is about heads that never
  had a child (`bore`).
- `emitAggregateReady` (`lifecycle.go:273-283`) counts an optional service that
  failed in Prepare among the ones that never got ready, but not among the
  started, so the aggregate `ready_reported` event is not emitted in such a run;
  `docs/contracts/serve-lifecycle.md:638-641` says it is. `ReadyReported` excepts
  exactly these runs; without the exception TLC finds it violated.
- A service that reports ready and returns at once may be taken for ready or for
  a start failure: both channels are ready and `select` chooses
  (`lifecycle.go:173-205`). Both are in the model.
- The second signal is looked for between Stops only (`stop.go:52`), not while the
  last Stop or `join` waits; `releaseUnstarted` and `Prepare` run on `Run`'s
  goroutine, so a Stop or Prepare that ignores its context holds `Run` up beyond
  `shutdown_timeout`.
- `Enqueue` on a full queue drops the head without moving the cursors
  (`replicator.go:230`), so remotes skip an entry that was not dropped; a PullOnly
  remote's cursor stays at 0, so nothing is ever trimmed; `RemoveRemote` leaves
  the loop running, and its cursor may become negative.
- A job worker whose claim went stale completes or fails a job that another
  worker has claimed since: `Complete` and `Fail` take the job id alone
  (`go/runtime/job/poller.go:140`). The migrator stores its version after the last
  Up (`go/core/upgrade/migrate.go:240`), so a crash in between runs it again.

- The position advances before the sync handlers run (`network_link.go:478-488`);
  `docs/contributors/architecture/bus-streams.md:371-373` and the comment at
  `network_stream.go:206-207` say it is that of handled events. An application that
  saves `Position()` while handlers run, and crashes, resumes after an event that
  was not handled.
- `handshakeFailed` (`network_session.go:210-218`) and `linkDown`
  (`network_link.go:513-518`) write the address's `LinkState` although another link
  may have taken the address since: it may say disconnected while a link is up.
- `sameResume` compares positions by value: an answer is also taken when the
  position moved and came back. The move is then announced or none, so the feed's
  promise holds.
- The comment at `network_ack.go:118-119` says a wait is registered "before any
  writer can send" the entry; a writer that is draining already can. The send then
  registers the entry itself, and `NothingStuck` covers it; an eviction in the same
  window is the second part of finding 2.

## Not modelled

Wire encoding, capability negotiation, authentication, per-link subscriptions,
several addresses at once (their states are disjoint but for the publish that
waits for all of them), the bus's own lock (publishers share it, `bus.go:264`; an
append is atomic under the lock of the ring log, and append and registration are
separate steps), the order in which the adapter's locks are taken, the counters of skipped entries on legacy links, `Close`'s last
failing of open waits. In the versioned store: several documents (they share only
blobs), the in-memory backend, a COMMIT that fails, SQL and hashing. In the
supervisor: event payloads, a service that leaves the registry during the run,
exit codes. In the replicator: pull and apply,
statuses, Stop. And every component of the inventory without a module; most of
the repository (command lines, clients of model providers, storage adapters,
transports, templates, generated code, SDKs) is sequential code whose correctness
is about data, and there a model would restate the program.

## Plan

1. `Replicator`: which diffs a remote is sure to get when no `trimQueue` falls
   between the read and the write of its push.
2. Not started: the in-memory bus (`bus.go`): may `Close` return before an async
   handler starts (`bus.go:326` against `:330`), and does a sync handler that
   publishes deadlock with a waiting writer (`bus.go:264`); the job poller; the
   migrator.
