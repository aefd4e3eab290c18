# A TLA+ model of baml-rest

baml-rest serves BAML functions over HTTP. The host process (`cmd/serve`) keeps
a pool of worker subprocesses; a request is given to a worker over gRPC, the
worker runs a BuildRequest orchestration against an LLM provider and streams
frames back, and the pool forwards them to the HTTP response, restarts workers
that fail and retries requests on others. This directory models that core: the
counter store the workers share, the worker pool with its restarts, the stream
of one request from the orchestrator to the consumer, the host's handshake with
a worker, the choice of LLM clients, and the HTTP client below the
orchestrator.

    cmd/serve ──► pool.Call / CallStream ──gRPC──► worker handler ──► client resolution
                     │  restarts, health, shutdown        ▲    │             │
                     │  handshake: attach, extra conns ───┘    │             ▼
                     └── SharedStateStore ◄──FetchAdd RPC──────┘       orchestrator ──► llmhttp ──► provider

## 1. Inventory

| component | state | operations | hard behaviour | what makes it correct |
|---|---|---|---|---|
| shared-state store (`workerplugin/sharedstate.go`) | counters, idempotency cache, scope objects with a mutex and a `deleted` flag | `FetchAdd`, `DropScope`, TTL sweeper, `Close` | lock-free maps touched by RPC handlers, the pool and the sweeper at once; RPCs of abandoned attempts come late; counters wrap | a replay gets the value of the first call and advances nothing; different operations get different slots; no cache entry without an owner; calls return |
| worker restart (`pool/pool.go`, `worker_start_*.go`) | slots, handles with `healthy`, `restarting`, `restartDone`; `restartWG`, `restartPending` | `dispatchRestart`, `restartWorker`, `startWorkerWithStop`, `reapWorkerStartResult`, `finishRestart` | many reports of one failure, replacement started before the old one is killed, starts that time out and answer later, Close in between | no process lost, no worker killed for what another one did, no waiter forgotten |
| pool requests, health, shutdown (`pool/pool.go`) | in-flight counts, `draining`, `closed`, checker position | `beginLogicalRequest`, `getWorkerForRetry`, `awaitRestart`, `awaitAnyRestart`, `checkHealth`, `checkHungRequests`, `Shutdown`, `Close` | decisions on health flags and handles that are stale by the time they are used; waits on restarts that are being published | broken slots recover, drains are graceful, Close returns and leaves nothing |
| stream forwarding (`pool.CallStream`, `pool.Call`, `cmd/serve/streamwriter.go`, `workerplugin/grpc.go`, `worker/stream.go`) | per request: attempt, first byte, reset flags, drain goroutines; consumer's accumulated raw text and metadata | forward, retry, reset injection, metadata stamping, drains | a worker dies mid-stream, a caller cancels at the same time, channels without a context arm | what a client holds comes from one source; one terminal frame; no worker is reported for its caller's cancellation; nothing is left blocked |
| orchestrators (`bamlutils/buildrequest`, `bamlutils/retry`) | heartbeat gate, `sawStreamFrame`, bounded output channel | planned metadata, heartbeat, partials, resets, outcome, terminal | fallback children and retries after part of the output was sent; drops on a full buffer | reset exactly when something visible must be taken back |
| round robin (`roundrobin/*`, `remote_advancer.go`) and client / fallback resolution (`client_resolution.go`, `fallback_resolve.go`, `legacy_child_registry.go`) | the host's counters; per request: the client looked at, the plan | `Resolve`, `ResolveEffectiveClient`, `ResolveFallbackChainPlanForClient`, the preflight walk | the same registry read by two pieces of code; remote calls that fail after they counted; negative starts | a request tried again takes the same clients and one turn; no override is refused by one reader only |
| LLM HTTP client (`llmhttp`) | one-shot gate, deadline windows, protocol map, pooled requests, responses, buffers and connections | `RoundTrip`, `Read`, watchdog, `resolve`, `executeBorrow`, `Release` | a timer callback that is already running, a probe shared by callers that give up, a Do left behind by its caller | every byte delivered and the right deadline reported, one probe per origin, one user per pooled object, no dirty connection reused |
| host handshake (`plugin.go`, `grpc.go AttachSharedState`) | reverse server, attempts and their helper goroutines, results | accept, attach, dial with retries, collect, abort | a dial that cannot be interrupted comes back late | every connection is kept or closed, the call returns, a worker is attached or nothing is left |
| others: in-process workers, stderr tail, SSE parsing, HTTP routing, parse and error mapping, memory limit, native engine, code generators, dynclient | – | – | text processing, I/O or build time | – |

`PROJECT.json` lists the same components with their files, and under `hazards`
the places of the code where an order of events nobody wrote a test for bites.

## 2. Modules

| module | models | composed with |
|---|---|---|
| `IdempotentCounter` | what the store promises: each live (key, operation) draws one slot, answers repeat it, slots are handed out in turn | abstract specification |
| `SharedStateStore` | `sharedstate.go`, one step per map operation or atomic store | implements `IdempotentCounter` (`ImplementsContract`) |
| `SharedStateStoreProofs` | – | theorems about `SharedStateStore` |
| `WorkerRestart` | `restartWorker`, worker start, reaper | extended by `WorkerPool` |
| `WorkerPool` | requests, health checker, Shutdown and Close of `pool.go` | extends `WorkerRestart` |
| `StreamOrchestrator` | the frames `RunStreamOrchestration` and `RunCallOrchestration` emit | extended by `CallStream` |
| `ClientView` | what `CallStream` promises the reader of a request: pieces of one upstream in order, taken back as a whole, one answer that belongs to them | abstract specification |
| `CallStream` | transport, `Pool.CallStream`, and its consumers `consumeStream` and `Pool.Call` | extends `StreamOrchestrator`, implements `ClientView` (`ImplementsClientView`) |
| `StreamBody` | `exact_stream.go` and `idle_timeout.go`: the one-shot round trip, both deadline readers, the watchdog | – |
| `ProtocolCache` | `cache.go`: lookup, singleflight probe, copy-on-write install | extended by `UnaryCall` |
| `UnaryCall` | `executeBorrow`, `fast_backend.go`, `Response.Release`, `own` | extends `ProtocolCache` and implements it (`CallsUseCache`) |
| `HostHandshake` | `WorkerPlugin.GRPCClient`, `dialBrokerConnWithRetry`, `AttachSharedState` | – |
| `ClientResolution` | `roundrobin.Resolve`, `ResolveEffectiveClient`, the fallback plan and its preflight | draws from the contract of `IdempotentCounter` |
| `WorkerPoolProofs`, `CallStreamProofs`, `StreamBodyProofs`, `ProtocolCacheProofs`, `UnaryCallProofs`, `HostHandshakeProofs`, `ClientResolutionProofs` | – | theorems about the module each extends |
| `MCSharedStateStore`, `MCWorkerPool`, `MCLLMClient`, `MCWorkerWiring` | instances for TLC | |

### SharedStateStore

`counters`, `idem` and `scopes` are the three `sync.Map`s. A scope object is
its `mu`, `keys`, `last` and `deleted`; an entry is its `once` and `previous`.
Callers run `FetchAdd` in the code's order: load or store the scope
(`LoadScope`, `StoreScope`), touch it, lock, look at `deleted` and either start
over (`RetryRegister`) or load or create the entry, pass the once, draw. The
critical section of `registerAndLoadIdem` is one step; the deletions of
`DropScope` and of the sweeper are one step per key with the mutex held, since
the idem map is visible without it. `counterFor`'s load and `LoadOrStore` are
one step: a loser of that race sees the winner's counter in both. The clock is
an external `Tick`; the sweeper runs at its interval after the last pass.

### WorkerRestart and WorkerPool

A handle is a number, in the order in which processes were started. `proc` is
what the operating system knows: none, booting, up, broken, killed. A restart
goroutine walks through `restartWorker`'s labels. A published `restartDone`
channel is `chan[h]`; closing it sets `fired` for every request that holds it,
so a later channel of the same handle is not mistaken for it. Requests take the
path of `Parse` and of `CallStream`'s set-up: admission, `getWorkerForRetry`
with its two waits and one yield, the attempt, the report of a failure, the
retry.

Abstractions: the rotation `p.next` is any healthy worker; `awaitAnyRestart`'s
snapshot over the workers is one step; the signals Close sends (done, drain,
shutdown context) are one step; the decrement of `restartPending` and
`restartWG.Done` are one step; the cancellation of a hung worker's requests is
the failure they see once it is killed; how long a request is in flight is left
open, so any request without a first byte may be found hung. `client.Kill` of
a start that was given up either ends the process or comes before the process
exists, in which case the reaper ends it.

`isRetryableWorkerError` judges an error by its status code, or, where it has
none, by its text. With a code the error is one of the transport, and the worker
is gone (`WorkerFailed`, `AttemptFails`) or the caller cancelled
(`AttemptCancelled`). An error of the application, however, reaches the pool as
bare text (`grpc.go:285, 333-334`), and one that contains "connection reset",
"transport is closing" or "error reading from server: EOF" is taken for a failure
of the worker (`pool.go:2264-2274`): the request is retried and the worker, which
works, is marked unhealthy, restarted and killed. The text is not modelled;
`AttemptMisread` takes this step for any error of a working worker. The comment of
the function (`pool.go:2180-2182`) says that it tells an infrastructure failure
apart from "an application-level error from BAML/LLM", and the LLM client does
produce such texts (`llmhttp/errors_test.go:278, 290`). `suspect` is therefore the
set of workers that gave cause to be replaced: they broke, hung, or sent such an
error. What the properties exclude is that anything else - a caller's
cancellation, a late report about a predecessor, an outdated snapshot - costs a
worker its slot.

### StreamOrchestrator and CallStream

A frame is reduced to its kind, the attempt and window it comes from, the
number of its delta, its reset mark and the attempt it is stamped with. A
*window* is one upstream call: a fallback child of one retry. Child handoff and
the retry callback do the same to the stream and are one boundary. `out` is the
orchestrator's channel (`OutCap`, 100 in the code): partials and heartbeats are
dropped when it is full, resets and terminal frames wait. The bridge, both gRPC
loops and the client's channel are one FIFO, `wire`; it is lost when the worker
dies. The consumer takes a frame in the step that hands it over. Requests have
a metadata plan and ask for raw text. Marshalling does not fail. `TakenFor` says
what an error frame may be taken for: one of the application, whose text is not
modelled, also for a failure of the transport or a cancelled context. Its worker
then joins `broken`, the set of workers that gave cause for a report: those that
died, closed their stream early, or sent such an error.

`ClientView` has no workers, queues or drops. The refinement mapping takes the
attempt for its round, what `consumeStream` has accumulated for its text, the
final for its answer, and calls the reader open while it reads and has not been
given a terminal frame. A step of the view appends one piece that continues the
text, or replaces a text that is left over from earlier attempts, takes the whole
text back, answers, closes, or begins a new round; no answer is followed by
another round. A piece keeps its number in its window, so a reader may miss
pieces (the drop on a full buffer) and may not see one twice or out of turn.

### StreamBody

`body` says how the stream is wrapped: by the exact reader with a first-body
and/or an idle deadline, or by the legacy reader with an idle deadline. `Read`
is one step per point where another goroutine can come in between: the
underlying read, the first-byte swap, the re-arm, the callback, the look at
`fired`, the sentinel. A *window* is one arming of the timer; an expired window
is a callback that has been started and has not taken the lock. The generation
of the watchdog is `gen`; the legacy reader has none and `Fires` shows it. The
upstream may send, stall, end or break at any time. Bytes are counted, not
spelled. The exact reader is also there without any deadline, for its
`onFirstBody`; with none of the three the code leaves the body unwrapped.

`cutBy` remembers which deadline fired and how many bytes had been delivered by
then. `timedOutPhase` is stored by `onDeadline` after the watchdog has set
`fired`. A `Read` that comes back by itself in between with no bytes and looks at
`fired` (`ReadZero`, `ReadSentinel` before `CutPhase`) reports the first-body
sentinel for an idle timeout, and `nativeserve/execute/stream.go:302-309` classifies
the failure by that sentinel. The comment at `exact_stream.go:497-501` argues that
the store is "causally ordered" before the read because only the closed connection
unblocks it, which leaves this read out: the run `BodyPhase` shows it.
`ReadsTruthful` says what does hold of the sentinel (`SentinelEarned`): the idle one
always means that bytes were delivered; a first-body deadline is reported as idle
only if it fired between the arrival of the first byte and the re-arm; and a read
that the cut itself ended never reports an idle timeout as a first-body one. That a
read which has returned bytes and not yet re-armed can still be cut is so in both
readers, and in the legacy one also after the re-arm; no property denies it.

### ProtocolCache and UnaryCall

A call walks through `resolve` (`pc`) and then its lane (`lane`). A flight is
its own goroutine: re-check, probe, lock, load and copy, store, and delivery to
the channels of the calls that joined. An entry has an identity, since it owns
the connection pools. Pooled requests, responses and drain buffers are
objects with a count of how often they lie in their pool; `Get` takes the
lowest, since `sync.Pool` objects of a kind are alike. Connections remember
whether bytes of an old answer are still on them. `DoDeadline`
is external: it begins, and comes back some time later or never. The context
of a call matters where the code looks at it: in `resolve` and in the
cancellable lane. Buffers above `maxPooledFastBody` are dropped by the code and
not modelled; `MaxConns` does not bind; the net/http lane is one step.

### HostHandshake

The host (`hpc`), the worker's side of the attach call (`wpc`), one dialler per
extra connection (`dpc`) and one helper goroutine per attempt (`helper`). The
send on the unbuffered `done` and its receipt are one step. `sock` is the
connection an attempt made, and the results channel holds at most one entry per
dialler. A dial may never come back. A call to a worker whose attach handler is
missing, an attach that fails and a cancelled host are all in.

### ClientResolution

A *try* is one worker resolving one request. It unwraps round-robin clients one
round of the loop at a time, so that tries interleave at the host's counters,
and then classifies the children of a fallback chain. `FetchAdd` is the
contract that `SharedStateStore` is shown to implement: one value per (client,
request). Providers are folded to what the code tells apart. An override has a
provider, a strategy and a start, each absent, invalid or one of a few values.
The resolver is always given an advancer and a support predicate, as the
generated dispatch does; registry names are unique.

## 3. Runs

Passing runs:

| run | checks | shows |
|---|---|---|
| `SharedStateDrop` | `TypeOK`, `IdemImpliesScope`, `FetchAddReturns` | without the sweeper, drops against concurrent and late calls leave no orphan, and calls return |
| `SharedStateSweep` | `ReplayStable`, `RotationNotSkipped`, `NoSlotReuse`, `ImplementsContract` | with sweeper, drops and Close together the store is an idempotent counter |
| `PoolChecker` | `TypeOK`, `NoLeakedWorker`, `RegisteredRestartsDone`, `DrainIsGraceful`, `GoodWorkersSurvive`, `SwapsAreUpgrades` | health and hung checks, failing and late starts, Shutdown and Close; and a slot whose worker is replaced twice, with late reports about the first |
| `PoolLiveness` | `WaitersReturn`, `CloseCompletes`, `SlotsRecover` | waits for restarts end, Close returns, and in a pool that stays open a broken worker is found and replaced |
| `PoolTwoSlots` | `GoodWorkersSurvive`, `NoLostWakeup` | retries and waits over the restarts of two slots; what is reported about one worker does not reach the other |
| `StreamRequest` | `TypeOK`, `OneSource`, `TerminalDelivered`, `RestartJustified`, `FirstByteTruthful`, `MetadataPaired`, `NoReplay`, `StreamsReleased`, `ImplementsClientView` | one request over two attempts and two windows each, streamed or unary, with every failure of the list above |
| `LLMClient` | `ReadsTruthful`, `OneShot`, `ReadsReturn`; `OneClientPerOrigin`, `ExclusiveUse`, `CleanPool`, `NothingLeaked`, `CancelReturns` | a streamed body under its deadlines; unary calls from the probe to the release of the body |
| `WorkerWiring` | `DialsAccounted`, `AttachedOrClean`, `HandshakeReturns`; `PreflightComplete`, `RotationStable` | the handshake with dials that fail, hang or come late; client resolution by several tries of a request and under overrides |

`LLMClient` and `WorkerWiring` each hold two parts that share no variable. The
variable `part` says which of them a behaviour is about; the other rests in an
initial state. This is one question per half, asked in one run. The types of
their modules are not checked again here, because they are proved (section 4).

Runs that exhibit a disagreement between the code and its own comments:

| run | property | what happens |
|---|---|---|
| `SharedStateOrphan` | `IdemImpliesScope` | the sweeper condemns a scope, DropScope removes it, a late FetchAdd installs a new one, the sweeper's `scopes.Delete(opID)` removes the new one: its cached entry has no owner and is never reclaimed |
| `PoolUntracked` | `CloseKillsAll` | a request that waits for a restart starts one itself, outside `restartWG`; Close returns before it, with its worker process running (it is killed later) |
| `StreamRearm` | `HungDetectionRearms` | `gotFirstByte` survives the worker's move to the next child, so a stall of that child is not detected |
| `BodyPhase` | `PhaseCorrect` | the idle deadline fires, a read returns without bytes before the callback stored the phase, and reports a first-body timeout |

### Bounds

The store runs use two callers, one key and one operation: the races are
between two calls of one operation and its cleanup. Entries, not operations,
draw from the counter, so a slot given twice shows on two entries that the
operation had one after the other. The modulus 8 with seed 7 makes the counter wrap at the first
draw. Three scopes and three entries allow two rounds of eviction and late
registration; the clock goes to twice the time the sweeper needs. `MaxPlain`
bounds the calls without an operation id.

The pool runs use one slot, since slots interact only through
`awaitAnyRestart` (`PoolTwoSlots`) and Close; two restart goroutines are enough
for one to wait for the other; a third handle allows a second replacement of a
slot. Which of the costly parts are on together - sweeps, attempts per request,
failing starts, errors that are misread, processes started, Shutdown and Close -
is the variable `config`, chosen from `Configs` in the initial state. `PoolChecker`
has two configurations: the checker with somebody who closes the pool and one
replacement, and two replacements in a pool nobody closes. Misread errors are
on in both; the other runs leave them out, since a misread worker is replaced
along the path of a broken one and adds no wait that one does not cause. `CHECK_DEADLOCK` is off everywhere: all of
these systems come to rest when requests have ended and bounds are used up.

The stream runs use two attempts, two windows and two deltas: a retry inside
the worker and one by the pool, each after zero, one or several visible frames.
A capacity of two makes both channels full.

`LLMClient`: two racing round trips, two bytes (a first and a later one, so that
both deadlines and a superseded window of each occur), all wrappings; two calls
that ask for one origin or for two, with two objects of each pool and two
connections, so that an object returned too early is handed to the other call.
The cache runs in mode "auto", the one that probes. `WorkerWiring`: two extra
connections with two attempts each, so that one is kept while the other is late;
three tries of two requests over the counter of a rotation seeded with -1 and
reduced modulo 8; one try under any two overrides of four clients out of a set
that contains invalid values and makes the graph cyclic. Registries with more
overrides add no new case: the walk and the loop look at one client at a time.

### Fairness

Weak fairness of a goroutine stands for the Go scheduler. Strong fairness is
used where a goroutine waits for a mutex that others take repeatedly
(`sync.Mutex` hands over to a starving waiter): the register and drop sections
of the store, the read side of `restartMu` and Close's write side. The health
ticker keeps firing, so a sweep that can start again and again does. A worker
start ends, because `WorkerStartTimeout` bounds it. Nothing is assumed of
providers, of callers, of the arrival of RPCs or of the clock; a caller may wait for a stalled
provider for ever, so `StreamsReleased` speaks of requests that were cancelled
or are over.

`WaitersReturn` makes one exception: while the health checker keeps dispatching
restarts whose starts all fail, a request may find one visible restart after the
other and stays until its caller gives up, which is what the code does.

In `LLMClient` the reading goroutine runs, and wakes when its connection is
closed or its context cancelled; timers expire and their callbacks run; callers
are scheduled. Neither bytes, nor probes, nor `DoDeadline` are assumed to come
back, so `CancelReturns` and `ReadsReturn` rest on the client alone. In
`WorkerWiring` the host and its diallers run, and with them the attempt timers
and the attach time-out; dials and the worker may hang for good.

## 4. Proofs

Each proof module has one inductive invariant, a conjunction of named parts. It
was checked with TLC on the instance of the corresponding run before it was
proved, and one lemma per part shows that every action preserves it. The
constants are arbitrary but for the named assumptions of the modules, which TLC
evaluates.

### The store

`SharedStateStoreProofs`, for any sets of callers, keys and operations, any
modulus, seeds, delta, TTL and bounds that satisfy `StoreAssumption`:

- `TypeCorrect`: `Spec => []TypeOK`. Counters and results stay in the word.
- `ReplayIsStable`: `Spec => []ReplayStable`.
- `RotationIsNotSkipped`: `Spec => []RotationNotSkipped`.
- `StoreImplementsContract`: `Spec => ImplementsContract`, the refinement of
  `IdempotentCounter`.
- `DropReclaims`: `ASSUME TTL = 0 PROVE Spec => []IdemImpliesScope`.
- `SlotsAreNotReused`: `ASSUME SlotBound PROVE Spec => []NoSlotReuse`.

What a replay returns is the result of the
entry its caller holds, so the argument is about entries. The invariant
`TypeInv /\ CacheInv` says: the locals of a goroutine are set where it uses
them (`LocalsOK`); an entry belongs for good to the address it was created
under, and the map and all callers agree (`EntryAddresses`); while an operation
is live - its DropScope has not begun and the sweeper did not evict it - every
entry of it is the one in the map, so there is one (`LiveEntryCached`); one
caller is inside an entry's once and results are only read after it
(`OnceProtocol`); what was returned is the cached result (`ReturnsCached`); the
number of advances is 1 if the cached entry is done and 0 before
(`AdvancesCached`). The interesting steps are `CreateEntry`, which needs
that the map was empty, and `SweepDeleteScope` and `SweepKey`, which need that
the sweeper marked the operation evicted before it deletes.
`LocalsOK` carries that fact. The refinement uses the same invariant: a draw
inside a once is the contract's draw because the entry is the live one,
`DropLoadAndDelete` and `SweepCondemn` are its expiry, and every other step stutters.

`DropReclaims` has the hypothesis that the sweeper is off, the constructor's
meaning of a TTL of 0, because with the sweeper the property is false: the run
`SharedStateOrphan` shows it. `DropInv` says that a cached entry's key is
registered with a scope that is in the map or in the hands of DropScope, and
that a caller about to register holds such a scope or one whose `deleted` flag
sends it back. `SlotBound` says that the delta is 1, which is what
`worker/sharedstate.go:76` sends, and that fewer draws are made than the word
has values, 2^64 in the code; past that a counter does repeat itself. `Aged`
measures how far the counter has moved on from the value of each finished entry.

### The worker pool

`WorkerPoolProofs`, for any sets of slots, handles, requests and restart
goroutines and any configuration that satisfy `RestartAssumption` and
`ConfigAssumption`:

- `PoolTypeCorrect`: `Spec => []TypeOK`.
- `NoWorkerIsLost`: `Spec => []NoLeakedWorker`.
- `GoodWorkersAreSpared`: `Spec => []GoodWorkersSurvive`.
- `ShutdownIsGraceful`: `Spec => []DrainIsGraceful`.
- `CloseWaitsForRestarts`: `Spec => []RegisteredRestartsDone`.
- `NobodyMissesAWakeup`: `Spec => []NoLostWakeup`.
- `OneRestartPerHandle`: at most one goroutine is between the compare-and-swap
  and `finishRestart` of a handle.
- `SlotsOnlyImprove`: `Spec => SwapsAreUpgrades`, an action property.

`PoolInv` says: the in-flight counter is the number of active requests, and a
pool seen drained has none (`Admission`); whoever is between dispatchRestart's
check and its `Add` holds `restartMu`, so nobody is there once Close went
through the barrier (`Barriers`); the `restarting` flag excludes, and every
published channel has a goroutine that will close it (`GuardHeld`); requests,
restarts, checker and Close only handle workers that had a slot
(`ServedPlaces`), while a worker that is being started belongs to one goroutine
and is unknown to everybody else (`Newborn`); whoever is on the way to kill a
worker that had its slot has a reason: the worker broke, hung, or sent an error that
was taken for the transport's, or the pool was closed (`Blamed`). Misread errors
are in the specification that is proved about, with no bound on their number; the
reason is recorded in the step in which the pool sees it, so the proof has to
show that no other path - a report of a cancelled caller, a restart of a
predecessor, the second look of the checker - ends in a kill without one. `Newborn` is what makes the hot swap and the reaper safe: a late
start cannot be a worker in service. The swap needs that
the handle is still in its slot (`MayInstall`), which another restart of the
slot may have changed since the re-check; otherwise the worker it would displace
is lost. `SlotsOnlyImprove` puts four parts together: by `Blamed` the worker that
loses its slot gave cause, by `Newborn` its replacement is alive and was never in
service, and by `StartedForSlot` it was started for the very slot it gets,
because `id` is passed down from the failed handle and neither changes while the
start takes place. `ReplacementSteps` sorts all steps by what they do to slots and
replacements, so that both arguments look at five cases.

### One request

`CallStreamProofs`, for any number of attempts, windows and deltas, any
capacities, both modes (`OrchestratorAssumption`, `CallStreamAssumption`):

- `CallStreamTypeCorrect`: `Spec => []TypeOK`.
- `OneSourceAtATime`: `Spec => []OneSource`.
- `CallerIsTold`: `Spec => []TerminalDelivered`.
- `OnlyBrokenWorkersReported`: `Spec => []RestartJustified`.
- `FirstByteMeansProgress`: `Spec => []FirstByteTruthful`.
- `MetadataOfOneAttempt`: `Spec => []MetadataPaired`.
- `ClaimedStreamsNotReplayed`: `Spec => []NoReplay`.
- `ReaderIsServed`: `Spec => ImplementsClientView`, the refinement of
  `ClientView`.

The properties are about what the consumer has; the proofs are about what is
still under way. The frames of an attempt are numbered along the way, the one
being forwarded, the transport, then the orchestrator's channel
(`First`, `Last`, `At`), so that moving a frame from one queue to the next
changes nothing. `Blame` and `EndsWell` say that error frames of the transport
stand for a broken worker or a cancelled caller, that the pool is on its way to a
report only about a worker that died, closed early or was misread, and that a
stream nobody gave up on ends with a terminal frame: a silent end blames rightly. `Paired` says that
in a call the planned metadata goes before the outcome. `Sources` is the core
of `OneSource`: behind every partial, in a queue or with the consumer, a frame
of a later window comes only after the reset marker of the partial's own
window, and if the marker is not there yet the orchestrator will still send it
(`Behind`); what the consumer holds is of this attempt unless a reset is on its
way (`Fresh`). It rests on `sawStreamFrame` being set exactly when a partial was
queued, and on the marker being sent with a blocking send.

The refinement needs more than `OneSource`, which says nothing of the order of
pieces nor of when they may be replaced. `Ordered` says that the partials of a
window are under way in the order of their numbers, that none is ahead of what
the upstream has produced, and that what the consumer holds of the window comes
before all of them. `Superseded` says that what is held when an attempt begins is
of earlier attempts (`AllOlder`), that this stays so until the injected reset has
gone out, and that any reset that is not a marker of the orchestrator is that one.
`ViewForward` then shows that a delivered frame continues the text, takes it back
or replaces an older attempt's, and `ViewStep` that every other step is an end, a
new round or invisible. A round after an answer is excluded because a terminal
frame ends the loop of attempts.

### The LLM HTTP client

`ProtocolCacheProofs`, for any finite set of origins, any set of calls and each mode:

- `OriginProbedOnce`: `CacheSpec => []OneClientPerOrigin`.
- `DecisionsStick`: `CacheSpec => EntriesStick`, an action property: no step
  replaces or loses a published entry.

Neither is inductive, since an entry travels through the copied map of an
install, the flight, a channel and the caller. `CacheInv` says: at most one
flight holds the install mutex, and it is one that is at the load or the store;
the map a flight copied is the current map as long as it holds the mutex, so its
store changes one origin only; an origin has been probed once if it has an entry
or its flight is past the probe, and not at all otherwise; a flight
that is done holds the published entry, and so do the channels and the callers.
The interesting steps are `FlightStore`, which needs the exclusion of the mutex,
and `FlightRecheck`, which needs that an origin without an entry was not probed.

`UnaryCallProofs` shows `UnarySpec => CacheSpec` (`CallsUseCache`): a step of a
unary call is a step of the cache or leaves its variables alone. With it the
cache's theorem carries over to the calls (`CallsShareClient`). It also proves,
for any calls, objects and finite set of connections:

- `UnaryTypeCorrect`, `OneUserAtATime` (`ExclusiveUse`),
  `ReusedConnectionsAreClean` (`CleanPool`), `EverythingIsReturned`
  (`NothingLeaked`).

`UnaryInv` reads off a call's place what it holds, a Do left to the cleanup
goroutine included (`LaneHolds`), and then counts: an object is in its pool once
or one call holds it, a busy connection has one owner.

`StreamBodyProofs`, for any number of round trips and bytes:

- `StreamTypeCorrect`, `OneRequestGoesOut` (`OneShot`), `ReadsAreTruthful`
  (`ReadsTruthful`), from `StreamInv`: the winner of the one-shot gate is alone
  and its place says which callbacks ran; bytes that arrived are delivered or in
  Read's hands; every error is traced to the upstream, the owner or the deadline.
  `WindowsTraced` relates windows to the reader: the running timer and expired
  windows are of generations up to `gen`, and while a first-body window of the
  current generation can still fire nothing was delivered, because a read re-arms
  before it delivers. `CutTraced` follows the deadline that fired (`cutBy`) through
  the recorded phase and the closed connection to the sentinel.

### The handshake

`HostHandshakeProofs`, for any number of extra connections and attempts
(`HandshakeAssumption`):

- `HandshakeTypeCorrect`, `NoConnectionIsLost` (`DialsAccounted`),
  `AttachesOrCleansUp` (`AttachedOrClean`).

`HandInv` says that a connection which left its helper is in exactly one place,
that diallers never go back to an attempt, and that the results received and
waiting are the diallers that reported, each once.

### Client resolution

`ClientResolutionProofs`, about `ResolutionSpec`: any clients, client graph,
registry of overrides (`Entries`), client asked for, finite set of tries,
requests, seeds and counter width (`ResolutionAssumption`):

- `ResolutionTypeCorrect`: `ResolutionSpec => []ResolutionTypeOK`.
- `PreflightCatchesAll`: `ResolutionSpec => []PreflightComplete`.
- `RotationIsStable`: `ResolutionSpec => []RotationStable`.

`Reachable` is the least set that holds the root and is closed under the
children of strategy clients, which is what the walk with its visited set
computes. `PreflightInv` says that between two rounds on a child Resolve stands
on a client of that set, and `RefusalsAgree` that what Resolve refuses at a
round-robin client the walk refuses there, although the two read an empty
provider differently.

Two tries of a request may be anywhere in their walks, and a draw by one of them
is a draw for both. `TurnsFrom(r, x)` is therefore the set of clients request r
comes to from x in the turns it has taken so far, by whichever try. It only
grows, because the host forgets nothing (`TurnsAreKept`); it holds at most one
client that is not a round robin, because the host gives one answer per client
and request (`OneLeaf`). `RotationInv` says that every try walks inside it, that
the effective client is its end (`AlongTurns`), that each child behind the
position was classified by the end of its own walk or by its provider
(`SettledSoFar`), and where a try can have stopped (`InPlace`). Two tries with a
plan then have the same effective client, have stopped at the same child and
agree on each child before it. For the counters, `DrawCounts` shows that a
call which counts adds a request that had not drawn before, and `ModSuccessor`
that counting modulo the width is counting and then cutting.

The theorem's first half is about compiled clients: a client in the request's
registry without a start is drawn at random on each try, so its outcome is not
stable, by design of `selectIndex`.

### Only model-checked

- Liveness (`FetchAddReturns`, `WaitersReturn`, `CloseCompletes`,
  `SlotsRecover`, `StreamsReleased`, `ReadsReturn`, `CancelReturns`,
  `HandshakeReturns`): fairness and ENABLED are out of the prover's reach.

Induction over data is used once, in `UnaryCallProofs`, as a least
counterexample over the natural numbers: the pool's `Get` takes the lowest
object, so that one exists has to be shown.

## 5. Not modelled

- In `WorkerPool`: `KillWorkerWithInFlight` (a debug entry point), metrics,
  stats and the GC fan-out; the restart a drain goroutine dispatches after its
  request has ended (the decision is in `CallStream`, as `Drain`).
- In `CallStream`: the text of partials. The gap that a dropped partial leaves
  (`trySendPartialShared`) shows in the numbers of the pieces a reader holds and
  is allowed by `ClientView`; whether text with a gap still parses is not asked.
  Also left out: streams through legacy BAML children; unary calls bridged over
  the stream path.
- In `StreamBody` and `UnaryCall`: exact unary requests, URL rewriting, SigV4
  signing, AWS event streams, header comparison beyond match or mismatch, the
  classification of transport errors, the insides of net/http and fasthttp.
- In `HostHandshake`: the spreading of calls over the connections
  (`multiconn.go`), whose only state is a counter.
- In `ClientResolution`: retry policies, metadata wording, the registry entries
  built for a legacy child, provider spellings, duplicate names, a resolver
  without an advancer (a random draw).
- The generated producer behind `worker/stream.go:205`, whose reaction to a cancelled context
  is not in the repository's own code.
- Most of the repository's lines: the native engine (`internal/debaml`), the
  generators and source rewriters under `cmd/`, generated adapters and protobuf
  code, Unicode tables, SSE and JSON parsing. They are functions from text to
  text without state of their own; a TLA+ version of them would repeat the code
  line by line, and the repository checks them differentially against BAML.
- The other components marked `not_modelled` in `PROJECT.json`, for the reasons given there.

## 6. Plan

1. Retry policies, and the late restart report of a drain goroutine as an
   action of `WorkerPool`.
2. What the accumulated raw text of a slow client is worth after a drop, which
   needs the text of partials.
3. A run that exhibits an application error taken for a worker failure
   (`pool.go:2180-2182` against `2264-2274`), which the model contains and no
   property of a run is spent on yet.
