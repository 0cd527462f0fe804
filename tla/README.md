# Verification of capnweb-go

TLA+ models of the RPC sessions of capnweb-go and of the machinery around them,
checked with TLC on small instances and, for the properties that matter most,
proved with TLAPS for every value of the constants. All line numbers are those of
the repository's `src/`.

- [1 The system](#1-the-system): components, state, operations, what is hard
- [2 The modules and the code](#2-the-modules-and-the-code)
- [3 What the runs check](#3-what-the-runs-check): bounds, fairness
- [4 What is proved](#4-what-is-proved)
- [5 Findings](#5-findings)
- [6 Only model-checked, not modelled, and why](#6-only-model-checked-not-modelled-and-why)
- [7 Plan](#7-plan)

## 1 The system

capnweb-go is an object-capability RPC library: two peers hold a `Session` each,
connected by a transport. A value that cannot be copied is *exported* under an ID;
the other side *imports* it and holds a `Stub`; calls on a stub are pushed as
messages, their results are promises, and disposing of a stub sends a release.

```
 application ──calls──> Stub, Promise, PipelineManager, subscriptions, streams
                          │  Call/Dispose/Clone        │ resolve/reject
                          v                            v
                        Session ── exports, imports ── PromiseResolver
                          │  Send        ^ messageLoop: one goroutine per session
                          v              │
                        Transport: memory │ HTTP batch │ WebSocket │ custom
                          (TransportManager picks, RateLimiter, SecurityManager and
                           ResourceManager guard, PerformanceMonitor counts)
```

### 1.1 Components

| component | state it keeps | operations | talks to | what makes it correct |
|---|---|---|---|---|
| **Session: tables** (`session.go`, `stub.go`, `serialize.go`) | `exports`, `imports`, `nextExportID`, the two gauges in `stats` | `exportValue`, `createImportStub`, `Stub.Call/Get/Clone/Dispose`, factory stubs, `handleRelease` | peer, by push and release messages; stubs, by `session.mu` | gauges agree with the tables; an entry lives no longer than its stubs; releases are sent once per stub; IDs are not reused |
| **Session: locks, loop, Close** (`session.go`) | `mu`, `closed`, `closeErr`, `ctx`, the loop goroutine | `Send`, `SendRequest`, `messageLoop` and eight handlers, `Close` | the transport, while holding `mu` | nothing is sent after close; the abort is last; a session ends once and its loop ends; `Close` returns |
| **Memory transport** (`transport_memory.go`) | two channels of 16, `closed`, `ctx` | `Send`, `Receive`, `Close`, `Abort` | the other end | FIFO, bounded, unblocked by close |
| **Promise, PromiseResolver** (`promise.go`) | `state`, `value`, `waiters`; table `promises` | `Await`, `resolve`, `reject`, `notifyWaiters`; `RegisterPromise`, `ResolvePromise`, `RejectPromise`, `CleanupPromises` | waiters by closed channels | written once; a channel is closed once; a waiter is woken; no promise is forgotten |
| **Resource manager** (`resource_management.go`) | `running`, `resources`, counts, `cleanupQueue` | `TrackResource`, `UntrackResource`, `AddRef`, `Release`, contextual watchers, periodic cleanup, workers, `Stop` | cleanup functions, finalizers | every cleanup function runs once; nothing is lost; `Stop` cleans up |
| Stub reference count (`stub.go`) | `refCount`, `disposed` | `AddRef`, `Release`, `Dispose` | session tables | disposed once, when the count falls to zero |
| **Pipelining** (`pipelining.go`) | the pipelines; per pipeline its operations with their dependencies, its status and context | `AddOperation`, `ExecutePipeline`, `CancelPipeline` | session, stubs | dependency order; a cycle is refused; a cancel stops what has not begun |
| **Bidirectional** (`bidirectional.go`) | callbacks, subscriptions and their channels, client services | `CreateCallback`, `CallCallback`, `Subscribe`, `Unsubscribe`, `handleEvent` | application functions; session | no send on a closed channel once the entry is gone; an ended subscription delivers nothing it has buffered, and its goroutine ends; an ID stands for its callback |
| **Streaming** (`streaming.go`) | the stream table; per stream its buffer, channels, error and statistics | `Read`, `Write`, `Flush`, `Close`, `CloseStream` | requests of the session | data in order, none lost or doubled; what `Read` returned shows what it did until the next chunk; a close wakes readers and is done once |
| **Rate limiting** (`rate_limiting.go`) | token buckets, quota windows, by key | `Allow`, `Wait`, `SetLimit`, `UseQuota`, `CheckQuota`, cleanup and reset loops | request path | no more tokens than the rate allows, dropped buckets included; quotas per window |
| **Transport manager** (`transport_manager.go`) | providers, transports by endpoint, health | `GetTransport`, `RemoveTransport`, failover, health checks | transports | an open transport is in the table, or was displaced from it by an overlapping call; the verdict follows the checks |
| **HTTP batch** (`http_transport.go`) | outbound and inbound channels, pending batch, timer | `Send`, `sendBatch`, timer callback, retries, `Close` | HTTP server | each message in one batch, in order; no message waits for ever |
| **WebSocket** (`websocket_transport.go`) | connection, send and receive channels, reconnect state | pumps, keep-alive, `reconnect`, `Close` | WebSocket peer | one connection at a time; `Close` gets the lock |
| **Custom transports** (`custom_transports.go`) | TCP: connection, frames, channels; in-process: two ends and their forwarders | `Send`, `Receive`, pumps, `Close` | network, peer | frames stay aligned; messages in order; `Close` returns |
| Wire protocol, serializer (`protocol.go`, `serialize.go`, `value_types.go`) | – | validate, encode, decode | session tables, on the way | decode inverts encode |
| **Security manager** (`security.go`) | sessions with lists of capabilities; the capability store | authenticate, create, delegate, grant, revoke, check | request path | a revoked capability authorises nothing; a usable one is found |
| **Performance monitor** (`debugging.go`) | metrics by method | `RecordCall`, `GetAllMetrics`, `GetSummary` | request path | a summary is the table at one moment; recording returns |
| `types.go`, `interface.go`, `reflection.go`, `validation.go`, `map_operations.go`, `codegen.go`, the rest of `debugging.go`, `testing_framework.go`, examples | little or none that other parts depend on | | | |

### 1.2 What is hard here

The full list, each at its line, is in `PROJECT.json` under `hazards`. In short:

- **One mutex for everything.** `Session.mu` is a `sync.RWMutex`; `Send` keeps its
  read lock while the message is encoded *and* while the transport waits for room
  (session.go:246-264). Encoding may export a value, which needs the write lock
  (serialize.go:280, session.go:539); `SendRequest` calls `Send` under its own read
  lock (session.go:287-300); Go's RWMutex holds new readers off once a writer waits.
- **Two tables that must agree over a FIFO with releases in flight.** A stub's
  disposal is three steps – flag, message, local table – and clones, re-imports
  and sends of the same ID come in between.
- **Close from both sides at once**, an abort crossing a close, a close racing a
  handler that is about to answer.
- **Check, unlock, act** in `Promise.Await`, `TrackResource`, `AddOperation`,
  `handleEvent`, `GetTransport`, `getBucket`, `CreateCapability`, `HTTPBatchTransport.Send`:
  state read under one lock, or none, and used under another.
- **A lock held while something else waits**: a `Send` that waits for room holds the
  read lock that `Close` wants for writing (WebSocket, in-process, `Session`);
  `GetAllMetrics` takes its read lock again for every method.
- **Timers against callers**: the batch timer and a full batch, a callback's timeout
  and its late result, reconnect and the deferred `Close`.
- **Bounded queues**: the 16 slots of the memory transport, the cleanup queue, the
  inbound queue of the HTTP transport, the receive channels of the others.
- **Windows and refills**: a bucket dropped from its table while somebody draws from it
  starts again full, while its holder still draws from the old one; fixed quota windows
  meet at their ends.
- **Goroutines nobody waits for**: each callback of a subscription has one, and runs when
  it is scheduled, after `Unsubscribe` too; a transport closes itself and its manager
  is not told.
- **Slices of one array**: `Read` returns slices of the buffer that the next chunk
  overwrites; an append after a `Flush` writes into the array that the flush is sending.

## 2 The modules and the code

`PROJECT.json` maps every definition to its lines. Where the code does something a
plausible bug would change, a definition marked *Mutant* stands beside the faithful
one; it is used by no specification, and shows what each property would catch.

| module | models | state ↔ code |
|---|---|---|
| `SessionRefs` | both peers' reference tables and the messages that change them | `exports[p][i]`, `imports[p][i]` are `RefCount` (0: no entry); `exportsActive`, `importsActive` are `stats`; `stubs` are `stubImpl` objects with the `disposed` flag; `inbox` the transport's channels; `looping` the message loop |
| `SessionLocks` | the goroutines of both sessions, `mu`, the channels, `Close` | `pc`/`op` place each API call and each loop in the code; `reads`, `writer` are the RWMutex; `closed` stands for `closed` and the cancelled `ctx`; `open` for the transport |
| `SessionLifecycle` | what `SessionLocks` promises: sessions end once | abstract: `closed`, `closeErr`, `stopped` |
| `Promise` | `Await`, `resolve`, `reject`, `notifyWaiters` | `outcome`, `waiters`, one channel per Await; `pc` of awaiters and settlers |
| `Future` | what `Promise` promises: a write-once cell | abstract |
| `PromiseResolver` | the table of pending promises, over `Promise` | `promises` is the table; a settler takes entries (`todo`) and settles them |
| `Resources` | the resource manager | `running`, `resources`, `refCount`, `disposed` per resource, `cleanups` counts calls of cleanup functions, `queue` is `cleanupQueue`; `pc`/`item`/`now` place each goroutine |
| `Subscriptions` | the event half of a `BidirectionalSession` | `subscriptions` is the table, `sub` the objects with `Active` and the channel, `loop` the goroutine `processSubscription`, `spawned` the callbacks whose goroutines have not run yet, `mux` the `Unsubscribe` that holds `subscriptionsMux` while it sends, `handler` each `handleEvent`; `due` and `late` are not in the code: the callbacks there were when the channel was closed, and those that ran after it |
| `Callbacks` | its callback half | `nextCallbackID`, `callbacks`, `clientServices`; `creator` each `CreateCallback` between its two critical sections; `call` each invocation: caller, goroutine, result channel |
| `StreamReader` | `RPCStreamReader` and the stream manager's closing calls | `dataCh`, `errorCh`, `closeCh` as in the struct; `buffer` is the chunk in the buffer's array, `bufferPos` how many pieces of it were handed out; `got` what `Read` returned, slices of that array; `feeder` the goroutine `streamReader`; `read`, `closer` where each call is |
| `StreamWriter` | `RPCStreamWriter` | `array`/`length` are the slice `buffer`: an append after a `Flush` writes into the same array; `flusher` places the program's goroutine and `autoFlush` |
| `Metrics` | `PerformanceMonitor` | `metrics`, the order of `FirstCall`; `recorder`, `reader` at the nested locks |
| `HTTPBatch` | `HTTPBatchTransport` against an `HTTPServer` | `outbound`, `batch`, `batchTimer`, `inbound` as in the struct; `fired` are timer functions that wait for `batchMux`; `requests` the goroutine of each batch with its attempts |
| `WebSocket` | `WebSocketTransport` | flags and channels of the struct; `locker` who wants `closeMux` for writing; `sending` who holds it for reading; the three goroutines; `attempt` of `reconnect` |
| `InProcess` | a pair of `InProcessTransport` | `end` with its channels and flag, `forwarder` with the message it has in its hands, `pairSend` each `Send` |
| `TCPFrames` | two `TCPTransport` over one byte stream | channels and flags of the struct; `stream` the bytes under way; the pumps between prefix and body |
| `TransportPool` | `TransportManager` | `activeTransports`, `providers`; `getter` places each `GetTransport` and its failover between look-up, creation, store and monitoring; `transport` is open or closed, and may close at any time; `displaced` and `overlapped` are not in the code: entries that another call's transport took, and whether calls for one endpoint ever overlapped |
| `HealthChecker` | the health checker | `transports`, `health`; `hloop` each loop with its snapshot |
| `Pipelines` | one pipeline | `status`, `operations`, `cancelled`; `adding` each `AddOperation` between check and append; `executing` the goroutine in `ExecutePipeline`; `stack`, `visiting`, `visited`, `result` the sort with the calls of `visit` that have not returned |
| `TokenBuckets` | `TokenBucketLimiter` | `buckets` the table, `bucket` the objects, `caller` who holds which; `credit` is not in the code: what an ideal bucket would still allow, and the calls that hold a dropped bucket; every grant is charged to it |
| `Quotas` | `QuotaManager` | likewise `quotas`, `quota`, `qcaller`; `recent` and `caught` are not in the code: what was granted in the last period by any quota, and how many of the calls were granted by one that was dropped after they looked it up |
| `Capabilities` | `SecurityManager` and its store | `capability` the store; `session` with its list as array and length, since a removal moves elements in place; `issuer`, `revoker`, `check` between their steps |
| `SessionRefs_proofs`, `SessionLocks_proofs`, `Resources_proofs` | theorems about the module of that name | |
| `Peers_proofs` | theorems about `Promise`, `PromiseResolver`, `Subscriptions`, `Callbacks`, `StreamReader`, `StreamWriter`, `Metrics` | |
| `Transports_proofs` | theorems about `WebSocket`, `TransportPool`, `HTTPBatch`, `InProcess` | |
| `Limits_proofs` | theorems about `TokenBuckets`, `Quotas` | |
| `Bookkeeping_proofs` | theorems about `HealthChecker`, `Capabilities`, `TCPFrames`, `Pipelines` | |
| `Induction` | lemmas on induction, sums, flattened sequences that the proofs share | |
| `MC*` | the instances TLC checks; constants are given in the `.cfg` files | |

`PromiseResolver` composes with `Promise` by EXTENDS (its settlers drive `Promise`'s
steps). `SessionLocks` and `Promise` instantiate their abstract specifications.
`SessionRefs` and `SessionLocks` are two views of the same sessions: the first has
the data and treats a critical section as one step, the second has the locks and
treats the data as given. Every step of `SessionRefs` is one critical section of
`SessionLocks`; what a step may find in between is what `SessionRefs` interleaves.
The other modules meet the session only where it sends for them, which succeeds, fails
or takes its time in each of them.

### 2.1 Abstractions worth knowing

`SessionRefs`
- A push carries at most one reference. `["import", i]` and `["export", i]` decode
  alike (serialize.go:309-330), so the tag is not kept. A message with two
  references behaves as two messages.
- A stub that is sent back is imported there as if the ID were the sender's
  (the decoder does not look at the tag): that is the code, and the tables survive it.
- `stubImpl.Call` exports a placeholder for its result and then sends. The two are
  one step here; the code's interleavings in between are those of `ExportValue`
  followed by `SendRequest`, or by nothing when the send fails.
- The `disposed` swap and the release message are one step: no other operation of
  the stub reads anything but the flag. The import reference is given back in a
  second step, as in the code.
- Pull, resolve and reject messages leave the tables alone and are left out.
- `Close` may lose its abort although there is room, because the context is already
  cancelled when the transport's `select` looks at it (session.go:213-233,
  transport_memory.go:50-74).
- A loop already inside `Receive` may handle one more message after a close.
- Stub slots are never recycled, so a disposed stub is remembered.

`SessionLocks`
- `Lock` has two halves (announce, acquire) and a waiting writer holds readers off,
  which is what makes nested read locks dangerous. Which of several waiting
  writers comes next is left open.
- The `closed` check and the encoding are one step with the `RLock` they stand
  under; nothing that matters can happen between them while the lock is held.
  `closed` and the cancelled context change in one step under the write lock.
- `"pulltarget"` is a pull of an export whose value contains a function or
  `RpcTarget`: the answer exports it under the read lock, as `"target"` does.
- A `Send` whose context can expire may give up while it waits for room
  (`Deadline`); the loop's replies use `context.Background()` and cannot.

`Promise`
- `Await`'s look at the state (under `stateMutex`) and its registration (under
  `waitersMux`) are two steps; so are settling, taking the waiters, and closing each
  channel. `Failed` stands for the error returned when the caller's context ends.
- The pull an Await sends may wait for room for ever. In `peers` nothing is assumed of it
  (`AwaitRuns`); an Await that never gets past it is named in `TakenWakesWaiters`.

`Resources`
- Which resources are idle is nondeterministic (it depends on the clock).
- `Earlier` are resources that are in the table when the model starts – a state the
  manager reaches by `TrackResource` – so that three calls are enough to meet on them.
- Tracking is four steps (state check, count, insert, watcher); a refused contextual
  resource is cleaned up by its caller's path as in the code.
- The tables `contexts` and `references` are written but never read by these
  operations, and are left out. The finalizer never has work: that is `NeverUnreachable`.

`Subscriptions`, `Callbacks`
- Nothing in the package calls `processBidirectionalMessage`; `Handlers` are the threads
  of a program that does. `Session.Send` succeeds or fails and may take its time, which
  matters to `Unsubscribe`, since it sends under the table's lock.
- Each event that passes the check of `Active` gets a goroutine of its own
  (bidirectional.go:596-603), which runs the callback when it is scheduled: any number
  of them may be waiting when the subscription ends, and run after `Unsubscribe` has returned.
- A callback's function may hang for ever; its timeout may then come whenever it likes.

`StreamReader`, `StreamWriter`
- The goroutine that feeds a reader is a stand-in in the code too (it sends three chunks
  and an empty one); a chunk is handed out in `Pieces` pieces.
- A piece is a slice of the reader's buffer, and `append(r.buffer[:0], ...)` puts the next chunk
  into the same array (streaming.go:161, 177, 189). The stand-in's chunks have one size, so all
  of them use the array the first one made: what an older piece shows is its place in the
  chunk that is there now (`Shows`).
- Time is one bit, whether a second has passed: before that the division by the elapsed
  seconds ends the goroutine. Both cases are explored.

`HTTPBatch`, `WebSocket`, `TCPFrames`, `InProcess`
- A request fails or is answered; an answer may come after the connection broke, so a
  retry may repeat what the server has seen. A `Send` that runs into a closed channel
  panics and ends the process.
- A `Read` of the TCP stream may return fewer bytes than asked for. `short` remembers
  that one did: from then on nothing is promised, for the code does not read on.
- Bytes are digits of any base. The length's bytes are those that shifting by bytes gives.
- Only the end that writes is modelled with a send queue, only the other with a
  receive queue: a TCP stream's two directions share nothing but the flags.

`TransportPool`, `HealthChecker`
- Creating a transport fails or gives a new one; failover sorts by priority and tries
  at most `MaxFailoverAttempts` times round.
- A transport closes by itself after an error (websocket_transport.go:295-298, 392), or the
  session that was given it closes it. The manager is not told: the entry stays, and the next
  look-up returns it (transport_manager.go:126-131). The health checker does not act on it either.
- Which results a check gives is open; the ping always succeeds, as in the code.

`Pipelines`
- Which operation depends on which result, and which operation makes it, is drawn at
  the start. The map from which the sort starts has no order: every start is explored.
- `topologicalSort` is recursive. Its calls of `visit` that have not returned are a stack of
  operations, each with the dependents it has still to look at; a step calls `visit`, passes over
  a dependent, finds a cycle, or returns. Nothing else in the code looks at the sort's state, so
  its steps may interleave with those of a cancel or an `AddOperation` without effect.

`TokenBuckets`, `Quotas`
- Time advances by ticks, a bucket's times are ages that stop counting where nothing
  tells them apart. Objects that nobody holds are used again.
- A call goes on with the bucket or quota it looked up although it was dropped from the table
  meanwhile, and its grant counts like any other. What the code then grants too much is
  in the bound by name: `Asked`, what calls ask for that hold a dropped bucket, and `caught`,
  the calls that a dropped quota granted.
- An eviction, `Reset`, `SetQuota` and `ResetQuota` are meant to start a key anew, and do so in the
  bounds; an expired window and a cleanup do not.
- The bounds that the assumptions state (`Capacity * Refill <= CleanupInterval`) are those
  under which the promise holds: a cleanup interval shorter than the time a bucket takes
  to fill would let a client wait for the cleanup and start full.

`Capabilities`
- A capability fits the operation asked for or does not. Deadlines pass whenever they
  like. A check that walks a list sees the array it had when it began, until an
  append moves the session to another.

`Metrics`
- `metricsMu` keeps new readers off while a writer waits, as Go's RWMutex does.

## 3 What the runs check

| run | instance | states | what it shows |
|---|---|---|---|
| `refs` | 3 stubs, 1 export per side, channels of 2 | 2.0 M (up to symmetry) | `ImportNeedsHolder`, `ReleaseAccounting`, `ExportNeverReborn` |
| `locks` | 2+1 API calls of any kind, one with a deadline, channels of 2 | 655 k | `AbortIsLast`; the refinement `EndsOnce` including liveness of the loop's end; `CloseReturnsUnlessWedged` |
| `resources` | 2 resources (1 tracked before), 3 calls, 1 worker, limit 1, queue 1 | 220 k | `CleanedOnce`, `NeverUnreachable`, `ReleaseCleansUp`, `StopSweeps` |
| `peers` | see below | 209 k | `IsFuture`, `NotForgotten`, `TakenWakesWaiters`; `TableLive`, `BufferedIsDropped`, `GoroutineEnds`; `CallbackKept`, `InvocationSettles`; `ReadsInOrder`, `ChannelClosedOnce`, `ReaderReleased`; `SentThenBuffered`; `SummaryIsOneMoment`, `RecordReturnsUnlessCaught` |
| `transports` | see below | 516 k | `EachInOneBatch`, `ForwardedOnce`, `EveryMessagePosted`; `OneConnection`, `LockIsHad`; `PairInOrder`, `PairCloseReturns` |
| `bookkeeping` | see below | 1.11 M | `OpenIsHeld`; `VerdictFollowsHistory`; `FramesIntact`; `DependenciesFirst`, `CancelStops`; `Covered`, `WaitServed`; `TwoWindowsAtMost`; `CheckIsRight` |
| `refs_export`, `locks_nested`, `locks_target`, `locks_transport`, `promise_await`, `resources_stop` | minimal | – | each finds the violation of section 5 |

`peers`, `transports` and `bookkeeping` each check several modules that share no state. Their
initial states choose a `part`, and only the actions of that module are taken from there,
with that module's fairness: the states of a run are the sum, not the product, of
those of its modules, and each is explored as if alone.

**Why the bounds are enough.** *refs*: a stub can be imported, cloned, derived and
disposed of in any order, and re-imported while the old one is being disposed of;
three stubs are two that share an ID and one that comes in between. One export per
side makes every collision of IDs happen, and because the other side exports the same
ID, a stub that is sent home hits an existing entry. Channels of two hold a release
behind a push and can be full. Everything about this module is also proved without
bounds. *locks*: two calls on one session are the two that can wait for each other;
the third makes the other side talk, close, or abort. Channels of two can be full.
*resources*: three calls are, for example, a release, an untrack and a stop on the
same resource; the worker and the periodic cleanup are further actors; two releases
of one resource, or a release and an idle scan, fill a queue of one; a limit of one
refuses the second resource or, when the first is untracked between, admits it.

*peers*: two settlers race for two promises under two IDs, of which one can be registered
over; two awaiters, one of whom gives up. Two subscriptions compete for an event or have one
each, one handler and a buffer that fills let an event be buffered, be dropped and be on its
way to a closed channel, and callbacks pile up that have not run yet. Two creators draw IDs
at the same time and a hung callback is left behind by its caller. Three chunks of two
pieces pass a channel of four, the size of the stand-in, and two closers race. Four writes
with chunks of two are two flushes, one of which may overlap the automatic one. Two of three
methods fit the monitor's table, so a third evicts, and two readers and a recorder close the
circle of waiting. *transports*: three messages and batches of two are a full batch and a
remainder for the timer; one retry and an inbound channel of one let an answer be forwarded
in part. Two senders and a channel of one let a `Send` wait with the lock while the user,
the read pump, the keep-alive and reconnect ask for it; two attempts are one that fails and
one more. Four messages through channels of one reach every state of the forwarder.
*bookkeeping*: three providers with two rounds and three transports let two callers store
over each other and a removal, or a transport that closes, come in between. Four checks turn
a verdict and turn it back, and two loops are a checker that was started again. Messages of
no, one, three and four bytes over two values of a byte and a prefix of two are the empty,
the short, the largest and the one that does not fit. Three operations and two results make
every graph up to renaming, cycles included, and a depth of two is exceeded. Two callers for
two keys of which the table holds one evict each other's bucket or quota, and drop it while
the other is between look-up and use; for the quotas one caller may ask for both keys, for
the buckets the parts `sharing` and `evicting` fix which of the two it asks for, since both
in one run would be four times as many states; one session, two capabilities and a list of
three have one capability listed twice and moved under a check.

**Symmetry** is used only in `refs`, on the stub slots: they are interchangeable, and
the properties there are invariants and one action property.

**Deadlock** is not checked: all these systems stop for good when the last API call
has returned and the sessions are closed. That nobody waits for ever where something
should happen is what the liveness properties say.

**Fairness** is weak fairness of each goroutine's whole step: the Go scheduler runs
every goroutine that stays runnable, and a mutex or channel wakes its waiter. There
is none on a call's beginning, which is the application's choice, on a
context's expiry, on the periodic timer's scan, on what a function of the application
does, or on anything the network or the peer does. Timers that were set do fire
(`HTTPBatch`), and time passes (`TokenBuckets`). `Resources` also assumes that cleanup
functions return. A write lock that is free is had (`WebSocket`, `InProcess`, `Metrics`): Go's RWMutex
lets no reader overtake a waiting writer.

Five liveness properties name the code's own exception, so that they say exactly when the
promise fails: `CloseReturnsUnlessWedged` (a reader of the session's mutex that never
leaves), `LockIsHad` (the write pump has died and a `Send` waits for the room nobody will
make), `PairCloseReturns` (the forwarder has left), `TakenWakesWaiters` (an Await whose pull
is never sent) and `RecordReturnsUnlessCaught` (a recorder between two read locks of one
`GetAllMetrics`).

## 4 What is proved

Every invariant and every safety property of a step that the runs check is also a
theorem, for arbitrary constants, from their named assumptions only (4.2). A component's
own safety specification (`Safe`, `RSafe`, `SubSafe`, `CallSafe`) leaves the fairness out,
so what it implies the whole specification implies; where there is no such definition the
theorem is about the whole specification, whose fairness the proof does not use. All
proofs have one shape: the inductive invariant holds initially, every action keeps it
(one lemma per action, or one per group that touches the same part), and it implies the
property.

| theorem | statement | argument |
|---|---|---|
| `SessionRefs_proofs!TypeCorrect` | `Spec => []TypeOK` | one step per action |
| `…!ExportGaugeCorrect` | `Spec => []ExportGaugeExact` | not inductive alone: needs that IDs above `nextExportID` have no entry (`FreshIDsEmpty`), otherwise exporting could overwrite and the gauge would be one too high; then the cardinality of the table changes by one exactly when the gauge does |
| `…!ImportGaugeBound` | `Spec => []ImportGaugeNeverLow` | a new import adds at most one entry and exactly one to the gauge; the last reference removes one from both |
| `…!ImportsHaveHolders` | `Spec => []ImportNeedsHolder` | cloning and importing add a holder and at most one reference, `DropImport` removes one of each if there is a reference |
| `…!ReleasesConserved` | `Spec => []ReleaseAccounting` | a potential argument, inductive with `TypeOK`: `Dispose` adds a release and a disposed stub; handling a release takes it out of the channel and drops at most one export; exporting never drops one |
| `…!ExportIDsNotReused` | `Spec => ExportNeverReborn` | only `AddExport` raises an entry, and at a fresh ID |
| `SessionLocks_proofs!TypeCorrect`, `SendNeverStale`, `AbortEndsStream` | `Safe => []TypeOK`, `[]SendSeesOpen`, `[]AbortIsLast` | `IInv` = `TypeOK` ∧ `WriterIsAnnounced` ∧ `ReadersKeepOpen` ∧ `CloseMarks` ∧ `AbortComesFromClose` ∧ `AbortIsLast`: a goroutine in the transport holds a read lock and while anyone does the session is open, so whoever sets `closed` finds no sender under way; an abort that travels or is being handled comes from a local `Close` that is over. Without the last part a second close could follow an abort with another |
| `…!LifecycleRefined` | every step is a step of `SessionLifecycle` or a stutter | step simulation under the same invariant; the liveness half of `EndsOnce` is model-checked |
| `Peers_proofs!PromiseTypeCorrect`, `ChannelsClosedOnce`, `PromiseIsFuture` | `Safe => []TypeOK`, `[]ClosedOnce`, `IsFuture` | an Await's channel is nowhere before it registers (`NotYetMade`), then in its own promise's list and open (`WaitersOpen`), and leaves it for the hands of one settler, after the promise has its outcome (`SettledFirst`); an Await returns once (`ReturnedOnce`) |
| `Resources_proofs!TypeCorrect`, `CleanupAtMostOnce`, `NothingLost`, `DisposedResourcesLeave` | the four safety properties of `Safe` | each resource is tracked by one call (`TrackedOnce`) and only what entered the table is queued or disposed of (`OnlyEntered`); it is cleaned up by the goroutine that claimed it, of which there is one (`ClaimedOnce`); whatever leaves the table leaves it into the hands of a goroutine that will claim it |
| `Peers_proofs!ResolverTypeCorrect`, `NothingForgotten`, `OneSettler`, `ResolvedPromiseIsFuture` | `RSafe => []RTypeOK`, `[]NotForgotten`, `[]TakenOnce`, `IsFuture` | `Promise`'s invariant holds whatever set of promises a settler is given (`StartKeeps`), so it is carried over; added to it: an ID has one promise, a promise in the table or in a settler's hands is there once and still pending |
| `Peers_proofs!SubscriptionsTypeCorrect`, `TableHoldsLive`, `UnsubscribeDropsBuffered` | `SubSafe => []SubTypeOK`, `[]TableLive`, `[]BufferedIsDropped` | `Active` and an open channel are the same thing (`ActiveIsOpen`). A closed channel stays closed, so after it the loop passes its check no more: callbacks that ran late, those still to run and the one the loop is about to start are together what they were then, the goroutines there were and at most one more |
| `Peers_proofs!CallbacksTypeCorrect`, `CallbacksKept` | `CallSafe => []CallTypeOK`, `[]CallbackKept` | the counter is the number of calls that have drawn an ID (`Counted`, by cardinalities), so it stays within the IDs, and no two calls draw the same (`OwnID`) |
| `Transports_proofs!WebSocketTypeCorrect`, `ConnectsOnce` | `WSSpec => []WSTypeOK`, `[]OneConnection` | nothing clears `connected` but `Close`, which sets `closed`, after which `Connect` refuses (`ClosedAfterwards`) |
| `Transports_proofs!PoolTypeCorrect`, `OpenTransportsHeld` | `PoolSpec => []PoolTypeOK`, `[]OpenIsHeld` | a transport is in one call's hands only (`InHand`) until it is stored, so two endpoints never share one; what a call returns was made (`Returning`); whether it is open by then does not matter, for transports close at any time; an entry is displaced only if another call began while the first was looking; the providers still to be tried are a sequence of registered ones (`StillToTry`), which needs that a sorted list of a finite set exists |
| `Peers_proofs!StreamReadInOrder` | `ReaderSpec => []ReadsInOrder` | the channel holds the chunks after the one in the buffer, in order, up to what the feeder has sent, and then at most the end (`ChannelGoesOn`); what was handed out is `buffer - 1` whole chunks and `bufferPos` pieces (`HandedOut`), by division with remainder, so the last `bufferPos` pieces and no others are of the chunk in the array and show what they did; a waiting `Read` has an empty buffer, and an announced close is a real one |
| `Peers_proofs!ChannelNeverClosedTwice` | `ReaderSpec => []ChannelClosedOnce` | while the stream is in the manager's table nobody closes; taking it out lets one call past, and only that call is between its check and the mark (`OneCloser`) |
| `Peers_proofs!StreamSentOnceInOrder` | `WriterSpec => []SentThenBuffered` | as long as the program's goroutine and `autoFlush` have not met (`overlapped`) one of them at most is between copying and clearing the buffer (`OneInBuffer`), and what was sent, followed by what the slice still shows, is the numbers up to `written` (`Ordered`); a failed request leaves the buffer as it was |
| `Peers_proofs!SummariesAreConsistent` | `MetricsSpec => []SummaryIsOneMoment` | nothing is written while a reader holds the lock, so what a reader has copied stays equal to the table; what a method without an entry copies is the blank entry (`AbsentIsBlank`), so eviction and absence look alike |
| `Transports_proofs!BatchesHoldAll` | `HTTPSpec => []EachInOneBatch` | the property with two facts it needs: no message is in two places of batches, gathered batch and channel (`BatchesApart`), and what is in one was queued by its `Send`. A batch that is started moves the gathered messages to the end of the flattened list (`Induction!FlattenAppend`) |
| `Transports_proofs!AnswersForwardedOnce` | `HTTPSpec => []ForwardedOnce` | what was forwarded and what waits to be belongs to a posted batch (`AnswersBelong`), and two batches share no message (the theorem before); of a batch that has found room so far nothing was forwarded before the answer that is, and nothing twice (`OneAnswer`) |
| `Transports_proofs!PairKeepsOrder` | `PairSpec => []PairInOrder` | what was delivered, the peer's receive channel, the forwarder's hand, and the send channel, one after the other, are in the order of what was accepted, and all of it while nobody has closed and the receive channel cannot have been full (`Way`); the forwarder holds one message exactly between its select and its put (`OneInHand`) |
| `Limits_proofs!GrantsAreCovered` | `BucketSpec => []Covered` | a bucket in the table holds no more than its capacity and its limits are among those given (`TableSound`); then a refill of `a` ticks adds at most what the ideal bucket gained in them (division by the refill time), a draw costs both the same, and a bucket that the cleanup dropped had been idle long enough for the ideal one to be full. When a bucket is dropped the credit rises by what the calls ask for that hold it (`Asked`, a sum over a finite set), and pays for their grants; what is left after those covers the bucket in the table |
| `Limits_proofs!GrantsFitTwoWindows` | `QuotaSpec => []TwoWindowsAtMost` | what was granted in the last ticks, without what dropped quotas granted, is a row of grants that fits the quota in the table (`Accounted`): over `t` ticks within `Used` as long as the window is at least `t` old, and over the whole period within `Used` and one more window, a statement about all partial sums, which a tick shifts, a grant raises and a reset renews. A call that a dropped quota grants adds at most `MaxLimit` and one to `caught` (`Induction!SumGrows`). Two keys never share a quota (`OneKeyEach`) |
| `Bookkeeping_proofs!HealthFollowsHistory` | `HealthSpec => []VerdictFollowsHistory` | per transport the two counters are the lengths of the last rows of results, and the verdict is that of the last row that reached its threshold (`Verdict`); the stop channel is closed twice only if two loops were started (`Stops`) |
| `Bookkeeping_proofs!ChecksAreRight` | `SecSpec => []CheckIsRight` | an ID that is revoked, or that a revoker has still to take from the sessions, is out of the store and never comes back (`RevokedAreRemoved`), so a check finds it there no more; what was usable all along is ahead of the walk in the array it walks, unless the list moved (`Ahead`), so a walk that ends without it cannot deny |
| `Bookkeeping_proofs!FramesStayIntact` | `TCPSpec => []FramesIntact` | unless a read was cut short (`short`), the bytes on the way are the tail of a frame that the reader is inside of, whole frames, and the head of the frame the writer is inside of (`InStep`); the length read back from the prefix is the length written, for two bytes and for four, and the pumps start once (`StartedOnce`) |
| `Bookkeeping_proofs!DependenciesRunFirst`, `CancelledPipelinesStop` | `PipeSpec => []DependenciesFirst`, `[]CancelStops` | the state of the depth-first sort (`Depth`): the stack is a path in the graph and holds what is being visited; an operation that was visited has every dependent of its own behind it in the result; so a dependent on the stack is a cycle, and a finished sort is an order with dependencies first that has every operation. What was begun and what is left to run is that order, or the list as it was (`Running`) |

### 4.1 Induction over data

The provers cannot instantiate an operator parameter, and so none of the library's
induction theorems. `Induction` does without: a set of naturals that is not empty has a least element
(`Least`, from the library's well-founded orders), so a *set* that has zero and every
successor has all naturals (`Induct`); a set of finite sets that has a set whenever it has
those with one element less has all (`FiniteInduct`). The proofs define the set whose
members satisfy what is to be shown. From there follow the facts about the community
modules' folds that these proofs need: the greatest element of a bounded set (`MaxIs`,
`Greatest`), a sum as the last of its partial sums (`SumIs`), a sum over a finite set as one
summand and the rest (`SumParts`, `SumTakes`), its dependence on the summands alone (`SumAgrees`,
`SumGrows`), a flattened sequence as a
concatenation step by step (`FlattenAppend`, `FlattenHead`).

### 4.2 What is assumed of the constants

Each module's `ASSUME` names it. Beyond types and positive sizes:

- `SessionRefs`, `Callbacks`, `HealthChecker`, `TokenBuckets`, `Quotas`: what is counted, or
  of which a maximum is taken, is finite (stubs, goroutines, limits).
- `InProcess`: there are exactly two ends, as `NewInProcessTransport` makes them.
- `HTTPBatch`: the parts of an answer are told apart, by their places in it. Otherwise
  "forwarded twice" would mean nothing.
- `TCPFrames`: a limit for messages that fits the four-byte prefix. The default is
  1 MB (custom_transports.go:73); `NewTCPTransport` allocates a buffer of that size (:105) and
  `Send` refuses what is longer (:168). A larger limit would let the length wrap around in
  the prefix. The two-byte prefix has no such assumption: there the writer refuses.
- `TokenBuckets`: the cleanup interval is at least the time in which a bucket fills, see 2.1.

## 5 Findings

Each is a run that TLC refutes; `PROJECT.json` has the details and the quoted lines.

1. `refs_export` – an export's `RefCount` "tracks how many remote references exist"
   (session.go:81), but it is set to one and never raised. The other side may make any number of
   stubs for an ID by itself (`BasicStubFactory`, `Clone`), and each disposal sends a release: with
   two stubs for one export the first disposal deletes the entry under the second.
2. `locks_nested` – `SendRequest` takes the read lock twice; a `Close` between the
   two waits for ever, and so does the request.
3. `locks_target` – sending a function or an `RpcTarget` asks for the write lock
   under the read lock: the session hangs.
4. `locks_transport` – after an abort from the peer, `Close` returns early and the
   transport is never closed.
5. `promise_await` – a promise that settles between `Await`'s look at its state and
   its registration leaves that `Await` asleep.
6. `resources_stop` – a `TrackResource` that began before `Stop` inserts its resource
   into the stopped manager's table, and its cleanup function is never called.

Some more is in the models as the code has it, without a run of its own: a transport that has
closed stays in the manager's table and is handed out again (transport_manager.go:126-131); a second
`Subscribe` to an event hides the first, which `Unsubscribe` then does not find
(bidirectional.go:308); the first `Read` within a second of a stream's start divides by zero
seconds (streaming.go:313); calls of `TrackResource` or `AddOperation` that overlap pass the limit
together (resource_management.go:192, pipelining.go:206); `ExecutePipeline` writes its status over
a `Cancelled` (pipelining.go:251). `PROJECT.json` lists each under `hazards`.

## 6 Only model-checked, not modelled, and why

**Only model-checked**: the liveness properties, since liveness under fairness is out of this
prover's reach. They are `CloseReturnsUnlessWedged`, the fairness part of `EndsOnce`,
`TakenWakesWaiters`, `ReleaseCleansUp`, `StopSweeps`, `GoroutineEnds`, `InvocationSettles`,
`ReaderReleased`, `RecordReturnsUnlessCaught`, `EveryMessagePosted`, `LockIsHad`,
`PairCloseReturns` and `WaitServed`.

**Not modelled.**
- **Response channels**: nothing in the code registers one (session.go:432-487), so
  handleResolve and handleReject find no waiter and change nothing.
- **Stub reference counts**: `AddRef` and `Release` are one atomic operation each on a
  counter nothing else reads; the dispose that the last `Release` makes is in `SessionRefs`.
- **Wire protocol and serializer** beyond the kinds of messages and which values are
  exported: pure data conversion.
- **Pure I/O or generated output**: HTTP exchange, sockets, code generation,
  logging, tracing and profiling.
- **Sequential helpers without state others rely on**: types and errors, reflection,
  validation, map operations.
- **Tests' helpers and examples**.
- In modelled components: `MemoryTransport.Abort` and most statistics; metrics, priorities
  and the context table of resources; load balancers (stored and never asked) and
  providers; the pipeline builder and the batch processor, whose queue nothing fills;
  `RateLimitQuotaManager`, which calls limiter and quota one after the other; the gRPC
  transport, which has no network, the Unix socket transport, which shares TCP's code, and
  the registry; WebSocket server and mock; token generation, roles and use counts of the
  security manager; tracer and inspector.

## 7 Plan

Done: the sessions first, what everything else stands on (`SessionRefs`, `SessionLocks`,
`Promise`, `PromiseResolver`, `Resources`), then the machinery around them, and a theorem for
every invariant the runs check.

What could come next, in the order of what it would add:

1. The safety that the liveness properties rest on: that whoever waits has somebody to wake
   it (a reader of `StreamReader`, a waiting writer of `WebSocket`), as invariants.
2. What the exceptions in the liveness properties name (`CloseReturnsUnlessWedged`,
   `PairCloseReturns`): that they never arise while nobody closes.
3. An abstract specification that several transports implement (a lossy FIFO that is
   closed once) for `InProcess` and `TCPFrames`.
