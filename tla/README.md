# Verification of chain_indexer

TLA+ models of chain_indexer, a service that follows EVM and Solana chains,
matches what happens on them against subscriptions kept in a database, and
notifies HTTP endpoints, message brokers and WebSocket clients. The models are
translated from the Python source under `src/apps` and `src/core`. TLC checks
them on small instances, and TLAPS proves every safety property that holds there
for every value of the constants.
`PROJECT.json` maps every definition to the source lines it stands for, and
lists the runs, the mutants that show each property can fail, the findings,
the hazards and the theorems.

## The system

    operator --HTTP--> web API --SQL--> database (config, checkpoints, records)
                          |                  ^        ^
                          | Redis pub/sub    | poll   | checkpoint, records
                          v                  |        |
                       config watcher --queue--> worker main loop --> chain runner(s)
                                                   |  Redis lease        |  |  |
                                                   v                     |  |  v
                                              chain locks        RPC pool/  |  parsers, matcher
                                                                 adapters   v
                                                                     notifier --> channels
                                                                                   |
                                              HTTP, Kafka, RabbitMQ, Redis Streams, Redis pub/sub --> ws clients

Everything in one process runs on one asyncio event loop, so code between two
`await`s is atomic and anything else may happen at an `await`. That is the grain
of the models: one action per stretch of code between awaits. Several worker
processes may run; they meet in Redis (chain leases) and in the database.

| Component | State | Operations | Hard because | Module |
|---|---|---|---|---|
| Confirmation buffer (`core/chains/confirmation_buffer.py`) | window of unconfirmed headers | `append`, `handle_new_head` with its walk back | heads of competing branches in any order, parents that cannot be resolved, the drain's boundary | `ConfirmationBuffer`, `FinalityFeed` |
| EVM runner and adapter (`apps/worker/chain_runner.py`, `core/chains/evm.py`) | buffer, prefetch cache, head queue, checkpoint, notifier | catch-up with split log ranges, poll and WebSocket feeds, prefetch, reorg walk, block processing, traces, stop | the node reorganises between two calls; crash between dispatch and checkpoint; stop beside a running block; a handler task nobody watches | `EvmRunner` (composes `ConfirmationBuffer`), `ChainRunner` |
| Solana runner and adapter (`core/chains/solana.py`) | slot cursor, checkpoint | catch-up windows, poll and WebSocket feeds | skipped slots, slots not yet available, errors in response bodies | `SolanaRunner`, `ChainRunner` |
| RPC pool (`core/chains/rpc_pool.py`) | failure counters, cooldowns, gauges | `call` | concurrent calls share the breaker; candidates go stale | `EndpointPool` |
| Configuration plane (`apps/worker/config_watcher.py`, `core/config/snapshot.py`, `apps/web/routers/_common.py`) | version row, pub/sub, `_last_version`, queue | bump and publish, poll, subscribe, load, main loop | lost messages, two loaders, a full queue, two writers | `ConfigPlane` |
| Configuration tables and API (`apps/web/routers`, `core/config/repositories.py`, `models.py`) | chains, ABIs, channels, subscriptions, bindings | CRUD, enable, binding, `load_snapshot` | rows checked and then written later; reads in several statements | `ConfigApi` |
| Worker (`apps/worker/main.py`, `core/worker/chain_lock.py`) | leases, runners, renewals | acquire, renew, release, reconcile, shutdown | lease expiry, shutdown beside reconcile, restart | `WorkerLocks` |
| Notifier and HTTP channel (`core/notifier/notifier.py`, `retry.py`, `http.py`) | channels, semaphore, records | dispatch, retry, record, hot reload | a block holds what a reload replaces | `Delivery`, `Channels` |
| Broker channels (`kafka.py`, `rabbitmq.py`, `redis_streams.py`) | connection, local queue | start, send, stop | a send outlives its channel; local buffering | `BrokerChannels`, `Channels` |
| WebSocket fan-out (`websocket.py`, `apps/web/routers/ws.py`) | subscription, bounded queue per session | publish, produce, consume | slow and vanished clients, repeated publications | `WsFanout`, `Channels` |
| Delivery records (`repositories.py`, `apps/web/routers/delivery_records.py`) | rows with status and attempts | write, cleanup, retry, resolve, delete | retries and cleanup at once | `DeliveryRecords` |
| ABI registry, decoder, filter, matcher, EVM parsers (`core/abi`, `core/matcher`, `core/parser`) | topic0 and selector indices, decoder cache, filter, matcher | refresh, fetch, parse, trace, match | replaced piecewise under a block; logs and calls that do not decode | `EvmMatching`, `Matching`, `BlockParsing` |
| Solana parsers and Anchor index (`core/parser`, `core/abi`) | Anchor indices, a stack of programs per transaction | read the log, decode instructions | nesting is rebuilt from log lines; accounts and mints the node does not name | `SolanaParsing`, `BlockParsing` |
| Replay (`chain_runner.py`, `main.py`, subscriptions router) | replay tasks | request, take, replay a range | runs beside the live loop, nobody owns the task | `Replay` |

What makes the system correct, in one line each:

- a notification concerns a block that is final, and no confirmed block is passed over;
- the checkpoint never overtakes what was handed to the channels or left as a failed record;
- the worker ends up with the committed configuration;
- one worker at a time runs a chain, and an enabled chain is run by one;
- a subscription gets the logs, calls, transfers and program events it asks for and no others, also while the configuration changes;
- tables, snapshots and records stay consistent under concurrent requests;
- a failing endpoint is avoided, and used again when it works.

## Modules and how they correspond to the code

Every module starts with a comment on its state; only the points that need an
explanation follow. `MC*` modules hold instances (header trees, snapshots), the
`.cfg` files give the constants their values.

**ConfirmationBuffer.** `Headers`, `Number` and `Parent` are constants: any tree
of headers. `handle_new_head` is one action per call of `resolve_parent`
(`StartWalk`, then `StepBack`, `Rewind`, `DeepReorg` or `ResolveRaises`); `log` is
a history of what was returned as confirmed since the window was last seeded.

**FinalityFeed.** The abstract specification of the buffer: a chain that is
believed in and the length of its final prefix. A head is adopted (what is final
stays, what became deep enough is handed out at once) or the feed restarts.
ConfirmationBuffer maps to it by `chain <- log \o buf`, `final <- Len(log)`; a
walk is a stutter until it returns.

**EvmRunner.** Instantiates ConfirmationBuffer, whose actions are the walk of a
head. The node (`tip`, which grows and reorganises by at most `MaxReorg`) is
external. Prefetched ancestors are a cache filled by number, as in the code, and
the walk reads the cache. `feed.ws` is whether `rpc_ws` is set: the polled feed
yields every height since the last poll; the WebSocket feed puts announced heads
in a queue while its handler task lives (`SubscribeHeads`, `HandlerDies`,
`QueuedHead`). `_fetch_logs_with_degrade` is a list of ranges still to be read:
`RangeTooLarge` replaces the first by its halves, and `job.logs` remembers on
which chain each height's logs were read. A live block and its logs are asked for
at once and answered in either order (`FetchLogs`, `FetchBlock`,
`FetchBlockFirst`). `TraceBlock` reads the block again after the dispatch. Any await may be followed by a crash; `stop` clears the
notifier, then cancels the task. The published tip and the
`last_processed_block` gauge are not here.

**SolanaRunner.** The node has a processed, a current and a final slot. A
skipped slot answers `null`, a slot that has not reached the commitment answers
with an error body (external behaviour). `getBlocks` may answer with an error in
the body, which `scan.refused` remembers. The feed is the polled one or the
WebSocket one (`ws`), chosen when the model starts. `getSlot` can be asked at any
time; `slotSubscribe` tells of a slot once, when it is processed, and only whom is
connected then (`SubscribeSlots`, `Process`, `SocketCloses`; `feed.heard`).

**ChainRunner.** `ChainRunner.run` and the adapter factory: the chain's kind
decides whether EvmRunner or SolanaRunner is at work, the other one rests.

**EndpointPool.** Time passes in `Tick`s; `cooling` counts what is left of an
endpoint's cooldown. A call takes its list of candidates once and tries them in
order, with an await at each.

**ConfigPlane.** A commit makes a version and its rows visible together;
`load_snapshot` reads the version first and the rows later. Poller and
subscriber are two tasks that load, compare with `_last_version` and put; what is
published before the subscriber has subscribed, or after it ended, is lost. A
fault is a lost or unsent message, a broken subscription or a failed load.

**ConfigApi.** A request is handled in three steps: the lookups, the read of the
version row in `bump` (`ReadForBump`), and the commit of what they led to with the
version read plus one (`Bump`). Nothing locks the row between the two, so two
requests may write one version; `reused` is the history of such versions. `engine` is the database: PostgreSQL enforces the foreign
keys, SQLite as the code opens it does not. What a lost bump means for the worker
is ConfigPlane's subject. A channel's config is abstracted to the
type whose schema it satisfies.

**WorkerLocks.** One chain. A unit of time is the renewal interval, so a lease
lasts `LeaseTicks` = 3 units (30 s and 10 s in the code). Each process start has
a new identity, as the random `worker_id` has. A fault is a Redis call that
fails or comes late. `_stop_runner` of a runner that is gone is its KeyError, and a
`runner.stop()` that raises ends the main loop or the shutdown (`MainLoopFails`,
`ExitFails`). `MaxEvents` bounds configuration changes, signals, crashes,
deaths of runners and faults together.

**Delivery.** One event per block for every channel. A block captures the
notifier and works with it over its awaits while `apply_snapshot` stops the
channels and builds the next notifier; before and after a reload the channels
are the same, so a skipped notification is always a wanted one.

**BrokerChannels.** One payload per block; `mq_own` is Redis Streams with a
`redis_url`. `local` is the Kafka producer's queue. Trimming by `maxlen` is left
out. A block captures the notifier (`Capture`), finds the channel in it or not
(`Dispatch`), sends (`BeginSend` to `AfterError`), writes its record or fails to
(`WriteRecord`, `WriteRecordFails`) and is checkpointed. Beside it a reload stops the
channel, puts an empty notifier in the place of the old one, and starts the channel
(`Stop`, `Replace`, `Start`); a block between capture and dispatch then finds no
channel (`skipped`), and a send in its retries a closed one. A `start` that raises in
a reload ends the worker: until its shutdown blocks meet the empty notifier, as in the
model between `Replace` and a crash.

**WsFanout.** Publications are numbered, so a repeated one is told apart.

**Channels.** A channel is of one registered type, fixed with its row: a
broker's (`BrokerChannels`), `http` (`Delivery`, with the notifier and its
semaphore in front) or `websocket` (`WsFanout`).

**DeliveryRecords.** Rows are ordered by `created_at`. Each action is one
committed statement; a failed cleanup pass changes nothing. A row starts with the
attempts the worker made: `max_attempts`, or 1 for a refusal that is not retried
(`AttemptsOf`; `made` remembers it). `Answered` are the rows of channels whose `send`
returns once the receiver has answered (http, rabbitmq, mq); the others, Kafka and
websocket, may return with nothing received.

**Matching.** Filter keys are sequences of words, because `_split` takes any last
word that is an operator for one. A value is a JSON number, a decimal string, a
0x string or another string. `Means` is what the author of a filter wants;
`Clear` says that it is written in the way the code reads it.

**EvmMatching.** ABIs are sequences of entries (type, name, topic0 or selector,
number of indexed arguments), because the order of entries decides what the
indices hold. A block is a set of logs (address, topic0, number of topics,
whether its data or an indexed topic decodes) and a forest of call frames. A log
decodes when the number of topics fits the entry that the index holds. A reload
is `Refresh`, `ReplaceMatcher`, `ReplaceFilter`, with the block's own awaits
(`Capture`, `FetchLogs`, `Process`, `TraceBlock`) in between; `skip_logs` is a
filter that passes nothing. `stable` are the subscriptions that no snapshot
touched since the block was begun.

**SolanaParsing.** The runtime (external) executes a transaction one program at a
time, with calls inside calls, and writes its log; `AnchorIdlEventParser` reads
each line as it is written, which is the same as reading them all later because
it keeps nothing but its stack. The other parsers run on the whole transaction.
IDL types are a graph with a recursion limit, as `_resolve_type` has one.
Accounts of lookup tables are dropped where `_parse_block` drops them. The fee of
`transferCheckedWithFee` is part of the amount's abstraction.

**BlockParsing.** `_build_pipeline`: a chain's parsers are the EVM or the Solana
ones.

**Replay.** A request whose range is valid travels over pub/sub and becomes a
task of the runner that takes it. Setting `_stop` and closing the adapter are
separate steps of `stop`. The end of the process runs the `finally` of a replay that
is in its try, and leaves one that is starting its channels as it is (`Cancelled`).
Every block in range has one matching event; `skipped`
are the slots without a block of a Solana chain.

## Runs

| Run | Shows | Bounds and why they are enough |
|---|---|---|
| `buffer` | confirmed headers and window are one chain, deep enough; the buffer implements FinalityFeed; a rewind keeps the common part; a fork in the window is found | three branches (a fork of a fork), heights 0..6, 3 confirmations: walks of every length and heads above, at and below the tip |
| `chain_runner` | EVM: what is delivered stays on the chain, the checkpoint never overtakes it, the runner ends at the node's head. Solana: catch-up asks for every final block, in the end every slot is served | heights to 7, 2 confirmations, reorgs of 2 blocks, `MaxCatchup` cutting the range, log ranges of 2 that may be refused; polled or announced heads; six slots, two of them skipped, windows of 2; one failing call, one crash and one stop, each anywhere |
| `evm_at_least_once` | violated: see Findings | the same header tree, an EVM chain that is polled (`PolledSpec`), no failure of any kind |
| `ws_outage` | violated: see Findings | heights to 5, one fault: the handler's end |
| `config` | a snapshot contains what its version claims; the worker ends with the committed configuration | two concurrent changes, a queue of one slot, two faults: every order of two loads, a put that waits, a broken subscription |
| `config_api` | no dangling reference; a torn snapshot is never the current one, unless two requests wrote its version | one id of each kind; any tables that earlier requests can have left (`LaterSpec`, the version counted from there), then three requests, two at a time: two that bump at once and one under the loader |
| `locks` | a runner holds its lease; renewals have a lock; leases of the dead expire; an enabled chain is served | two workers, three events of any kind: one more than it takes to hand the chain over |
| `channels` | brokers: what the checkpoint passed the broker has, or a record says failed, also across a reload at any await, blocks that found no channel and rows that could not be written excepted. HTTP: the checkpoint passes a block only when its notifications were accepted or recorded as failed; blocks complete. WebSocket: nothing is lost between publication and socket but by a full queue; a gone client's session ends | three blocks, two attempts, two faults, one crash, one reload; two blocks for two http channels with one permit and one reload; two clients, three messages, queues of one |
| `records` | rows vanish only for a reason, retries are counted, nothing is resolved in vain where the receiver answers, the cap is restored | three rows, two of them on channels that wait for the receiver, at most two attempts, three requests, two at a time, one row kept and cleaned up one at a time |
| `pool` | breaker and gauge agree; a recovered primary is used; calls succeed | three endpoints, two callers, threshold and cooldown 2: one endpoint tripped by both callers, all of them cooling |
| `block_parsing` | EVM: a subscription that a change leaves alone gets exactly its logs, calls and payments; decoders are those of the current ABI. Solana: program events under the program that emitted them; transfers and token operations once, with their accounts and mint | five snapshots (changed, reordered, overloaded and shadowing ABIs, one event name in two ABIs; every operator of a filter), twelve logs, ten frames to depth 3 with `MaxCallDepth` 2, unbounded reloads; twelve instructions (every row of the layouts, one account from a lookup table, one that does not fit), calls to depth 3, five log lines, seven IDL types of which one refers to itself |
| `replay` | no holes, only confirmed blocks; what is taken is finished and its channels are closed | ranges of up to three of four blocks, any set of skipped slots, two runners, two channels, one failing call |

Replays share no state but their runner and the fault budget, so one request is
enough. The `TypeOK` of each module (`RunTypeOK`, `ChannelsTypeOK` and
`ParsingTypeOK` of the compositions) holds on the same instances and is not
listed; what the proofs need of the types is part of their inductive invariants.

`CHECK_DEADLOCK FALSE` stands wherever the model may stop for good: the input is
used up (no more blocks, requests, changes) or every process has ended.

### Fairness

Liveness properties assume weak fairness of the steps the event loop owns and
nothing of the environment: tasks that can go on are scheduled (asyncio runs ready
callbacks in turn), timers fire (`PollTick`, `Tick`, `Cleanup`), a call that the
model does not let fail is answered (each client has a timeout: `Progress` in
`Delivery`). Each WebSocket session is fair on its own (`Tasks(c)`), since its
producer and consumer are tasks of their own. New blocks,
requests, configuration changes, crashes, signals and faults are never fair; the
number of faults is bounded, which is the assumption that the environment
recovers. For sessions of WebSocket clients `send_text` either succeeds or fails;
a client that is gone makes it fail. The announcements of a Solana node are not fair
either: an rpc_ws feed that has heard of no slot is allowed to wait.

### Findings

`evm_at_least_once` checks the design document's sentence that what is not
delivered is fetched again from the checkpoint (at least once). TLC finds a trace
without any failure, on a chain that is polled: catch-up ends at
`tip - confirmations`, `_poll_heads` yields only the tip of its first poll
(`evm.py:192`), and the blocks between enter neither: `confirmations - 1` of them when
the tip has not moved meanwhile, more when it has. With 2 confirmations and the tip at
3, catch-up delivers block 1, the first head is 3, and the checkpoint passes from 1 to
3 without block 2.

`ws_outage` checks the design document's sentence that the HTTP poll bridges the
gap when the RPC WebSocket is lost. `_subscribe_heads_ws` starts a task for the
handler and then waits at its queue; when the task ends with the connection nobody
looks at it, nothing reconnects, and no poll runs beside it (`evm.py:238`). TLC
finds the runner waiting below the tip for ever.

Some properties hold only with an exception that is written into them. Each
exception is something the code does:

| Property | Exception | What the code does there |
|---|---|---|
| `ForkPointIsFound` | heads more than `len(buf) + 1` above their ancestor | the walk gives up and reports a deep reorg although the window holds an ancestor (`confirmation_buffer.py:95`; the class comment says "no ancestor within buffer") |
| `CheckpointDelivered`, `ConfirmedUpToCheckpointDelivered` | runs with a `stop` | `stop` empties the notifier while the task goes on; the block in hand is skipped and checkpointed (`chain_runner.py:679`) |
| `TipIsFollowed`, `AllSlotsServed` | a task that died | a reorg between poll and prefetch ends an EVM task with a KeyError (`chain_runner.py:531`); the Solana WebSocket feed asks for slots that are not available yet (`solana.py:316`); nothing restarts a task |
| `TipIsFollowed`, `AllSlotsServed` | a WebSocket feed that has heard of nothing | heads and slots are announced when they are new: after catch-up, or a new connection, nothing is handled until the chain grows (`evm.py:218`, `solana.py:315`) |
| `ConfirmedUpToCheckpointDelivered` | `Inherited` blocks | with `confirmations` 0 the first polled head may be the block of the checkpoint row; an earlier process delivered it |
| `CatchupAttemptsAll` | `scan.refused` | an error in the body of `getBlocks` is read as an empty window (`solana.py:182`) |
| `SnapshotCoversVersion`, `ConfigConverges` | `LostBump` | two concurrent bumps write one version; the second change is not noticed (`repositories.py:248`) |
| `CurrentSnapshotIsExact` | `reused` versions | the same race: a snapshot loaded between the two commits has the version of the second and lacks its change |
| `ConfigConverges` | a put that waited | `_last_version` is set before the put; with a full queue the older of two snapshots may be applied last (`config_watcher.py:128`) |
| `ReferencesValid` | SQLite | the declared foreign keys are not enforced (`db.py:22`, the engine of `config.example.yaml:2`) |
| `RunnerHoldsLease` | a second fault | two missed renewals let the lease go, and the runner goes on beside its successor (`chain_lock.py:62`) |
| `RunnerHoldsLease` | a shutdown | GET and DELETE of a release enclose another worker's acquire (`chain_lock.py:53`) |
| `EnabledChainIsServed` | troubles | after a restart within the lease, acquire is tried again only at the next change (`main.py:341`) |
| `CheckpointedIsAccounted` | `torn` blocks | a reload empties the notifier a block has captured; its notifications are skipped (`chain_runner.py:183`) |
| `CheckpointedIsKept` | `skipped` blocks | the same, for the brokers: between capture and dispatch the channel has left the notifier (`notifier.py:75`); only blocks that a reload tears are skipped, which the property says too |
| `CheckpointedIsKept` | `unrecorded` blocks | a record that cannot be written is logged and given up (`notifier.py:126`, `main.py:153`) |
| `ResolvedIsSettled` | channels outside `Answered` | `KafkaChannel.send` returns when the message is queued and `stop` ignores what its flush leaves (`kafka.py:62`), and a websocket publication has no receipt; a retry resolves the row all the same (`delivery_records.py:81`) |
| `StableSubscriptionExact` | `Ambiguous` | of events of one name with different signatures, in one ABI or in two, the node-side filter asks for one topic0 only, while the matcher compares names (`registry.py:126`) |
| `StableSubscriptionExact` | `Shadowed` | of two ABIs with one topic0 and different indexed arguments (a token and an NFT) only the first is tried (`registry.py:106`) |
| `CallsExact` | `Collides` | of two functions with one selector and different names only the first registered is tried (`registry.py:163`) |
| `StableSubscriptionExact` | `Behind` | a failure to decode an indexed topic leaves the parser, whose later logs of the block are lost (`decoder.py:123`) |
| `StableSubscriptionExact`, `CallsExact` | `Clear` filters | a field that ends in `_in`, `_gte` or `_lte` is read as an operator (`filters.py:16`); `int` of a bound that is no number raises, which counts as no match (`filters.py:60`); numbers and decimal strings are not equal, and which of them an Anchor argument is depends on its size (`decoder.py:267`) |
| `CallsExact` | roots | whole transactions that reverted are reported, since `fetch_block` gives each status 1 (`evm.py:138`; `native.py` says that reverted ones are skipped); a traced transaction's own call is reported twice, by both parsers (`internal_call.py:26` starts at depth 0, `m4-design.md:65` says depth > 0) |
| `AnchorEventsExact` | `confused` | a text a program logs may read like a line of the runtime and then moves the stack (`anchor_event.py:41`) |
| `TransfersExact` | `Hidden` | accounts of lookup tables are dropped and later ones move up (`solana.py:221`); the mint of a plain transfer is looked up after the transaction, when the source may be closed (`spl_transfer.py:115`) |
| `TakenIsReplayed` | a channel that fails to start, or a process that ends meanwhile | the throwaway notifier starts outside of the try; channels started before stay open (`chain_runner.py:213`) |
| `CheckpointedIsKept` | Kafka | `send` returns when the message is in the producer's queue (`kafka.py:71`) |
| `CheckpointedIsKept` | `mq_own` | a retry after `stop` writes to the worker's own Redis (`redis_streams.py:65`) |
| `NothingLostInside` | counts publications | a publication whose reply was lost is repeated (`websocket.py:45`) |

Also met while modelling, and stated by no property: a version can be emitted
twice with an older one in between (`config_watcher.py:126`); endpoints in
cooldown are not asked before a call gives up, and one tripped meanwhile is still
asked (`rpc_pool.py:73`); the Solana live feed starts at slot 1, so the
published tip goes back (`solana.py:283`); an update is validated against
another chain kind or channel type than its row has (`channels.py:57`); a replay
goes on after bus and database are disconnected (`main.py:196`); a refusal after
retries is recorded with one attempt (`retry.py:52`); a block that `trace_block`
cannot read ends without a checkpoint, although the milestone's design skips it
(`chain_runner.py:623`); a head far above the window's tip is reported as a deep
reorg (`confirmation_buffer.py:95`). `cleanup_success` deletes at offset `keep` from
the newest row (`repositories.py:310`): when more rows than a batch are in excess, the
newest of the excess go first, while its docstring (`repositories.py:302`) and the
cleanup's design (`docs/superpowers/specs/2026-05-28-delivery-records-cleanup-and-retry-observability-design.md:81`
and `:187`) say the oldest. The end is the same, once the passes have caught up.

Some hazards of the list in `PROJECT.json` have no property, because the code does lose
something there, and a property would have to except exactly that: `stop` beside a
running block, heads skipped by a failing `get_block`, a failed window of catch-up, a
task that died, messages a Kafka broker never gets, a replay's channels that stay open,
transfers whose accounts are hidden. Each has a note.

## Proofs

Eight proof modules, each beside the module it is about. They are checked to the
last leaf, with the SMT backend, Zenon and, for the temporal steps, LS4. Every
inductive invariant was an invariant of a TLC run before it was proved.

| Theorem | Property of a run | Hypotheses beyond the constants' assumptions |
|---|---|---|
| `ConfirmedChainAlways`, `WindowAlwaysBounded`, `ConfirmedAlwaysDeep`, `RewindCorrect`, `ForkPointCorrect`, `BufferImplementsFeed` | all of run `buffer` | none |
| `CheckpointCorrect` | `CheckpointDelivered` | none |
| `FinalCorrect` | `DeliveredIsFinal` | `MaxReorg <= Confirmations` |
| `ServedCorrect` | `ConfirmedUpToCheckpointDelivered` | `LiveAssumption` |
| `CatchupCorrect` | `CatchupAttemptsAll` | none |
| `KeptCorrect`, `AccountedCorrect`, `NothingLostCorrect` | `CheckpointedIsKept`, `CheckpointedIsAccounted`, `NothingLostInside` | none |
| `RenewalCorrect` | `RenewalHasLock` | none |
| `LeaseCorrect` | `RunnerHoldsLease` | `LeaseTicks >= 3` |
| `ReferencesCorrect`, `SnapshotCorrect` | `ReferencesValid`, `CurrentSnapshotIsExact` | none |
| `AttemptsCorrect`, `ResolvedCorrect`, `VanishCorrect` | `AttemptsCountRetries`, `ResolvedIsSettled`, `OnlyOldSuccessRowsVanish` | none |
| `NoHolesCorrect`, `ConfirmedOnlyCorrect` | `ReplayHasNoHoles`, `OnlyConfirmedBlocks` | none |
| `PlaneCorrect` | `SnapshotCoversVersion` | none |
| `DecodersStayCurrent`, `StableSubscriptionsAreServed`, `CallsAreServed`, `AnchorEventsAreReported`, `TransfersAreReported` | `DecodersAreCurrent`, `StableSubscriptionExact`, `CallsExact`, `AnchorEventsExact`, `TransfersExact` | none |
| `BreakerAlwaysConsistent` | `BreakerConsistent` | none |

The exceptions written into the properties (see Findings) are part of the
theorems as well. Bounds on faults, crashes, stops and requests are constants, so
the theorems hold for any number of them.

**ConfirmationBufferProofs**, for every header tree and every `Confirmations`
in Nat, assuming (`HeadersAssumption`) that numbers are naturals and a header's
number is its parent's plus one. `ConfirmedChain` is not inductive: the drain
counts heights, so one must know that heights along the window are consecutive;
during a walk the collected branch must be a chain itself; and the window must
start where the confirmed history ends. `ChainInv` says that:

    TypeOK, window, history and branch are chains (parent-linked, consecutive
    heights), the window follows the history, Len(buf) <= Confirmations, and
    a walk has a window and a branch.

Lemmas: `ConcatChain` and `SubSeqChain` (gluing and cutting chains),
`DrainCountOfChain` (the drain pops exactly what is deep enough, and nothing less),
`ReturnEstablishes` (every call that returns re-establishes the invariant).
`NextChain` has one case per action. Results: `ChainInvariant`, and from it
`TypeCorrect`, `ConfirmedChainAlways`, `WindowAlwaysBounded` and
`ConfirmedAlwaysDeep`.

`BufferImplementsFeed` (`Spec => ImplementsFeed`) shows the refinement. ChainInv
does not suffice: a `Restart` of the feed is allowed only for a head that does not
link, and the first head is told apart from later ones by the empty window.
`FeedInv` adds that the window is empty only before the first head when
`Confirmations > 0`, and that a walk is under way only for a head that does not
link to the window's tip. `ReturnMaps` says what a returning call does to
`log \o buf`, `ReturnAdopts` that this is an `Adopt`; `InitFeed` and `NextFeed`
are the two halves of the refinement, again with one case per action.

`RewindCorrect` and `ForkPointCorrect` are about the ancestors of a head, which
are defined without recursion as what every parent-closed set containing its
parent contains. `WalkInv` says that a walk has passed no buffered ancestor of the
head: those it had are ancestors of the cursor too, because the cursor's parent
is not in the window (`AncestorStep`). So the parent that is found is the highest
of them, heights being consecutive; and after `max_walk` rounds from a head at
most one above the tip the cursor is below the window, where ancestors cannot be
(`AncestorLower`).

**ChainRunnerProofs.** `TreeAssumption` adds to the above that every header above
height 0 has its parent in the tree: the node serves its chain down to the
genesis. `RunnerInv` (theorem `RunnerInvariant`) collects, besides the buffer's
invariant: catch-up's end is `confirmations` below the node's tip and stays so,
because the tip's height never shrinks (`ScanInv`); polled, announced and handled
heads are no higher than the tip (`FeedInv`, `HeadInv`); every height in hand is
deep and was when its logs were read, whatever the refused ranges were split into
(`DepthInv`); the heights without logs are those of the ranges left, and a block
in hand has the height being processed (`TaskInv`); and, when nobody stopped the
runner, a block about to be traced or checkpointed was dispatched (`SaveInv`), from
which `CheckpointCorrect` follows.

- `FinalCorrect`: what was read from the node is on its chain (`FinalInv`). That
  it stays there needs `MaxReorg <= Confirmations`, which is what the number of
  confirmations is for.
- `ServedCorrect` has to exclude that a height is dropped between the buffer and
  the checkpoint. The checkpoint is one height, so everything not yet served must
  be above it: the window, the heads announced or still to be polled, the head in
  hand and the list of heights left (`AheadInv`). That rests on how heads can
  arrive: what a queued or handled head has buried is settled (`LogInv`), later
  announcements are not that deep (`QueueInv`), polled heads rise (`PollInv`).
  `LiveAssumption` adds to `MaxReorg <= Confirmations` that the checkpoint row
  found at the first start is of a block `confirmations` deep, as every row the
  runner writes. `Confirmations` may be 0, the default of `apps/web/schemas.py:26`:
  the first polled head can then be the very block of that row, which an earlier
  process delivered (`Inherited`).
- `CatchupCorrect`: below the next window every slot that was final when the scan
  began was asked for or is on the list (`WindowInv`); the slot in hand was asked
  for; the node's final slot never goes back, so `getBlocks` at a later time names
  every block that was final before.

**ChannelsProofs.** For brokers (`BrokerInv`): the block in hand is the one behind
the checkpoint; one that no reload was under way for holds the current notifier, with
its channel open, so only torn blocks are skipped; and once its send has returned, or
it is done, it is as safe as the blocks before it. For HTTP: a block that no reload met holds the current notifier, whose
channels are open (`ReloadInv`); a send is skipped only in a torn block, and one
that is done has left its row (`SendInv`). For WebSocket sessions (`FlowInv`): the
four places a message can be in hold rising numbers, one place entirely before
the next, and together they are what was due minus what was dropped.
`NothingLostInside` says that by sets and order.

**WorkerLocksProofs.** `RenewalHasLock` is inductive once one knows that a release
has cancelled the renewal before it gives the lock up (`RenewInv`). For
`RunnerHoldsLease`, `LeaseInv` counts time: a lease in use is no older than the
number of faults, plus one unit while a renewal is due (`Fresh`). With at most one
fault that is below three units: hence `LeaseTicks >= 3`, which is the code's
30 s over 10 s (`chain_lock.py:11`). The rest of the invariant says where the tasks
of one worker can be at once (`Shape`), that a DELETE that was decided on finds the
worker's own lease, and that a worker without the chain holds no lease, so that
nobody is surprised by a key of a former life (`KeyInv`: identities are fresh).

**ConfigApiProofs.** `RowsAssumption` says that a row is not the marker of a missing
one. For the references, `WrittenKeeps` has one case per kind of request: what it
writes keeps every reference valid if the database did not refuse it; the lookups
a handler made earlier play no part, as they must not. For snapshots, `LoadInv`:
the version is read first, and a commit writes a version that was never there before
or one that is `reused` from then on (`taken` holds all that were); so a load whose
version is still the committed one, and not reused, has missed no write, and each table
it has read is what the table is now; bindings are read a subscription at a time.

**OperatorActionsProofs** holds two independent parts (the replay's specification
has its own names, `ReplayInit`, `ReplayNext`, `ReplaySpec`).

- Delivery records: ids are never reused, so a row not written yet has no retries
  against it (`FreshIds`), and a retry about to mark its row resolved has had its
  payload received where the receiver answers (`RetryWasReceived`).
- Replays: one that has not read the tip has sent nothing; one in its loop is
  inside a range whose end was confirmed when it was read and stays so.

**PlaneAndPoolProofs** holds two independent parts (the pool's specification has
its own names, `PoolInit`, `PoolNext`, `PoolSpec`, so that one module can extend
both).

- The configuration plane, for any number of changes and faults and any queue
  size. The property itself is not inductive: a commit overwrites `commits` at the
  version it writes, and a snapshot of that version would lose its cover.
  `VersionInv` says why it cannot happen while no bump was lost: a handler that has
  read the version has read the current one, so the next commit writes a version
  that no snapshot can claim yet, and two such handlers are a lost bump. `OrderInv`
  bounds the version by the changes begun; `PutInv` says that a task waits in put
  at most once, with the snapshot it has loaded. `BumpStaysLost`: the exception,
  once true, stays true. Handlers' steps (`HandlerNext`) change the database and
  leave the snapshots alone, the watcher's and the worker's (`WatcherMoves`,
  `WatcherNext`) the other way round.
- The pool, for any number of endpoints and callers, any threshold and cooldown:
  `PoolTypeOK /\ BreakerConsistent` is inductive (`PoolInvariant`), so the
  breaker's counter, cooldown and gauge agree in every reachable state, however
  calls interleave.

**BlockParsingProofs.** The parsers are functions of the block, so the work is in
relating what they compute, for any block, to what the subscriptions want.

- EVM, while snapshots are applied: `ConfigInv` says of which snapshot registry,
  matcher and filter are between the three steps of a reload, and that the cache
  holds decoders of the registry's own entries; so it changes nothing that is
  decoded (`CacheIsTransparent`), and `DecodersStayCurrent` follows. `BlockInv` says
  that the block was filtered by one snapshot, parsed under another and traced
  under a third, all of them alike to the stable subscriptions. What is left is a
  statement about those three snapshots: `LogSound` and `LogComplete` for logs, and
  one lemma per parser for calls and payments (`NativeHit`, `AbiCallHit`,
  `InternalHit`).
- EVM, trees of calls: depth, transaction and callers of a frame are recursive
  functions over frame numbers. A caller has a smaller number than what it calls
  (`FramesAreTrees`), so each of these functions exists and unfolds: a least frame
  at which it does not would have a caller at which it does (`LeastNat`,
  `FrameRecursion`). `Walked` agrees with the depth limit and the failed callers in
  the same way.
- EVM, the assumptions: ids of ABIs are primary keys (`IdsAreUnique`). A topic0 is
  the hash of a signature that contains the name, so events with one topic0 have
  one name; it has 32 bytes and a selector 4, so they are never equal; selectors may
  collide (`KeysAreHashes`). Filters and arguments hold JSON values
  (`ValuesAssumption`).
- Solana, IDL types: `ResolveType` and `Built` are layers, one for each level of the
  recursion limit (`LayerRecursion`). `KnownIsDeclared` shows that the index holds
  exactly the entries whose types are built from scalars within the limit: the path
  of struct names, by which `_resolve_type` stops at cycles, refuses nothing else,
  because a struct is not on the path of a type it is built from. Struct names
  are unique in an IDL (`ParsingAssumption`).
- Solana, the log: unless the parser is confused, its stack is the runtime's and
  its events are the known messages, each under its program (`LogInv`). A line is
  about one instruction (`LinesInv`), so an event's line says which one it reports;
  a transaction that failed yields nothing (`PipelineInv`).
- Solana, accounts: when the node names every account of an instruction, each
  position holds the account of its role (`AccountsByRole`), and the row of the
  layout that the parser uses serves it (`RowServes`, one lemma per row).
  `RolesAssumption` says that an instruction has the accounts of its roles and that
  the source of a token instruction is a token account.

The proofs corrected the model. `Ambiguous` had spoken of one ABI and missed two ABIs
with one event name; `CallsExact` had missed colliding selectors; `Clear` had missed
bounds that are no numbers; and the definition of what an instruction did had a
`CASE` with overlapping arms. The run's snapshots now include the first of these.

Only model-checked are the liveness properties (`TipIsFollowed`, `AllSlotsServed`,
`ConfigConverges`, `OrphanLeaseExpires`, `EnabledChainIsServed`, `BlocksComplete`,
`PrimaryIsUsedAgain`, `SomeCallsSucceed`, `SuccessRowsCapped`, `TakenIsReplayed`,
`GoneClientIsClosed`): fairness and ENABLED are outside the prover's reach. The
library's induction theorems are too, since they take an operator as a parameter;
where a proof needs an induction it takes a least counterexample instead.

## Not modelled

- The bytes of ABI, borsh and base58 data, read by third-party codecs: a log or
  a call decodes or does not.
- `core/abi/idl_fetcher.py`: one download for the operator, no state.
- Payload layout, signing and headers of HTTP notifications: formatting.
- Test, health, status, lag and log endpoints: no state of the system changes.
- Metrics (but the breaker's gauge), logging, settings, migrations, the web frontend.

## Plan

The parts of the system that keep state are modelled and the safety properties that
the runs check are proved. Two more abstract specifications are worth stating:
an at-least-once delivery log (blocks are delivered, then passed by the checkpoint)
implemented by `BrokerChannels` and `Delivery`, and a lease with one holder
implemented by `WorkerLocks` without faults.
