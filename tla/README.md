# cusf-enforcer-mempool in TLA+

This directory holds a TLA+ development of `cusf-enforcer-mempool`: a task that mirrors a bitcoind
node's mempool, keeps out of the mirror what a CUSF enforcer rejects, and serves block templates from
it. Paths such as `task.rs:213` are below `lib/mempool/sync/` unless they say otherwise.

## The system

| Component | Source | State | Operations | Made correct by |
|---|---|---|---|---|
| ZMQ sequence stream | `lib/zmq.rs` | two expected sequence numbers | check and yield a message | what is yielded is an unbroken piece of what was published; no loss passed over, no false alarm |
| Mempool sync task | `sync/task.rs` | `MempoolSyncInner` (behind a lock), `SyncState` | snapshot, handle a ZMQ message, handle a response, apply the next sync action, time out, shut down | mirrors the node when quiet; never waits for nothing; never builds on a rejected block; tip always present |
| Request queue, RPC batches | `sync/mod.rs` | linked hash set of requests | push to either end, remove, take a batch | no request twice, none lost, bounded batches in order |
| Combined stream | `sync/mod.rs` | round-robin position | next of: message, response, timeout, shutdown | no source starves |
| Abandoned pool | `sync/abandoned_pool.rs` | abandoned txs, three inverse maps | insert, remove, remove or restore descendants | exactly the txs whose missing parents are back are restored |
| Mempool | `lib/mempool/{mod,iter,iter_mut}.rs` | txs with ancestor and descendant statistics, fee rate index, chain | insert, remove, filter, propose txs | index and statistics agree with the graph |
| Initial sync, node task, composition | `lib/cusf_enforcer.rs` | block synced to and its parent | `sync_to_tip`, `initial_sync`, `task`, `Compose` | enforcer and stream end at the same block |
| getblocktemplate server | `lib/server.rs` | cached templates, known targets, number of the next longpollid | template, proposal, submission, long poll | a template belongs to the mempool's tip and is no older than the cache allows; it is a valid block that pays what there is; every request is answered |
| Block producer | `lib/cusf_block_producer.rs` | none | coinbase outputs, txs before and after those of the mempool, txs to leave out | what it asks for is kept to |
| mempool.dat reader | `lib/mempool/dat.rs` | none | decode | pure |
| Application | `app/` | the shutdown channel | start the tasks | — |
| bitcoind | external | chain, mempool | notify, answer | — |

The task owns `SyncState` and takes the write lock of `MempoolSyncInner` for each stream item: it
handles the item and then applies sync actions from the head of `action_queue` until one has to wait
for a response. The requests that handlers and actions push go to the request queue, which the response
stream drains one batch at a time; responses come back as stream items. ZMQ messages are published by
the node in the order of its changes, but responses describe the node at the time they are served, so
the two sources overtake each other. That, the snapshot taken in between, and block rejections, which
travel to the node as `invalidateblock` and come back as disconnects, are what is hard about it.
`PROJECT.json` lists the hazards line by line.

## The modules

| Module | Models |
|---|---|
| `SequenceStream` | `subscribe_sequence` with `check_mempool_seq`, `check_zmq_seq` and `check_seq_numbers`; a node that publishes and a socket that loses and repeats |
| `SequenceStream_proofs` | its theorems |
| `TxGraph` | the constants that describe txs and blocks, and operators on them |
| `BitcoinNode` | the node (external) |
| `RequestQueue` | operators for the request queue: `push_back`, `push_front`, `poll_next` |
| `AbandonedPool` | operators for what the four operations of the abandoned pool promise |
| `AbandonedPoolSpec` | the promise as an abstract machine; extends `AbandonedPool` |
| `AbandonedPoolMaps` | the pool with its entries and inverse maps as the code keeps them; implements `AbandonedPoolSpec` |
| `MempoolSync` | the sync task; extends `BitcoinNode`, `RequestQueue` and `AbandonedPool` |
| `CombinedSync` | the sync task polled through `CombinedStream`, with the action timeout and the shutdown signal; extends `MempoolSync` |
| `MempoolTxs` | `Mempool` of `lib/mempool/mod.rs` as operators: `insert`, `remove`, the walks over ancestors and descendants, the index; extends `TxGraph` |
| `Mempool` | the mempool with its callers: what the sync task applies, `remove_with_descendants`, `propose_txs`; extends `MempoolTxs` |
| `EnforcerSync` | `sync_to_tip`, `initial_sync` and `task` of `lib/cusf_enforcer.rs`, with a `Compose` of two enforcers; extends `BitcoinNode` |
| `BlockTemplate` | `block_txs` and `finalize_coinbase_tx` of `lib/server.rs`, with `try_filter` and the block producer; extends `Mempool` |
| `BlockTemplateServer` | the server's requests: long polls, cache, known targets, proposals |
| `TxGraph_proofs` | lemmas about the orders of a set, about blocks below a block, and about sums over sets of txs |
| `BitcoinNode_proofs` | lemmas about what the node publishes; extends `TxGraph_proofs` |
| `MempoolSync_proofs` | theorems about `MempoolSync` and `CombinedSync`; extends `CombinedSync` and `BitcoinNode_proofs` |
| `EnforcerSync_proofs` | theorems; extends its component and `BitcoinNode_proofs` |
| `Mempool_proofs` | theorems about `Mempool` and `BlockTemplate`; extends `BlockTemplate` and `TxGraph_proofs` |
| `AbandonedPoolMaps_proofs`, `BlockTemplateServer_proofs` | theorems; extend their component |
| `MC...` | the graphs and the instances for TLC |

`TxGraph` and `BitcoinNode` are shared: `MempoolSync` and `EnforcerSync` each compose a client with the same
node. `MempoolSync` uses the pool's promise, and `AbandonedPoolMaps` is shown to keep it, so the maps need not be
carried through the interleavings of the task. `BlockTemplateServer` and `BlockTemplate` share the server: the first has
the concurrency and sees a template as the tip and the age of the mempool it was made from, the second has the contents
and runs under the read lock that the first takes in one step. `Ancestors` and `DescendantsIn` are least closed sets
rather than recursive functions, which is how they can be reasoned about.

**SequenceStream.** A message is a position in the node's log. `Recv(i)` is one turn of the stream:
`pos + 1` is the next message, `pos` the last one again, anything later a loss. `delivered` is a ghost.
zmq numbers are taken modulo `ZmqModulus` (2^32 in the code); `OverflowChecks` tells a debug build, in
which `zmq_seq + 1` panics, from a release build, in which it wraps. The node's log starts at
zmq number 0 of the modulus, which a fresh subscriber may see at any position.

**MempoolSync.** The variables have the names of the fields they stand for. `blocks` maps a fetched
block to whether `confirmations > 0` held when it was served, the only thing about it that can go
stale. `phase` is where the task is: `snapshot`, `fees` (between the two `getrawmempool` calls),
`wait` (the lock is free), `apply` (in the loop over sync actions) or the error that ended it. Actions:

| Code | Actions |
|---|---|
| `init_sync_mempool` | `Init`, `TakeSnapshot`, `TakeFees` |
| `handle_seq_message` and below | `HandleSeq` |
| the response stream, `batched_request` | `TakeRequest`, `ServeRequest`, `RequestFails` |
| `handle_resp` and below | `HandleResp` |
| `try_apply_next_sync_action`: nothing left | `QueueEmpty` |
| `try_add_tx_from_caches` | `AddKnown`, `AddUnfetched`, `AddWithRejectedParent`, `AddWithRequiredParents`, `AddAbandoned`, `AddAccepted`, `AddRejected` |
| `Removed` in `try_apply_seq_message` | `ApplyRemoved`, `RemovedUnknown` |
| `connect_block` | `ConnectUnfetched`, `ConnectCovered`, `ConnectUnexpected`, `ConnectRejected`, `ConnectAccepted` |
| `handle_disconnected_block` | `DisconnectRejected`, `DisconnectEarly`, `DisconnectMismatch`, `DisconnectFetchesParent`, `Disconnect` |
| `task_inner` | `ApplySyncActionTimeout`, `Shutdown` |

`CombinedSync` replaces the free choice of what comes next by `poll_next`. `PollNothing` is one attempt that finds
nothing, `PollSequenceMsgs`, `PollResponses`, `PollTimeout` and `PollShutdown` are the four arms that return. `expired`
is true once the head of `action_queue` has been there for 15 s, and falls when the timeout is rebuilt for another head
(`RestartsTimeout`). A request goes out only when the response stream is asked, as in the code. `passed_over` is a ghost.

`synced` is the return of `task_inner::<true>`; it is `IsSynced` looked at when the lock is released,
as `continue_loop` does, and the same loop runs on afterwards.

Abstractions, and why they keep what the properties are about:

- Fees, weights and scripts are left out: what the enforcer rejects is `RejectsTx` and `RejectsBlock`,
  what it wants removed `RemovedOnConnect` and `RemovedOnDisconnect`, arbitrary constants.
- `mempool` is a set; `remove_with_descendants` is modelled on it. Errors inside the mempool, which end the
  task, are the subject of the module `Mempool`.
  `insert` of a tx that is there already changes nothing, as the code takes `TxAlreadyExists`.
- A batch is served at one instant (`ServeRequest`); what happens before and after is interleaved freely.
- `prioritisetransaction` only makes an eviction likely, which the node may do at any time anyway.
- `handle_resp_block` applies the head action itself before it stores the block. The loop that follows
  takes the same action in the same way, so `HandleRespBlock` leaves it to the loop.
- The order among hash-set iterations is free (`SetToSeqs`), among restored txs any topological one.
- The node's order of evicted descendants and its mempool sequence convention (`ReportsNext`) are free:
  the code is checked against both.

**EnforcerSync.** `enforcer` is the block that each half of the `Compose` is synced to. `sync_tip` is `tip`
of `sync_to_tip`, `invalidated_blocks` its set; `block_hash`, `block_parent` and `best_block_hash` are the
locals of `initial_sync`. `phase` is where the code awaits something: `subscribed`, `left` and `right` (the
half whose `sync_to_tip` runs), `invalidating`, `synced` (before the second `getbestblockhash`), `reading`
(the loop `'drop_seq_msgs`), `done`, `task`, or the error that ended it.

| Code | Actions |
|---|---|
| `initial_sync`: first `getbestblockhash`, `getblockheader` | `FetchBestBlock` |
| `Compose::sync_to_tip` | `EnforcerSyncs` for either half |
| `sync_to_tip`: `InvalidBlock`, assertion, `invalidateblock`, next tip | `EnforcerReportsInvalid`, `RetrySync` |
| `initial_sync`: second `getbestblockhash` | `BestBlockReached`, `BestBlockChanged` |
| `'drop_seq_msgs` | `DropsConnect`, `DropsDisconnect`, `DropsDisconnectOfFirst`, `DropsTxMsg` |
| `task` | `TaskStarts`, `TaskSkipsTxMsg`, `TaskConnects`, `TaskConnectFails`, `TaskDisconnects`, `TaskDisconnectFails` |
| any failing RPC, stream or enforcer, shutdown | `Interrupted` |

An enforcer may or may not look at blocks while it syncs, as the trait allows: with a block it rejects
below the tip, both `EnforcerSyncs` and `EnforcerReportsInvalid` are possible. One that keeps a chain of its
own cannot connect a block that does not extend it; `TaskConnectFails` and `TaskDisconnectFails` are its errors.
`TaskConnects` is one step although it awaits between the two halves: nobody else sees the enforcers, and an
error in between ends the task. `fresh` is a ghost, explained below.

**Mempool.** `pool` is `Mempool` without its chain: `txs` maps a tx to its `TxInfo`, `tx_childs` and
`by_ancestor_fee_rate` are as in the code. Every call of `remove`, each turn of the loop in
`remove_with_descendants`, each package chosen and each tx of a package is a step; `calls` holds what the caller
still has to do under its lock, so that a step may fail while others are still to come.

| Code | Actions |
|---|---|
| `try_add_tx_from_caches`: accepted, rejected, rejected parent | `AddTx`, `RejectTx`, `AddWithRejectedParent` |
| `Removed` in `try_apply_seq_message` | `Evict` (the node), `ApplyRemoved` |
| `connect_block`, `handle_disconnected_block` | `ConnectBlock`, `RejectBlock`, `DisconnectBlock` |
| `remove`, `remove_with_descendants` | `RunCall`, `PopRemoveStack` |
| `propose_txs` and `propose_txs_mut` | `StartProposal`, `ChoosePackage`, `AddFromPackage`, `FinishProposal` |

Here the order of announcements is what the node's consensus rules allow, and all fetches have succeeded; which of
these orders the task really produces is the subject of `MempoolSync`. `under_child` is a ghost: a tx was inserted
while its child was in the mempool, after which finding 3 applies. `left_behind` is one too: a tx was evicted while a
child of it stayed (see below, what was seen about the mempool). Left out: totals over descendants and
`ancestor_vsize`, which are kept but never read; saturation and overflow, for which the amounts would have to
exceed all there are. `try_filter` is in `BlockTemplate`. `WeightLimits` are those after the minimum with
`MAX_USABLE_BLOCK_WEIGHT`. A modified weight is positive (`ModifiedWeightAssumption`).

**AbandonedPoolMaps.** `abandoned_txs`, `absent_parent_to_child_txids` and `available_parent_to_child_txids` are the
maps of the code; an empty set stands for no entry. `call` has the locals of the call under way. `insert` and `remove`
are a step each (`InsertNew`, `InsertAgain`, `RemoveTx`); the loops of `remove_descendant_txs` and
`restore_descendant_txs` are `RemoveDescendants`, `RemoveNext`, `RemoveReturn` and `RestoreDescendants`, `RestoreChild`,
`RestoreNext`, `RestoreReturn`. In the refinement mapping the abstract pool is `Missing`, what every member misses, and
during a call what it was before the call. `insert` is called with at least one missing parent, as
`try_add_tx_from_caches` does (`task.rs:786`). Which available parents the pool remembers depends on its past, so
`PoolInserts` leaves it open which members are linked to a tx that comes back as abandoned.

**BlockTemplateServer.** A request goes through the awaits of `build_block_template` and `validate_proposal`; each is a
`stage`, at which any other request, the node, the mempool task and the clock may go on.

| Code | Actions |
|---|---|
| `get_block_template`, proposals | `GetBlockTemplate`, `ProposeBlock` |
| `tip_rx.wait_for` with `LONG_POLL_TIMEOUT`, then `Utc::now` | `Wakes` |
| `MempoolSync::with`: `try_take`, `query_mempool` | `Query` |
| `known_targets`, `get_mining_info`, the rest of `build_block_template` with `put` | `LookUpTarget`, `GetMiningInfo`, `InsertTarget` |
| `validate_proposal`: the node, then the enforcer | `AskNode`, `AskEnforcer` |
| clock, node, mempool task | `Tick`, `NodeMoves`, `MempoolFollows`, `MempoolTxsChange`, `SyncEnds` |

`MempoolFollows` may leave the mempool's tip where it is: that is a block the enforcer rejects, or its disconnect.
`SyncEnds` is the end of the sync task with its error handler, when the last strong reference to the mempool and the
sender of the tip go; while the handler runs, the mempool that stands still is served like any other.
`past` is a ghost: what the mempool was at each time. `submit_block` hands a block on to the node and is not an action.
The clock does not step back, and `CacheLifetime < LongPollTimeout` (`LifetimeAssumption`): a cache that lives longer
may answer a long poll that timed out with the very template that it came with. The lifetime is a parameter of the
server. Without a cache (`app/main.rs:123` makes it optional) `HasCache` is `FALSE` and no template is ever taken or
put; the theorems are for both, the run has a cache. All tips of the run have the same target, since no property tells
one target from another.

**BlockTemplate.** Under the read lock, one template at a time: `StartTemplate` clones the mempool, inserts the prefix
txs and lists the removals of the two `try_filter` calls; `Filters` carries them out with the steps of `Mempool`;
`StartProposing` computes the weight that is left; `ProposeTxs` are the steps of `propose_txs`; `FinishTemplate` has the
producer's `finalize_block_template`, the `depends` and, for a `coinbasetxn` template, the coinbase; `Respond` releases
the lock. The producer's demands (`InitialTemplates`), and what `finalize_block_template` makes of its suffix and of its
txouts (`Finalized`), are arbitrary up to its contract (`KeepsContract`, in the assumption `ProducerContract` of the
theorems, which `MCBlockTemplate` evaluates): its txs, those it begins with and those it ends with, spend only what comes
before them in the block, and what conflicts with them it excludes, since a prefix tx is inserted without conflicts and
nothing else would take them out. There are two weights, as in the code: `Weight` is that of a tx itself, with which the
producer's txs count (`server.rs:655-672`), and `ModifiedWeight` is that with the enforcer's `weight_tweak`, with which
mempool txs count. After `finalize_block_template` nothing is weighed again, and neither does the model. A template of
kind `coinbasevalue` has no txouts, no coinbase and no error for txouts that exceed the reward; its value is a constant of
the server (see below, what was seen about the server). Abstractions: all txouts of the producer weigh the same
(`TxoutWeight`), and a prefix tx has its modified weight while it is in the clone, which nobody looks at. Errors of the
producer and of deserialisation are left out; the error of `propose_txs` for an ancestor that it does not find, and the
one for txouts that exceed the reward, are `failed`.

## What is checked

Every bound is a constant of a `.cfg`: `MaxPublished`, `MaxBurst`, `MaxSilent` (SequenceStream),
`MaxNodeEvents`, `MaxBacklog` (BitcoinNode, and so MempoolSync, CombinedSync and EnforcerSync), `MaxBlocks`, `MaxReorgs`
(Mempool), `MaxNow`, `MaxTips`, `MaxTxChanges`, `MaxRequests` (BlockTemplateServer).
Runs stop when the node has used up its events, so deadlock is not checked; that nothing else stops is `Settles`.
`Mempool` stops after an error, as the task does. `AbandonedPoolMaps` has no bound and never stops, so deadlock is checked
there; `BlockTemplateServer` stops when the requests are used up, and `RequestsEnd` says that nothing is left parked.

| Run | Shows | Instance |
|---|---|---|
| `sequence_stream` | `GapFree`, `LossEndsStream`, `NothingSwallowed` | 6 messages over 4 zmq numbers, so the counter wraps, losses up to the longest that 4 numbers tell from a repeat |
| `sync` | `TypeOK`, `HeadAwaited`, `MirrorsNode`, `FilterExplained`, `TipKnown`, `TipFollows`, `RejectedNeverBuiltOn`, `NeededRequested` | a chain of three txs: f in the block that is the tip, p in the mempool, c to come; p is rejected as long as it is unconfirmed; above the tip a block that mines p, and a rejected one with a child; a backlog of 2 connects, 2 node events, failures |
| `combined` | `NobodyStarves`, `Settles`, `SyncCompletes`, `ShutdownEnds` | a tx that a block mines and a child of it that the enforcer rejects, 2 node events, a seeded tx cache; failures, timeout and shutdown at any time |
| `enforcer_sync` | `SyncedTogether`, `NothingMissed`, `CleanHandover`, `NeverPanics`, `EnforcersAgree`, `FreshSyncCompletes` | a fork of two blocks on either side, each enforcer rejects something, backlog of 1 connect, 3 node events, failures |
| `mempool_templates` | `ChildsExact`, `LinksExact`, `TotalsExact`, `IndexAgrees`, `CallsSucceed`, `TemplateOrdered`, `TemplateConflictFree` | four txs: a triangle f, p, c in which the child pays for its parents, and a conflicting sibling of p; one block connected and disconnected; two weight limits, of which the smaller does not hold all |
| `abandoned_pool` | `NobodyStranded`, `Implements` | a diamond of four txs in which the last spends also the first; any calls, without bound |
| `server` | `ServedOnTip`, `ServedFresh`, `PollRefreshes`, `AcceptedByBoth`, `RequestsEnd` | two clients, two requests, two tips, one change of txs, four times, a cache lifetime of 1 and a long poll of 2 |
| `block_template` | `BlockValid`, `BlockFits`, `DependsSound`, `CoinbasePaysAll` | the txs of `mempool_templates` and one the producer makes; templates of both kinds, prefixes of up to two txs, a suffix of one, any exclusions, three reserved weights, with and without a txout; in the end a tx or a txout comes on top or what was there is gone; one mempool tx is lighter, by its tweak, than it is, the others heavier; heights around a halving and at the 64th |
| `new_block`, `restore`, `reorg`, `confirmed` | the four findings | the smallest instance that has them; in `confirmed` what the node does is fixed (`NodeReturns`): it leaves two blocks that confirm a tx and its child for another branch, and comes back to them |

Two requests are enough for one that answers while the other is parked, or for a poll after a template; two tips are enough
for a node ahead of the mempool. Times 0 to 3 hold a request that comes at 0 or 1, is parked for 2 and meets a template
of before. In `block_template` 30 units hold all txs or, with 40 reserved, none.

Two events of the node are enough for an eviction and a new announcement around a fetch, for a tx to be mined and its child
to appear, for a tx that a reorg puts under its child, for a rejected block and a child of it or a competing block, and
for blocks of the backlog that are no longer the node's; the invalidations that the task causes come on top and
are not counted. Three let the node of `enforcer_sync` leave a branch, extend the other and come back while an enforcer
syncs. All actions fire.

**Properties of MempoolSync.** `Quiescent` is: everything published has been read, every action applied,
every request answered. `MirrorsNode` and `FilterExplained` are the purpose of the task. `MirrorsNode` is
about the states in which every message has been read and applied, because until then the mirror lags; requests may still
be open, and the tips may differ as in finding 1. It says of `unfiltered_txs` that it holds the node's mempool, and of
both mempools that they hold nothing else but txs of the node's chain. That they hold none of these either is
`ConfirmedDropped`, which finding 4 refutes. What `mempool` lacks is the subject of
`FilterExplained`, in every state: what was rejected, what the enforcer had removed, and what was never shown to the
enforcer because the tx, or a parent of it, counted as unavailable when its turn came. The history variable
`left_out` keeps those; it is not in the code, and no guard reads it. It is needed because the marks that made the
code leave a tx out (`unavailable_txs`, the abandoned pool) may be gone while the tx is still left out. What this
gives up is a property of its own, `AbandonedComeBack`: that a tx is no longer left out once it is at hand together with
its parents. Finding 2 refutes it. `HeadAwaited` is the reason
why the 15 s timeout does not fire: whatever the head waits for has been asked for. It has one exception, the
disconnect of a block that was covered as in finding 1. `NeededRequested` is
its counterpart for the end of the initial sync. `TipKnown` is what `Mempool::tip` indexes with.

**Properties of EnforcerSync.** `Leads(msgs, from, to)` says that the block messages in `msgs` describe a
way from one block to the other. `NothingMissed` is what whoever reads the stream next relies on: some
suffix of what is unread leads from the block returned to the node's tip, so nothing is lost.
`CleanHandover` says that this suffix is all of it. It needs `fresh`: no block message was unread when the
first best block was asked for. Otherwise a message older than that block is still in the stream, which
happens when bitcoind is flushing its queue (see below, what was seen while modelling). `FreshSyncCompletes` is
termination under the same condition.

**Properties of Mempool.** The first four say that the structure agrees with the txs in it; `CallsSucceed` is what
the callers rely on, since any error of theirs ends the task. `TemplateOrdered` and `TemplateConflictFree` are
promised to the miner; both compare the finished part of the template with the mempool
it was cloned from, so that nothing changed in the clone in between can hide a mistake. `TotalsExact` waits until
evictions are complete: while a middle tx is gone and its child is not, the child keeps the totals of ancestors that
are no longer reachable. It stops at `left_behind`, with which that state lasts. `MutualConflicts` and
`CoherentPackages` are what `TemplateConflictFree` expects of the enforcer; `MCMempool` assumes them, so every run
evaluates them. Four txs are the least for a diamond of paths (f - c and f - p - c) together with a
conflict that reaches a child through its parent; the weights are no multiples of 4. The run reaches templates of
three txs, conflicts removed from the clone, a stack of two children, parentless txs, proposals halfway through an
eviction, and the error of finding 3.

**Properties of CombinedSync.** `NobodyStarves`: while a source has something, no other one goes before it twice.
`ShutdownEnds`, `Settles` and `SyncCompletes` are what that is for: the fairness is only that the task is polled, so with
a stream that preferred one source they would fail. `Settles` and `SyncCompletes` allow the task to end instead, but
with `Interruptions` only the timeout, the shutdown or a failing RPC can end it, and none of these is ever forced.

**Properties of AbandonedPoolMaps.** `NobodyStranded` is what `is_synced` and the restoring of txs rely on. `Implements`
says that all that callers see, the txs returned and their order, is that of a pool without maps.

**Properties of BlockTemplateServer.** All relate an answer to states that other actors had while the request was handled.
`ServedOnTip` speaks of the mempool's tip, which may lag behind the node's. `ServedFresh` counts from the time that was
taken before the txs were read, so an answer that is long on its way does not make its cached copy look younger.
`PollRefreshes` has an exception for a tip that was left and came back. No property is about the target: the code does
not keep what its comments say of it (see below), and what it keeps is not worth stating.

**Properties of BlockTemplate.** `BlockValid` is validity as far as order, double inclusion, conflicts and exclusions
go. `BlockFits` has two preconditions. What the producer asks for fits by itself, for otherwise the code asks for no
mempool txs and serves a block that is too heavy. And `KeepsWeight`: the suffix and the txouts that
`finalize_block_template` leaves weigh no more than what was asked for, reserved weight included; the code does not look.
The property then says of the weights by which the block is filled that they keep to what is usable, and of the real
ones the same unless the enforcer's tweak has made a chosen tx lighter than it is. A negative `weight_tweak`
(`cusf_enforcer.rs:39-41`) does let the real block exceed the limit; the run has such a tweak. The coinbase
counts with its payout, as a miner of a `coinbasevalue` template needs it. `DependsSound` is exact without prefix txs
(see below). `CoinbasePaysAll` is about `coinbasetxn` templates only; it compares the shift of `get_block_reward` with
repeated halving, and takes the txouts as `finalize_block_template` has left them.

**Fairness.** `CombinedSync`: weak fairness of polling as a whole, of the rest of the loop, of the node's answers and of
its invalidations: tokio polls the task when one of its sources is ready, and jsonrpsee answers or fails. No source is
given a fairness of its own, and nothing is assumed of the node's spontaneous changes, of failing RPCs, of the timeout
or of the shutdown signal. `EnforcerSync`: weak fairness of the node's answers and of the task's steps. Failures are allowed but
never forced, so `FreshSyncCompletes` says that the sync ends by itself unless it is interrupted.
`BlockTemplateServer`: the clock goes on (`Tick`), and each request is polled when what it awaits is ready (`Handle`):
requests are tasks of their own, and the client of the node has timeouts. `SequenceStream`, `Mempool`, `BlockTemplate`
and `AbandonedPoolMaps` have safety properties only and state none.

## Findings

1. **A new block is dropped as stale** (`new_block`). The check for stale connects (`task.rs:213`) comes
   before the resync of a stuck unfiltered tip (`task.rs:238`) and compares with that tip's height.
2. **An abandoned tx does not come back** (`restore`). `abandoned_pool.rs:8` says that when a removed tx becomes available
   again, what depends on it in the abandoned pool "can be validated and added back into the mempool", and `task.rs:462`
   queues `InsertTx` for that. But abandoning a tx put it into `unfiltered_mempool.txs` (`task.rs:796`, `:815`), and
   `try_add_tx_from_caches` does nothing for a tx that is there (`task.rs:747`). In the run the parent comes back with a
   block (`task.rs:522`); a parent that is announced again takes the same way (`task.rs:456`). The run has `MaxBatch = 1`
   so that the tx and its parent are fetched apart; a batch that is full (`MAX_TX_REQUESTS_PER_BATCH`) does the same.
3. **A reorg can end the task later on** (`reorg`). `insert` of a tx whose child is in the mempool changes the
   child's ancestor totals but not its key in the index (`lib/mempool/mod.rs:618`), so the next removal of the tx,
   for instance when it is mined again, ends with `MissingByAncestorFeeRateKey`.
4. **A confirmed tx comes back** (`confirmed`). A block event asks for its block unless that has arrived already
   (`task.rs:395`), so a block that is with the node at that time is answered twice. Each answer restores what was
   abandoned for want of the block's txs (`task.rs:522`), wherever the chain is by then. If meanwhile the node has
   come back to the block, and to one above it that confirms an abandoned child, the second answer queues `InsertTx` for
   the child, although connecting has taken it out of `unfiltered_mempool` (but not out of the abandoned pool). It
   then is in both mempools, and every template with it is invalid; no later message is about it but those of a reorg.
   Every behaviour of the run is one of `MempoolSync`: only the node's part is fixed, and `NodeReorg` stands for a reorg
   or for an `invalidateblock` that is taken back. Found while the invariant for `MirrorsNode` was sought.

Seen while modelling, without a run of their own: once the unfiltered tip is stuck at a rejected block, a
reorg of the filtered tip ends the task with `DisconnectTipMismatch` (`task.rs:344`); a block covered as in
finding 1 makes its own later disconnect wait until the timeout; a block rejected during the initial sync
keeps `is_synced` false until another block connects; `remove_mempool_txs` of a disconnect is neither
recorded in `rejected_txs` nor sent to the node (`task.rs:375`), unlike that of a connect (`task.rs:311`); `task`
of `cusf_enforcer.rs` hands a `Connected` left over from before the sync to the enforcer a second time
(`cusf_enforcer.rs:483`), and the loop `'drop_seq_msgs` does not look at the shutdown signal. The filtered mempool is
not always part of the unfiltered one, as the comment at `task.rs:1608` has it, and no property relies on that: a
rejected block takes its txs out of the latter only (`task.rs:255`, `:319`). An answer `unavailable` that a later `Added`
has overtaken is applied as if it were current (`task.rs:1061`), and likewise an `Added` of a tx that is still in
`tx_cache` leaves an older mark in `unavailable_txs` (`task.rs:445`): in both cases a tx that the node has may be left out
of the mempool for as long as it is there, although it has been fetched. What a connected block removes together with its
descendants (`task.rs:297`) leaves the descendants unmarked: only the named txs go to `rejected_txs` (`task.rs:311`). A
new child of such a descendant finds it in `tx_cache` (`task.rs:677`) and is accepted, rather than abandoned or rejected,
and comes into a template without its parent.

About the mempool: after a middle tx was removed, the descendant totals of its ancestors still count its
descendants, which nobody reads; `Ancestors` does not yield ancestors before descendants in a diamond, contrary to
`iter.rs:10`, and nobody relies on it; a tx that spends two txs which the enforcer holds to conflict puts both into
a template, since `propose_txs` does not look for conflicts within a package, so `TemplateConflictFree` has the
condition `CoherentPackages`. `remove` takes from the totals of the descendants the share of the removed tx alone
(`mod.rs:694`), so a tx that stays when its parent goes keeps counting what lay behind that parent. While evictions
are half done that passes; but after a rejected block the mempool holds txs that the node does not, and if the node
then takes up and evicts the parent without the child, the child keeps a wrong fee rate for as long as it is there.
Found while the invariant for `TotalsExact` was sought: `left_behind` stands for it. The refinement order of fee
rates is none if a vsize is 0 (`mod.rs:231`); and an index entry left behind by finding 3 uses up the weight of its
package in every round of `propose_txs_mut` without adding anything.

About the sync: `first_mempool_sequence` is documented to drop messages (`task.rs:139`), yet a message below it is
queued all the same (`task.rs:504`), and a `Removed` that the snapshot already covers ends the task. In the initial sync
of the enforcer, a `Connected` from before the subscription that arrives after it makes `block_parent` the block itself
(`cusf_enforcer.rs:375`), and a disconnect caused by an invalidation is then followed to the wrong block: the sync may
wait forever. A `Compose` whose right half reports a block as invalid leaves its left half synced past it
(`cusf_enforcer.rs:567`), unlike `connect_block`. `app/main.rs:96` drops the sender of the shutdown channel at once
(`let (_, shutdown_rx)`), although the line above says that nothing is sent on it: the receiver is ready from the start,
and `ShutdownEnds` then says that the demo application does not get past its initial sync unless that ends before the
signal's turn.

About the abandoned pool: a tx that is restored stays in the maps of its other parents, and nothing clears such entries
(a leak, which `Implements` shows to be harmless); what is restored for the later txs of a block goes to the front of the
action queue before what is restored for the earlier ones, so a tx may be queued before a restored parent of it
(`task.rs:520`); the link from an available parent to a member may be lost when the parent comes and goes, and a later
`insert` of the parent then does not count as missing.

About the server: `known_targets` is documented to hold "known targets for the next block" of a tip (`server.rs:230`), and
the node to be asked "1 time per chain tip" (`server.rs:1013`). But the node is asked after the template's tip was
read (`server.rs:1021`), so if its tip has moved on, the target of a later block is filed under the old tip, and is
served with every template on that tip from then on; and two requests that find no target both ask. A `coinbasevalue`
template never reaches `finalize_coinbase_tx`: it has the `coinbasevalue` of the sample template that the server got at
startup (`server.rs:1048-1050`), which is wrong for other fees and after the next halving. A cached
answer repeats its old `curtime`. `depends` of a mempool tx keeps the numbers that `propose_txs` counted from
the first mempool tx, and gets the real ones added (`server.rs:719`): with prefix txs it also names unrelated earlier
txs. The numbers count from 0. A prefix tx inserted under its child in the clone meets finding 3.

## What is proved

`SequenceStream_proofs` proves, for every modulus above 2, burst, log length and both overflow modes,

- `TypeCorrect`: `Spec => []TypeOK`,
- `StreamGapFree`: `Spec => []GapFree`,
- `LossDetected`: `Spec => LossEndsStream`,
- `NoFalseAlarm`: `Spec => NothingSwallowed`.

The properties alone are not inductive. The invariant `IInv` adds what the counters know: as long as the
stream is open, `next_zmq_seq` is `pos + 1` modulo `ZmqModulus`, the last message delivered is the one at
`pos`, mempool numbers in the log increase, and `next_mempool_seq` is one more than that of the last
mempool message up to `pos`, with `AtLeast` exactly if a block event came after it. A message at
`i > pos + 1` then has a zmq number that differs from both expected ones because `i - pos` is at most
`ZmqModulus - 1`: this is where `MaxBurstAssumption` is needed, and with the code's u32 it says that
fewer than 2^32 - 1 messages are lost in a row. The proofs use arithmetic modulo `ZmqModulus` lemmas and no
assumption other than those on the constants.

`MempoolSync_proofs` proves, for every chain and tx graph, every enforcer, any number of node events and any
backlog, with or without interruptions,

- `TypeCorrect`: `Spec => []TypeOK`,
- `TipKnownHolds`: `Spec => []TipKnown`,
- `TipFollowsHolds`: `Spec => []TipFollows`,
- `RejectedNeverBuiltOnHolds`: `Spec => []RejectedNeverBuiltOn`,
- `NeededRequestedHolds`: `Spec => []NeededRequested`,
- `HeadAwaitedHolds`: `Spec => []HeadAwaited`,
- `MirrorsNodeHolds`: `Spec => []MirrorsNode`,
- `FilterExplainedHolds`: `Spec => []FilterExplained`,
- `NobodyStarvesHolds`: `CombinedSpec => NobodyStarves`.

`TipKnown` speaks of the time after the initial sync; before, the tip need not be fetched. `TipOK` adds that
it is fetched or in `blocks_needed`, which is empty when the initial sync ends. It stays so because a
disconnect first fetches the parent it moves to (`DisconnectFetchesParent`), and because no disconnect of a
block without parent is ever queued (`QueueOK`, from `NodeOK`). `RejectedOK` adds what makes rejection hang
together: the two tips differ at most by a rejected block, and a rejected block is rejected by the enforcer or
by its parent. A block that is connected has the filtered tip as its parent, and so none rejected below it.

`TipFollows` rests on an invariant about where the messages lead (`ChainInvariant`). Those that are queued or unread
either catch up, which is when the snapshot or a connect put the task ahead of them, or lie on a path from the
unfiltered tip to the node's (`LeadsOn`), and each message is placed so that it applies there (`Placed`). Between
the two tips of the task is a tower of rejected blocks at most (`Tower`). Path and tower are stated with the set of
blocks below a block, so that a step at either end is one application of `AncestorsClosed`; no induction over the queue is
needed.

`NeededRequested` and `HeadAwaited` rest on `RequestInvariant`: what is needed is in the request queue, in the
batch under way or among the responses (`AskedOK`), no request is queued twice (`RequestsOK`), and the block of
every queued event is there or needed (`QueueBlocksOK`). Its hard steps are those that take requests out of the
middle of the queue (`Without`) and those that push a set of them in any order to the front; a tx that
nobody waits for any longer may lose its request, the head may not. The types (`TypesOK`) are part of it, since what a
request asks for must be a tx or a block for the rest to make sense.

`MirrorsNode` rests on `MirrorOK`, which says of each tx what is still to come for it in the queue and in the messages
not yet read (`Unapplied`). A message is about a tx if it announces or evicts it, or connects a block that has it. The last
message about a tx is true of the node's mempool (`Truthful`); a block that is disconnected gives back txs that later
messages are about (`GivenBack`); txs of the snapshot and restored ones are inserted before any message
(`InsertsFirst`). A tx that no message is about is then where it should be: if the node has it, it is in
`unfiltered_txs` or about to be inserted; if the task keeps it, in a mempool or the abandoned pool, or is about to insert
it, then the node has it or it is confirmed at the block `pos` where the next block event applies (`HeldOK`). That it
is `pos`, and that confirmed txs are among what is kept, is what makes it inductive: a restored tx may be one that
a block mined while it was abandoned, which is finding 4. The proof needs that the node starts with no confirmed tx in
its mempool (`StartTxsAssumption`), as bitcoind ensures.

`FilterExplained` is inductive by itself, thanks to `left_out` and to being about every state. Its steps are one lemma
for each way a tx comes or goes (`AddFilter`, `RemovedFilter`, `BlockFilter`): a step has only to account for the txs that
it sets apart (`FilterStep`); a block that is fetched only adds to what the enforcer may have dropped, and descendants
grow with the set they are taken of (`DescendantsGrow`).

For `NobodyStarves` the invariant `RoundRobin` says that the sources that went before one that waits are among those
asked since it was asked itself; the source whose turn it is never is.

`EnforcerSync_proofs` proves, under the same generality,

- `TypeCorrect`: `Spec => []TypeOK`,
- `SyncedTogetherHolds`: `Spec => []SyncedTogether`,
- `NeverPanicsHolds`: `Spec => []NeverPanics`,
- `EnforcersAgreeHolds`: `Spec => []EnforcersAgree`,
- `NothingMissedHolds`: `Spec => []NothingMissed`,
- `CleanHandoverHolds`: `Spec => []CleanHandover`.

The invariant adds `ReportedOK`: what was reported is invalid for the node, and once the node has left it,
neither its tip nor the tip being synced to has it below (`NodeStaysClear`); hence no block is reported twice.
`RequestedOK`: the tip synced to is the one asked for, or the one asked for has a reported block below it; hence
if the best block is the one asked for, nothing was reported, and the enforcers are at it. These proofs need
of the node that it does not connect an invalid block, and of the graph the named assumptions of
`TxGraph` (finitely many txs, heights that go up by one). `StreamInvariant` follows the reader of the stream:
some suffix of what is unread is a path of block messages from the block that the reader has arrived at to the
node's tip (`Path`, stated of positions rather than by recursion; `PathLeads` says that it is a way as `Leads` has it).
While the loop `'drop_seq_msgs` runs, the way begins at the block synced to or has still to come to it (`CursorOK`);
after it, it begins at the block handed over (`HandedOverOK`). With `fresh`, the suffix is everything.

`Mempool_proofs` proves, for every graph of txs, all fees, weights and conflicts, any enforcer and any number of
blocks and reorgs,

- `ChildsExactHolds`, `LinksExactHolds`, `IndexAgreesHolds`: the structure agrees with its txs,
- `CallsSucceedHolds`: no call ends with an error,
- `TemplateOrderedHolds`: templates are in order,
- `TotalsExactHolds`: the totals over ancestors are the sums over what is there,
- `TemplateConflictFreeHolds`: templates are free of conflicts, if the enforcer's conflicts are mutual and no tx
  combines them (`MutualConflicts`, `CoherentPackages`).

All but the first are about behaviours in which no tx was inserted under a child. The invariant has the exactness of
both mempools (`ExactOK`), what is known of the calls to come (`ControlOK`: a tx is taken out of the clone either
because it goes into the template or together with its descendants), and `TemplateOK`: what a tx of the clone spends
in the mempool is in the clone or in the template, unless the tx is on the stack of those being removed. Exactness is kept
by `remove` because exact links do not lead out of the mempool (`RelativesInPool`), so every descendant has its key
(`RemoveSucceeds`), and by `insert` because a tx without children in the mempool changes nobody's rate
(`InsertAbove`). `LeastClosed` gives what ancestors are without induction (`AncestorsMutLeast`, `AncestorsMutDirect`).

For `TotalsExact`, `TxGraph_proofs` shows that `MapThenSumSet` does not depend on the order in which a set is summed and
drops by the share of a member that is taken out (`SumAnyOrder`, `SumWithout`); the induction is `NatInduct` over the
cardinality, with a set of numbers in the place of a predicate. Who loses the share of a removed tx are its
`descendants_mut`, and whose sum it was in are those that have it among their ancestors: `DescendantsDual` says that
these are the same. A removal keeps the sums of all but the txs that still reach something through the one removed
(`RemoveExact`), so the invariant `TotalsOK` says for whom the totals may be off, in each of the ways the mempool is
changed: during an eviction those that are still to be evicted, during `remove_with_descendants` those on the stack, and
for the txs of a block nobody, since their own parents went before (`Rooted`). The last needs that no confirmed tx is in
the mempool once the calls for it are done (`ConfirmedOK`).

For `TemplateConflictFree`, the invariant says that a tx has the conflicts of all it spends (`Inherits`, kept by `insert`
because the contested txs are closed under spending), that nothing in the clone conflicts with the template but what
is about to be removed, and that while a package is added its leading tx, which comes last, has all conflicts of
the rest.

About `BlockTemplate` the module proves, for every mempool that additions can lead to, any demands of the
producer and any changes of its own that keep its contract (`ProducerContract`), and conflicts as above (`MutualConflicts`, `CoherentPackages`),

- `BlockValidHolds`: `BlockSpec => []BlockValid`,
- `BlockFitsHolds`: `BlockSpec => []BlockFits`,
- `DependsSoundHolds`: `BlockSpec => []DependsSound`,
- `CoinbasePaysAllHolds`: `BlockSpec => []CoinbasePaysAll`, for which the producer may ask for anything, and change its
  txouts and suffix to anything.

They hold whether or not a tx was inserted under a child, so none of the exactness above is at hand. The invariant
`BlockInv` goes along the stages of a template (`StageOK`). Between templates the mempool is sound (`PoolSound`). While
the clone is filtered, it is closed under spending up to the prefix and the template, and only prefix txs leave it
without their descendants (`CloneOK`, `FilterOK`); the txs of the mempool that are neither left nor the producer's are
closed under being spent, so what descends from an excluded tx stays out (`FinalConflicts`). `BaseOK` says of the clone
what was so when proposing began. For the weight, an entry counts at least the weight of what comes with it, whatever was
removed in the meantime (`Covers`), so the packages chosen fit into what `StartProposing` left (`WeightOK`, `ChosenOK`).
`FinalTxs` and `JoinedTxs` split the block into prefix, mempool txs and suffix, and `DependsSound` follows because what
a proposed tx spends is among the ancestors named with it (`AncestorSpent`). That the prefix txs are inserted by a fold
is treated with `NatInduct` (`InsertedOneByOne`).

For the coinbase, `SubsidyIsHalved` says that the shift of `get_block_reward` is repeated halving: `PowerOfTwo` and `Halved`
are recursive functions, and both directions are `NatInduct` over the number of halvings (`PowerSteps`, `HalvedSteps`,
`DivideTwice`). At the 64th halving, where the code takes 0, halving has to have come to 0 as well: this is
`SubsidyWidthAssumption`, which holds for any subsidy that fits into the `u64` that bitcoin's `Amount` is.
What is paid is the sum over a sequence of outputs to which the coinbase builder adds one (`OneMoreTxout`,
`SummedOneByOne`), so it is what the producer's outputs take plus the rest.

`AbandonedPoolMaps_proofs` proves, for every graph of txs in which none spends itself, and without any bound,

- `TypeCorrect`: `Spec => []TypeOK`,
- `NobodyStrandedHolds`: `Spec => []NobodyStranded`,
- `ImplementsHolds`: `Spec => Implements`, the refinement.

The maps may hold stale entries, so the invariant bounds them from both sides: what they hold are children (`Related`),
and whatever a member misses leads to it (`Misses`, `IdleOK`). During `remove_descendant_txs` a member that misses a tx
already removed is on the stack or will be met (`RemoveOK`). During `restore_descendant_txs` a member misses what it
missed before less what is back, and if it still counts something as missing that is back, it is among the children
being looked at or those of a frame on the stack (`RemainingOK`); what was restored is in order and in the least closed
set that `PoolRestored` defines (`RestoredOK`), and with an empty stack all of that set has been found. `LeastClosed` is
characterised without induction, as above.

`BlockTemplateServer_proofs` proves, for any number of clients, requests, tips and times, any lifetime below the long
poll's timeout and any proposals, with and without a cache,

- `TypeCorrect`: `Spec => []TypeOK`, `Invariance`: `Spec => []IInv`,
- `ServedOnTipHolds`, `ServedFreshHolds`, `PollRefreshesHolds`, `AcceptedByBothHolds`: the safety
  properties of the run `server`.

The invariant follows a template from the query to the client: the tip was the mempool's since the request arrived
(`OnTipOK`); the txs are not older than those of the time that was taken before (`FreshOK`, with `PastOK`); ids are below
the counter and determine the template (`IdsOK`); and a long poll that goes on has a reason
to: another tip, the end of the sync task, or more time gone by than the cache allows (`PollOK`).

Two techniques recur. Where a fact is about sequences or sums of any length, `NatInduct` of the library is applied to
a set of numbers, since induction theorems with an operator as parameter cannot be instantiated. Where it is about what can
be reached in a graph, it is stated with a least closed set, whose two halves (closed, least) take the place of the
induction.

Only model-checked: liveness (`Settles`, `SyncCompletes`, `ShutdownEnds`, `FreshSyncCompletes`, `RequestsEnd`), which the
provers cannot treat. Every safety property that a passing run checks is also proved.

## Not modelled

Decoding (`mempool.dat`, ZMQ frames, JSON), the command line, logging, the start of the tasks and the integration tests,
whose scenarios are where the runs start from. Of the mempool, the totals over descendants. Of the block producer, its
errors and the merging of two producers by `Compose`, which concatenates their demands. Of the server, `submit_block`, the
choice of rules and versions, and the assembly of the coinbase script and of the witness commitment.

## Plan

Done: every component that keeps state, their compositions, and a proof of every safety property that holds. Left is
what the provers cannot treat, liveness, and the parts named under "Not modelled".
