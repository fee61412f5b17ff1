---------------------------- MODULE MempoolSync -----------------------------
(***************************************************************************)
(* The mempool sync task of lib/mempool/sync/task.rs: it mirrors the       *)
(* node's mempool from a snapshot and the ZMQ `sequence` messages, fetches *)
(* the txs and blocks that the messages name, and keeps out what the       *)
(* enforcer rejects.                                                       *)
(*                                                                         *)
(* One action per thing that the task's loop does: it handles a ZMQ        *)
(* message or a response (HandleSeq, HandleResp) and then, under the same  *)
(* write lock, applies queued sync actions one after the other (Apply)     *)
(* until one has to wait.  phase = "wait" is the state in which the lock   *)
(* is free and readers see the mempool.                                    *)
(***************************************************************************)
EXTENDS BitcoinNode, RequestQueue, AbandonedPool

CONSTANTS
  RejectsBlock,         \* blocks that the enforcer's connect_block rejects
  RejectsTx,            \* txs that its accept_tx rejects
  RemovedOnConnect,     \* [b |-> remove_mempool_txs of connect_block]
  RemovedOnDisconnect,  \* [b |-> remove_mempool_txs of disconnect_block]
  SeedFromDat,          \* TRUE if a mempool.dat may seed the tx cache
  Interruptions         \* TRUE if RPCs may fail, the timeout fire and a
                        \* shutdown arrive

ASSUME EnforcerAssumption ==
  /\ RejectsBlock \subseteq Block
  /\ RejectsTx \subseteq Tx
  /\ RemovedOnConnect \in [Block -> SUBSET Tx]
  /\ RemovedOnDisconnect \in [Block -> SUBSET Tx]
ASSUME SwitchAssumption ==
  SeedFromDat \in BOOLEAN /\ Interruptions \in BOOLEAN

VARIABLES
  \* MempoolSyncInner, behind the lock
  tip,              \* mempool.chain.tip
  blocks,           \* mempool.chain.blocks: fetched block -> confirmations > 0
  mempool,          \* mempool.txs
  unfiltered_tip,   \* unfiltered_mempool.tip
  unfiltered_txs,   \* unfiltered_mempool.txs
  left_out,         \* history: the ones that were never shown to the enforcer,
                    \* as gone at the node or for want of a parent
  abandoned_pool,
  tip_watch,
  enforcer_tip,     \* the block the enforcer's own state is synced to
  \* SyncState
  action_queue, blocks_needed, first_mempool_sequence, rejected_blocks,
  rejected_txs, request_queue, tx_cache, txs_needed, unavailable_txs,
  known_fees, mempool_txids,
  \* control
  rpc,              \* the one batch the response stream is working on
  phase,            \* where the task is
  synced            \* the initial sync is over: readers are served

innerVars == <<tip, blocks, mempool, unfiltered_tip, unfiltered_txs, left_out,
               abandoned_pool, tip_watch, enforcer_tip>>

snapshotVars == <<known_fees, mempool_txids>>

syncVars == <<action_queue, blocks_needed, first_mempool_sequence,
              rejected_blocks, rejected_txs, request_queue, tx_cache,
              txs_needed, unavailable_txs>>

vars == <<nodeVars, innerVars, syncVars, snapshotVars, rpc, phase, synced>>

\* enum SyncAction
InsertTx(t) == [event |-> "InsertTx", tx |-> t]

IdleRpc == [state |-> "idle"]

\* is_synced
IsSynced ==
  /\ DOMAIN abandoned_pool = {}
  /\ blocks_needed = {}
  /\ txs_needed = {}
  /\ action_queue = << >>
  /\ tip = unfiltered_tip

\* The task ends with an error; its Arc is dropped and readers get nothing.
Stop(error) ==
  /\ phase' = error
  /\ UNCHANGED <<nodeVars, innerVars, syncVars, snapshotVars, rpc, synced>>

Errors == {"UnexpectedTipUnfilteredMempool", "DisconnectTipMismatch",
           "UnfilteredMempoolMissingTx", "Request", "ApplySyncActionTimeout",
           "Shutdown"}

------------------------------------------------------------------------------
\* init_sync_mempool, after initial_sync has brought the enforcer to the
\* node's tip: from here on everything the node does is in zmq.

Init ==
  /\ NodeInit
  /\ tip = StartTip /\ unfiltered_tip = StartTip
  /\ tip_watch = StartTip /\ enforcer_tip = StartTip
  /\ blocks = [b \in {} |-> TRUE]
  /\ mempool = {} /\ unfiltered_txs = {} /\ left_out = {}
  /\ abandoned_pool = EmptyPool
  /\ action_queue = << >>
  /\ blocks_needed = {StartTip}
  /\ first_mempool_sequence = 0
  /\ rejected_blocks = {} /\ rejected_txs = {}
  /\ request_queue = <<BlockReq(StartTip)>>
  /\ tx_cache = {} /\ txs_needed = {} /\ unavailable_txs = {}
  /\ known_fees = {} /\ mempool_txids = {}
  /\ rpc = IdleRpc
  /\ phase = "snapshot"
  /\ synced = FALSE

\* getrawmempool with its mempool sequence: `order` is the order of the reply.
\* Some of the txs may already be known from mempool.dat.
TakeSnapshot(order, seeded) ==
  /\ phase = "snapshot"
  /\ seeded # {} => SeedFromDat
  /\ mempool_txids' = node_txs
  /\ tx_cache' = seeded
  /\ txs_needed' = node_txs \ seeded
  /\ LET fetch == Without(order, seeded)
     IN  request_queue' = request_queue \o [i \in DOMAIN fetch |-> TxReq(fetch[i], TRUE)]
  /\ action_queue' = [i \in DOMAIN order |-> InsertTx(order[i])]
  /\ first_mempool_sequence' = ReportedSeq + 1
  /\ phase' = "fees"
  /\ UNCHANGED <<nodeVars, innerVars, blocks_needed, rejected_blocks,
                 rejected_txs, unavailable_txs, known_fees, rpc, synced>>

\* getrawmempool verbose, a second call that sees a later mempool or fails.
TakeFees ==
  /\ phase = "fees"
  /\ known_fees' \in {node_txs, {}}
  /\ phase' = "wait"
  /\ UNCHANGED <<nodeVars, innerVars, syncVars, mempool_txids, rpc, synced>>

------------------------------------------------------------------------------
\* Handling a ZMQ message.

\* handle_block_hash_msg
HandleBlockHashMsg(b) ==
  /\ IF b \in DOMAIN blocks
     THEN UNCHANGED <<blocks_needed, request_queue>>
     ELSE /\ blocks_needed' = blocks_needed \cup {b}
          /\ request_queue' = PushBack(request_queue, BlockReq(b))
  /\ UNCHANGED <<abandoned_pool, first_mempool_sequence, tx_cache, txs_needed,
                 unavailable_txs>>

\* Mempool events numbered below the snapshot's are not looked at further.
Stale(n) == first_mempool_sequence # 0 /\ n < first_mempool_sequence

\* handle_tx_hash_msg, TxHashEvent::Added.  `restored` are the txs that the
\* abandoned pool gives back, in order.
HandleAdded(t, restored) ==
  /\ IF t \in tx_cache
     THEN UNCHANGED <<request_queue, tx_cache, txs_needed, unavailable_txs,
                      abandoned_pool>>
     ELSE /\ txs_needed' = txs_needed \cup {t}
          /\ unavailable_txs' = unavailable_txs \ {t}
          /\ IF t \in unavailable_txs
             THEN /\ request_queue' = PushFront(request_queue, TxReq(t, TRUE))
                  /\ abandoned_pool' = PoolAfterRestore(abandoned_pool, {t})
                  /\ tx_cache' = tx_cache \cup ToSet(restored)
             ELSE /\ request_queue' = PushBack(request_queue, TxReq(t, TRUE))
                  /\ UNCHANGED <<abandoned_pool, tx_cache>>
  /\ UNCHANGED blocks_needed

\* What it may give back.
RestoredBy(t) ==
  IF t \in tx_cache \/ t \notin unavailable_txs THEN {<< >>}
  ELSE RestoreOrders(abandoned_pool, t)

\* Wrong: the tx stays in txs_needed.
HandleRemovedNeeded(t) ==
  /\ unavailable_txs' = unavailable_txs \cup {t}
  /\ request_queue' = Without(request_queue, {TxReq(t, TRUE)})
  /\ UNCHANGED <<abandoned_pool, blocks_needed, tx_cache, txs_needed>>

\* handle_tx_hash_msg, TxHashEvent::Removed
HandleRemoved(t) ==
  /\ txs_needed' = txs_needed \ {t}
  /\ unavailable_txs' = unavailable_txs \cup {t}
  /\ request_queue' = Without(request_queue, {TxReq(t, TRUE)})
  /\ UNCHANGED <<abandoned_pool, blocks_needed, tx_cache>>

\* handle_seq_message: whatever the handlers did, the message is queued.
Enqueue(restored, msg) ==
  action_queue' = [i \in DOMAIN restored |-> InsertTx(restored[i])]
                    \o Append(action_queue, msg)

\* Wrong: a message that is not looked at is not queued either.
HandleTxHashMsgIgnored(msg) ==
  IF Stale(msg.mempool_seq)
  THEN UNCHANGED <<abandoned_pool, action_queue, blocks_needed, first_mempool_sequence,
                   request_queue, tx_cache, txs_needed, unavailable_txs>>
  ELSE /\ first_mempool_sequence' = 0
       /\ \/ /\ msg.event = "Added"
             /\ \E restored \in RestoredBy(msg.tx) :
                  HandleAdded(msg.tx, restored) /\ Enqueue(restored, msg)
          \/ /\ msg.event = "Removed"
             /\ HandleRemoved(msg.tx) /\ Enqueue(<< >>, msg)

HandleTxHashMsg(msg) ==
  IF Stale(msg.mempool_seq)
  THEN /\ Enqueue(<< >>, msg)
       /\ UNCHANGED <<abandoned_pool, blocks_needed, first_mempool_sequence,
                      request_queue, tx_cache, txs_needed, unavailable_txs>>
  ELSE /\ first_mempool_sequence' = 0
       /\ \/ /\ msg.event = "Added"
             /\ \E restored \in RestoredBy(msg.tx) :
                  HandleAdded(msg.tx, restored) /\ Enqueue(restored, msg)
          \/ /\ msg.event = "Removed"
             /\ HandleRemoved(msg.tx) /\ Enqueue(<< >>, msg)

HandleSeq ==
  /\ phase = "wait"
  /\ zmq # << >>
  /\ zmq' = Tail(zmq)
  /\ LET msg == Head(zmq)
     IN  \/ /\ msg.event \in {"Connected", "Disconnected"}
            /\ HandleBlockHashMsg(msg.block)
            /\ Enqueue(<< >>, msg)
         \/ /\ msg.event \in {"Added", "Removed"}
            /\ HandleTxHashMsg(msg)
  /\ phase' = "apply"
  /\ UNCHANGED <<node_tip, node_txs, node_seq, node_invalid, node_events,
                 tip, blocks, mempool, unfiltered_tip, unfiltered_txs, left_out,
                 tip_watch, enforcer_tip, rejected_blocks, rejected_txs,
                 snapshotVars, rpc, synced>>

------------------------------------------------------------------------------
\* Requests and responses.  The response stream is polled while the task waits
\* for its next item, and works on one batch at a time.

TakeRequest ==
  /\ phase = "wait"
  /\ rpc = IdleRpc
  /\ request_queue # << >>
  /\ rpc' = [state |-> "sent", batch |-> Batch(request_queue)]
  /\ request_queue' = AfterBatch(request_queue)
  /\ UNCHANGED <<nodeVars, innerVars, action_queue, blocks_needed,
                 first_mempool_sequence, rejected_blocks, rejected_txs, tx_cache,
                 txs_needed, unavailable_txs, snapshotVars, phase, synced>>

\* batched_request, at the node: getblock, getrawtransaction (a tx the node no
\* longer has comes back as unavailable), invalidateblock, and
\* prioritisetransaction, whose effect is left to the node's evictions.
ServeRequest ==
  /\ rpc.state = "sent"
  /\ LET kind == rpc.batch[1].req
         gone == {r \in ToSet(rpc.batch) : r.req = "Tx" /\ r.tx \notin Fetchable}
     IN  /\ rpc' = [state |-> "done", batch |-> rpc.batch,
                    unavailable |-> {r.tx : r \in gone},
                    active |-> kind = "Block" /\ rpc.batch[1].block \in Ancestors[node_tip]]
         /\ node_invalid' = IF kind = "RejectBlock"
                            THEN node_invalid \cup {rpc.batch[1].block} ELSE node_invalid
  /\ UNCHANGED <<node_tip, node_txs, node_seq, node_events, zmq, innerVars,
                 syncVars, snapshotVars, phase, synced>>

\* An RPC error other than "no such tx" ends the task.
RequestFails ==
  /\ Interruptions
  /\ phase = "wait"
  /\ rpc.state = "sent"
  /\ Stop("Request")

\* handle_resp_block, up to the sync action at the head of the queue, which
\* Apply takes next: the handler's own attempt at it and the one of the loop
\* that follows are the same.
HandleRespBlock(b, restored) ==
  /\ blocks_needed' = blocks_needed \ {b}
  /\ unavailable_txs' = unavailable_txs \ BlockTxs[b]
  /\ abandoned_pool' = PoolAfterRestore(abandoned_pool, BlockTxs[b])
  /\ tx_cache' = tx_cache \cup ToSet(restored)
  /\ action_queue' = [i \in DOMAIN restored |-> InsertTx(restored[i])] \o action_queue
  /\ blocks' = [x \in DOMAIN blocks \cup {b} |-> IF x = b THEN rpc.active ELSE blocks[x]]
  /\ UNCHANGED <<request_queue, txs_needed>>

\* needs_parent_fetch, with the cache as it is when t's response is looked at.
NeedsParentFetch(cache, t, parent) ==
  /\ parent \notin cache
  /\ t \notin known_fees \/ parent \in mempool_txids

\* The parents that handle_resp asks for after the fetched txs of a batch.
ParentsToFetch(fetched) ==
  {x \in Tx : \E i \in DOMAIN fetched :
     LET cache == tx_cache \cup {fetched[j].tx : j \in 1 .. (i - 1)}
     IN  /\ fetched[i].in_mempool
         /\ x \in Vin[fetched[i].tx]
         /\ NeedsParentFetch(cache, fetched[i].tx, x)}

\* Wrong: the unavailable members of the batch are dropped silently.
HandleRespTxsFetched(fetched, parents) ==
  LET txs == {fetched[i].tx : i \in DOMAIN fetched}
  IN  /\ txs_needed' = (txs_needed \ txs) \cup ToSet(parents)
      /\ tx_cache' = tx_cache \cup txs
      /\ request_queue' = PushAllFront(request_queue,
                            [i \in DOMAIN parents |-> TxReq(parents[i], FALSE)])
      /\ UNCHANGED <<abandoned_pool, action_queue, blocks, blocks_needed,
                     unavailable_txs>>

\* handle_resp for BatchTx
HandleRespTxs(fetched, parents) ==
  LET txs == {fetched[i].tx : i \in DOMAIN fetched}
  IN  /\ txs_needed' = ((txs_needed \ rpc.unavailable) \ txs) \cup ToSet(parents)
      /\ unavailable_txs' = unavailable_txs \cup rpc.unavailable
      /\ tx_cache' = tx_cache \cup txs
      /\ request_queue' = PushAllFront(request_queue,
                            [i \in DOMAIN parents |-> TxReq(parents[i], FALSE)])
      /\ UNCHANGED <<abandoned_pool, action_queue, blocks, blocks_needed>>

HandleResp ==
  /\ phase = "wait"
  /\ rpc.state = "done"
  /\ LET kind == rpc.batch[1].req
         fetched == Without(rpc.batch, {r \in ToSet(rpc.batch) : r.tx \in rpc.unavailable})
     IN  \/ /\ kind = "Block"
            /\ \E txs \in TopologicalOrders(BlockTxs[rpc.batch[1].block]) :
                 \E restored \in BlockRestoreOrders(abandoned_pool, txs) :
                   HandleRespBlock(rpc.batch[1].block, restored)
         \/ /\ kind = "Tx"
            /\ \E parents \in SetToSeqs(ParentsToFetch(fetched)) :
                 HandleRespTxs(fetched, parents)
         \/ /\ kind \in {"RejectBlock", "RejectTx"}
            /\ UNCHANGED <<abandoned_pool, action_queue, blocks, blocks_needed,
                           request_queue, tx_cache, txs_needed, unavailable_txs>>
  /\ rpc' = IdleRpc
  /\ phase' = "apply"
  /\ UNCHANGED <<nodeVars, tip, mempool, unfiltered_tip, unfiltered_txs,
                 left_out, tip_watch, enforcer_tip, first_mempool_sequence,
                 rejected_blocks, rejected_txs, snapshotVars, synced>>

------------------------------------------------------------------------------
\* try_apply_next_sync_action: the head of the action queue is applied and
\* taken off (Applied), or has to wait (Pending).

HeadAction == Head(action_queue)

Applied ==
  /\ action_queue' = Tail(action_queue)
  /\ phase' = "apply"
  /\ UNCHANGED <<nodeVars, blocks, blocks_needed, first_mempool_sequence,
                 unavailable_txs, snapshotVars, rpc, synced>>

\* The loop ends, the lock is released, and continue_loop is asked.
Pending ==
  /\ phase' = "wait"
  /\ UNCHANGED <<nodeVars, innerVars, action_queue, first_mempool_sequence,
                 rejected_blocks, rejected_txs, tx_cache, unavailable_txs,
                 snapshotVars, rpc, synced>>

QueueEmpty ==
  /\ phase = "apply"
  /\ action_queue = << >>
  /\ phase' = "wait"
  /\ synced' = (synced \/ IsSynced)
  /\ UNCHANGED <<nodeVars, innerVars, syncVars, snapshotVars, rpc>>

CanApply(event) ==
  /\ phase = "apply"
  /\ action_queue # << >>
  /\ HeadAction.event \in event

AppliesTx(t) ==
  /\ CanApply({"InsertTx", "Added"})
  /\ HeadAction.tx = t

chainVars == <<tip, unfiltered_tip, tip_watch, enforcer_tip, rejected_blocks>>

\* try_add_tx_from_caches: the tx is there already, or gone again.
AddKnown(t) ==
  /\ AppliesTx(t)
  /\ t \in unfiltered_txs \/ (t \notin tx_cache /\ t \in unavailable_txs)
  /\ unfiltered_txs' = unfiltered_txs \cup {t}
  /\ left_out' = left_out \cup ({t} \ unfiltered_txs)
  /\ Applied
  /\ UNCHANGED <<chainVars, mempool, abandoned_pool, rejected_txs, request_queue,
                 tx_cache, txs_needed>>

\* Wrong: the tx is taken to be on its way.
AddUnfetchedSilently(t) ==
  /\ AppliesTx(t)
  /\ t \notin unfiltered_txs \cup tx_cache \cup unavailable_txs
  /\ Pending
  /\ UNCHANGED <<blocks_needed, request_queue, txs_needed>>

\* The tx has to be fetched first.
AddUnfetched(t) ==
  /\ AppliesTx(t)
  /\ t \notin unfiltered_txs \cup tx_cache \cup unavailable_txs
  /\ request_queue' = PushFront(request_queue, TxReq(t, TRUE))
  /\ Pending
  /\ UNCHANGED <<blocks_needed, txs_needed>>

\* The tx is at hand, and try_get_parent_txs_from_caches looks at its parents.
AddFetched(t) ==
  /\ AppliesTx(t)
  /\ t \in tx_cache \ unfiltered_txs

\* Parents found neither in the tx cache nor in the mempool.
Unresolved(t) == (Vin[t] \ tx_cache) \ mempool

ParentsRejected(t) == Vin[t] \cap rejected_txs # {}

ParentsUnavailable(t) == (Unresolved(t) \cap unavailable_txs) \ DOMAIN abandoned_pool

ParentsAbandoned(t) == Unresolved(t) \cap DOMAIN abandoned_pool

ParentsRequired(t) ==
  {x \in (Unresolved(t) \ DOMAIN abandoned_pool) \ unavailable_txs :
     t \in known_fees => x \in mempool_txids}

\* Wrong: the tx is only reported to the node.
AddWithRejectedParentUnmarked(t) ==
  /\ AddFetched(t)
  /\ ParentsRejected(t)
  /\ request_queue' = PushFront(request_queue, RejectTxReq(t))
  /\ unfiltered_txs' = unfiltered_txs \cup {t}
  /\ Applied
  /\ UNCHANGED <<chainVars, mempool, left_out, abandoned_pool, rejected_txs, tx_cache,
                 txs_needed>>

\* ParentTxsResult::Rejected
AddWithRejectedParent(t) ==
  /\ AddFetched(t)
  /\ ParentsRejected(t)
  /\ rejected_txs' = rejected_txs \cup {t}
  /\ request_queue' = PushFront(request_queue, RejectTxReq(t))
  /\ unfiltered_txs' = unfiltered_txs \cup {t}
  /\ Applied
  /\ UNCHANGED <<chainVars, mempool, left_out, abandoned_pool, tx_cache, txs_needed>>

\* ParentTxsResult::Required
AddWithRequiredParents(t) ==
  /\ AddFetched(t)
  /\ ~ParentsRejected(t)
  /\ ParentsRequired(t) # {}
  /\ txs_needed' = txs_needed \cup ParentsRequired(t)
  /\ \E order \in SetToSeqs(ParentsRequired(t)) :
       request_queue' = PushAllFront(request_queue,
                          [i \in DOMAIN order |-> TxReq(order[i], FALSE)])
  /\ Pending
  /\ UNCHANGED blocks_needed

\* ParentTxsResult::Unavailable and ParentTxsResult::Abandoned
AddAbandoned(t) ==
  /\ AddFetched(t)
  /\ ~ParentsRejected(t)
  /\ ParentsRequired(t) = {}
  /\ ParentsUnavailable(t) \cup ParentsAbandoned(t) # {}
  /\ tx_cache' = tx_cache \ {t}
  /\ abandoned_pool' \in PoolInserts(abandoned_pool, t, ParentsUnavailable(t))
  /\ unfiltered_txs' = unfiltered_txs \cup {t}
  /\ left_out' = left_out \cup {t}
  /\ Applied
  /\ UNCHANGED <<chainVars, mempool, rejected_txs, request_queue, txs_needed>>

\* ParentTxsResult::Available
Validates(t) ==
  /\ AddFetched(t)
  /\ ~ParentsRejected(t)
  /\ ParentsRequired(t) \cup ParentsUnavailable(t) \cup ParentsAbandoned(t) = {}
  /\ unfiltered_txs' = unfiltered_txs \cup {t}
  /\ Applied
  /\ UNCHANGED <<chainVars, left_out, tx_cache, txs_needed>>

\* TxAcceptAction::Accept.  A tx that is in the mempool already stays there.
AddAccepted(t) ==
  /\ t \notin RejectsTx
  /\ Validates(t)
  /\ mempool' = mempool \cup {t}
  /\ UNCHANGED <<abandoned_pool, rejected_txs, request_queue>>

\* TxAcceptAction::Reject, with all descendants in the mempool and in the
\* abandoned pool.
AddRejected(t) ==
  /\ t \in RejectsTx
  /\ Validates(t)
  /\ LET removed == (mempool \cap {t}) \cup DescendantsIn(mempool, {t})
     IN  /\ mempool' = mempool \ removed
         /\ \E abandoned \in PoolRejects(abandoned_pool, removed \cup {t}) :
              /\ abandoned_pool' = PoolWithout(abandoned_pool, abandoned)
              /\ rejected_txs' = rejected_txs \cup {t} \cup removed \cup abandoned
              /\ \E order \in SetToSeqs({t} \cup removed \cup abandoned) :
                   request_queue' = PushAllFront(request_queue,
                                      [i \in DOMAIN order |-> RejectTxReq(order[i])])

\* try_apply_seq_message, TxHashEvent::Removed
ApplyRemoved ==
  /\ CanApply({"Removed"})
  /\ HeadAction.tx \in unfiltered_txs
  /\ unfiltered_txs' = unfiltered_txs \ {HeadAction.tx}
  /\ left_out' = left_out \ {HeadAction.tx}
  /\ mempool' = mempool \ {HeadAction.tx}
  /\ abandoned_pool' = PoolRemove(abandoned_pool, HeadAction.tx)
  /\ Applied
  /\ UNCHANGED <<chainVars, rejected_txs, request_queue, tx_cache, txs_needed>>

RemovedUnknown ==
  /\ CanApply({"Removed"})
  /\ HeadAction.tx \notin unfiltered_txs
  /\ Stop("UnfilteredMempoolMissingTx")

------------------------------------------------------------------------------
\* Block events.

AppliesBlock(event, b) ==
  /\ CanApply({event})
  /\ HeadAction.block = b

\* The block has not arrived yet.
ConnectUnfetched(b) ==
  /\ AppliesBlock("Connected", b)
  /\ b \notin DOMAIN blocks
  /\ Pending
  /\ UNCHANGED <<blocks_needed, request_queue, txs_needed>>

ConnectFetched(b) ==
  /\ AppliesBlock("Connected", b)
  /\ b \in DOMAIN blocks

\* A connect event that the view already covers.
CoversBlock(b) ==
  /\ Parent[b] # unfiltered_tip
  /\ \/ b = unfiltered_tip
     \/ /\ blocks[b]
        /\ unfiltered_tip \in DOMAIN blocks
        /\ Height[b] < Height[unfiltered_tip]

ConnectCovered(b) ==
  /\ ConnectFetched(b)
  /\ CoversBlock(b)
  /\ Applied
  /\ UNCHANGED <<chainVars, mempool, abandoned_pool, unfiltered_txs, left_out,
                 rejected_txs, request_queue, tx_cache, txs_needed>>

\* The block extends neither the unfiltered nor the filtered tip.
ConnectUnexpected(b) ==
  /\ ConnectFetched(b)
  /\ ~CoversBlock(b)
  /\ Parent[b] \notin {unfiltered_tip, tip}
  /\ Stop("UnexpectedTipUnfilteredMempool")

\* The unfiltered view follows the node.  A stale unfiltered tip is passed over
\* if the block extends the filtered tip.
ConnectUnfiltered(b) ==
  /\ ConnectFetched(b)
  /\ ~CoversBlock(b)
  /\ Parent[b] \in {unfiltered_tip, tip}
  /\ unfiltered_txs' = unfiltered_txs \ BlockTxs[b]
  /\ left_out' = left_out \ BlockTxs[b]
  /\ unfiltered_tip' = b
  /\ Applied
  /\ UNCHANGED abandoned_pool

\* Wrong: only the enforcer's verdict counts.
IsRejectedByEnforcer(b) == b \in RejectsBlock

\* The block's parent was rejected, or the enforcer rejects the block.
IsRejected(b) == Parent[b] # tip \/ b \in RejectsBlock

ConnectRejected(b) ==
  /\ ConnectUnfiltered(b)
  /\ IsRejected(b)
  /\ rejected_blocks' = rejected_blocks \cup {b}
  /\ request_queue' = PushFront(request_queue, RejectBlockReq(b))
  /\ UNCHANGED <<tip, tip_watch, enforcer_tip, mempool, rejected_txs, tx_cache,
                 txs_needed>>

\* ConnectBlockAction::Accept.  Txs that the enforcer wants removed go with
\* their descendants, but only they themselves are marked as rejected, unless
\* the block has just confirmed them.
ConnectAccepted(b) ==
  /\ ConnectUnfiltered(b)
  /\ ~IsRejected(b)
  /\ LET unmined == mempool \ BlockTxs[b]
         reject == RemovedOnConnect[b] \ BlockTxs[b]
         left == Without(request_queue, {TxReq(t, TRUE) : t \in BlockTxs[b]})
     IN  /\ mempool' = (unmined \ RemovedOnConnect[b])
                         \ DescendantsIn(unmined, RemovedOnConnect[b])
         /\ rejected_txs' = rejected_txs \cup reject
         /\ \E order \in SetToSeqs(reject) :
              request_queue' = PushAllFront(left,
                                 [i \in DOMAIN order |-> RejectTxReq(order[i])])
  /\ txs_needed' = txs_needed \ BlockTxs[b]
  /\ tx_cache' = tx_cache \cup BlockTxs[b]
  /\ enforcer_tip' = b
  /\ tip' = b
  /\ tip_watch' = b
  /\ UNCHANGED rejected_blocks

\* Wrong: every disconnect that cannot be applied is ignored.
DisconnectSkipped(b) ==
  /\ AppliesBlock("Disconnected", b)
  /\ tip # b \/ b \notin DOMAIN blocks
  /\ Applied
  /\ UNCHANGED <<chainVars, mempool, abandoned_pool, unfiltered_txs, left_out,
                 rejected_txs, request_queue, tx_cache, txs_needed>>

\* A block that was rejected, and hence never connected, is disconnected.
DisconnectRejected(b) ==
  /\ AppliesBlock("Disconnected", b)
  /\ tip # b
  /\ b \in rejected_blocks
  /\ Applied
  /\ UNCHANGED <<chainVars, mempool, abandoned_pool, unfiltered_txs, left_out,
                 rejected_txs, request_queue, tx_cache, txs_needed>>

\* A block that is neither the tip nor rejected, or has not arrived yet.
DisconnectEarly(b) ==
  /\ AppliesBlock("Disconnected", b)
  /\ IF tip # b THEN b \notin rejected_blocks ELSE b \notin DOMAIN blocks
  /\ Pending
  /\ UNCHANGED <<blocks_needed, request_queue, txs_needed>>

DisconnectsTip(b) ==
  /\ AppliesBlock("Disconnected", b)
  /\ tip = b
  /\ b \in DOMAIN blocks

DisconnectMismatch(b) ==
  /\ DisconnectsTip(b)
  /\ unfiltered_tip # b
  /\ Stop("DisconnectTipMismatch")

\* Wrong: the parent is taken to be there.
ParentAssumed(b) == FALSE

\* handle_disconnected_block needs the parent, to make it the tip.
ParentMissing(b) == Parent[b] # NoBlock /\ Parent[b] \notin DOMAIN blocks

\* Wrong: the parent is marked as needed, but not asked for.
DisconnectAwaitsParent(b) ==
  /\ DisconnectsTip(b)
  /\ unfiltered_tip = b
  /\ ParentMissing(b)
  /\ blocks_needed' = blocks_needed \cup {Parent[b]}
  /\ Pending
  /\ UNCHANGED <<request_queue, txs_needed>>

DisconnectFetchesParent(b) ==
  /\ DisconnectsTip(b)
  /\ unfiltered_tip = b
  /\ ParentMissing(b)
  /\ IF Parent[b] \in blocks_needed
     THEN UNCHANGED <<blocks_needed, request_queue>>
     ELSE /\ blocks_needed' = blocks_needed \cup {Parent[b]}
          /\ request_queue' = PushFront(request_queue, BlockReq(Parent[b]))
  /\ Pending
  /\ UNCHANGED txs_needed

Disconnect(b) ==
  /\ DisconnectsTip(b)
  /\ unfiltered_tip = b
  /\ ~ParentMissing(b)
  /\ mempool' = (mempool \ RemovedOnDisconnect[b])
                  \ DescendantsIn(mempool, RemovedOnDisconnect[b])
  /\ enforcer_tip' = Parent[b]
  /\ tip' = Parent[b]
  /\ tip_watch' = Parent[b]
  /\ unfiltered_tip' = Parent[b]
  /\ Applied
  /\ UNCHANGED <<abandoned_pool, unfiltered_txs, left_out, rejected_blocks, rejected_txs,
                 request_queue, tx_cache, txs_needed>>

------------------------------------------------------------------------------

\* The head of the action queue has waited for APPLY_SYNC_ACTION_TIMEOUT.
ApplySyncActionTimeout ==
  /\ Interruptions
  /\ phase = "wait"
  /\ action_queue # << >>
  /\ Stop("ApplySyncActionTimeout")

Shutdown ==
  /\ Interruptions
  /\ phase = "wait"
  /\ Stop("Shutdown")

Apply ==
  \/ QueueEmpty
  \/ \E t \in Tx : \/ AddKnown(t) \/ AddUnfetched(t)
                   \/ AddWithRejectedParent(t) \/ AddWithRequiredParents(t)
                   \/ AddAbandoned(t) \/ AddAccepted(t) \/ AddRejected(t)
  \/ ApplyRemoved \/ RemovedUnknown
  \/ \E b \in Block : \/ ConnectUnfetched(b) \/ ConnectCovered(b)
                      \/ ConnectUnexpected(b)
                      \/ ConnectRejected(b) \/ ConnectAccepted(b)
                      \/ DisconnectRejected(b) \/ DisconnectEarly(b)
                      \/ DisconnectMismatch(b) \/ DisconnectFetchesParent(b)
                      \/ Disconnect(b)

Snapshot ==
  \/ \E order \in SetToSeqs(node_txs), seeded \in SUBSET node_txs :
       TakeSnapshot(order, seeded)
  \/ TakeFees

NodeStep ==
  /\ NodeNext
  /\ UNCHANGED <<innerVars, syncVars, snapshotVars, rpc, phase, synced>>

Next ==
  \/ NodeStep
  \/ Snapshot
  \/ HandleSeq
  \/ TakeRequest \/ ServeRequest \/ RequestFails \/ HandleResp
  \/ Apply
  \/ ApplySyncActionTimeout
  \/ Shutdown

Spec == Init /\ [][Next]_vars

------------------------------------------------------------------------------

Phases == {"snapshot", "fees", "wait", "apply"} \cup Errors

Requests ==
  [req : {"Tx"}, tx : Tx, in_mempool : BOOLEAN]
    \cup [req : {"RejectTx"}, tx : Tx]
    \cup [req : {"Block", "RejectBlock"}, block : Block]

SyncActions ==
  [event : {"Connected", "Disconnected"}, block : Block]
    \cup [event : {"Added", "Removed"}, tx : Tx, mempool_seq : Nat]
    \cup [event : {"InsertTx"}, tx : Tx]

\* Type correctness: what the task keeps about txs and blocks is about txs and
\* blocks of the graph, and the request queue, a linked hash set, never holds a
\* request twice.
TypeOK ==
  /\ {tip, tip_watch, enforcer_tip, unfiltered_tip} \subseteq Block
  /\ DOMAIN blocks \subseteq Block
  /\ \A b \in DOMAIN blocks : blocks[b] \in BOOLEAN
  /\ mempool \cup unfiltered_txs \cup left_out \cup DOMAIN abandoned_pool \subseteq Tx
  /\ ToSet(action_queue) \subseteq SyncActions
  /\ blocks_needed \cup rejected_blocks \subseteq Block
  /\ first_mempool_sequence \in Nat
  /\ ToSet(request_queue) \subseteq Requests
  /\ \A i, j \in DOMAIN request_queue : request_queue[i] = request_queue[j] => i = j
  /\ rejected_txs \cup tx_cache \cup txs_needed \cup unavailable_txs \subseteq Tx
  /\ known_fees \cup mempool_txids \subseteq Tx
  /\ rpc.state \in {"idle", "sent", "done"}
  /\ phase \in Phases
  /\ synced \in BOOLEAN

\* Requests that will still be answered: queued, or with the node.
Outstanding ==
  ToSet(request_queue) \cup (IF rpc.state = "idle" THEN {} ELSE ToSet(rpc.batch))

FetchOutstanding(t) == \E m \in BOOLEAN : TxReq(t, m) \in Outstanding

Running == phase \notin Errors

LockFree == phase = "wait"

\* Nothing is on its way between the node and the task.
Quiescent ==
  /\ LockFree
  /\ zmq = << >> /\ action_queue = << >> /\ request_queue = << >>
  /\ rpc = IdleRpc
  /\ Ancestors[node_tip] \cap node_invalid = {}

InStep == Quiescent /\ tip = node_tip

\* A sync action that waits at the head of the queue waits for something that
\* is on its way.  This is what AddUnfetched and AddWithRequiredParents push
\* their requests for: `Removed` cancels fetches, and an action whose fetch was
\* cancelled would wait until APPLY_SYNC_ACTION_TIMEOUT ends the task.  (Before
\* the response for the sync-time tip the loop may not have run yet.)  The one
\* action that waits in vain is the disconnect of a block that ConnectCovered
\* has passed over, which it does only above a stale, rejected unfiltered tip.
HeadAwaited ==
  LockFree /\ action_queue # << >> /\ BlockReq(StartTip) \notin Outstanding =>
    LET a == HeadAction
    IN  CASE a.event \in {"InsertTx", "Added"} ->
               IF a.tx \notin tx_cache THEN FetchOutstanding(a.tx)
               ELSE \A x \in ParentsRequired(a.tx) : FetchOutstanding(x)
          [] a.event = "Connected" -> BlockReq(a.block) \in Outstanding
          [] a.event = "Disconnected" ->
               IF tip = a.block
               THEN {BlockReq(a.block), BlockReq(Parent[a.block])} \cap Outstanding # {}
               ELSE unfiltered_tip \in rejected_blocks
          [] OTHER -> FALSE

\* Whatever is_synced still waits for has been asked for: blocks_needed and
\* txs_needed never hold an entry whose request was cancelled, answered or
\* never queued, which would keep the initial sync from ever completing.
NeededRequested ==
  LockFree =>
    /\ \A b \in blocks_needed : BlockReq(b) \in Outstanding
    /\ \A t \in txs_needed : FetchOutstanding(t)

\* Once every message has been read and applied, unfiltered_mempool holds the
\* node's mempool, whatever the order in which the snapshot, the messages and
\* the responses came, and whatever requests are still open.  Neither mempool
\* holds anything else, but for confirmed txs (see ConfirmedDropped).
MirrorsNode ==
  LockFree /\ zmq = << >> /\ action_queue = << >> =>
    /\ node_txs \subseteq unfiltered_txs
    /\ unfiltered_txs \cup mempool \subseteq node_txs \cup Confirmed(node_tip)

\* Txs that the enforcer has taken out on some block.
Dropped == UNION {RemovedOnConnect[b] \cup RemovedOnDisconnect[b] : b \in DOMAIN blocks}

\* No tx of unfiltered_mempool is missing from the mempool without a reason: it
\* was rejected, or removed on the enforcer's behalf, or it was never shown to
\* the enforcer, being gone at the node or for want of a parent.  That the last
\* of these are shown to it when their parents are back is AbandonedComeBack,
\* which the code does not keep.
FilterExplained ==
  unfiltered_txs \ mempool \subseteq
    rejected_txs \cup left_out \cup Dropped \cup DescendantsIn(Tx, Dropped)

\* Mempool::tip indexes chain.blocks with chain.tip: no reader of a synced
\* mempool may find the tip's block missing, not even after a disconnect has
\* moved the tip to a block below the sync-time one.
TipKnown == synced /\ LockFree => tip \in DOMAIN blocks

\* The enforcer is never built on a block that it, or the task on account of
\* its parent, has rejected.
RejectedNeverBuiltOn == Ancestors[enforcer_tip] \cap rejected_blocks = {}

\* When everything has been read and answered, the enforcer's chain ends where
\* the node's does, except while unfiltered_tip is left at a rejected block.
TipFollows ==
  Quiescent /\ unfiltered_tip \notin rejected_blocks => tip = node_tip

\* The task never waits forever: it always gets back to having applied every
\* message and received every response, or it has stopped with an error.
Settles == []<>(Quiescent \/ ~Running)

\* The initial sync is over at some time, or has failed.
SyncCompletes == <>(synced \/ ~Running)

------------------------------------------------------------------------------
\* What comments and tests say, and the code does not do.

\* "must afterward accept a *new* block mined on the resulting tip": a connect
\* event for a valid child of the filtered tip, once applied, connects it.
NewBlockConnects ==
  [][\A b \in Block :
       /\ ConnectFetched(b) /\ action_queue' # action_queue
       /\ Parent[b] = tip /\ b \notin RejectsBlock \cup {unfiltered_tip}
       => tip' = b]_vars

\* "confirmed txs are dropped from the local mempool view": no tx of the chain
\* is in a mempool when everything has been read and answered.
ConfirmedDropped ==
  InStep => (unfiltered_txs \cup mempool) \cap Confirmed(tip) = {}

\* "If a removed mempool tx becomes available again, transactions that depend on
\* it in the abandoned pool can be validated and added back into the mempool":
\* when everything has been read and answered, no tx is left out that is at
\* hand, with all of its parents.
AbandonedComeBack ==
  InStep =>
    \A t \in (tx_cache \cap left_out) \ unavailable_txs :
      ~(Vin[t] \subseteq mempool \cup Confirmed(tip))
==============================================================================
