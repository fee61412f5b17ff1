------------------------- MODULE MempoolSync_proofs -------------------------
(***************************************************************************)
(* Theorems about the mempool sync task, for every graph of txs and        *)
(* blocks, every enforcer and any number of node events.                   *)
(***************************************************************************)
EXTENDS CombinedSync, BitcoinNode_proofs

------------------------------------------------------------------------------
\* Sequences of messages and sync actions.

\* What the action queue holds.
SafeActions == NodeMsgs \cup [event : {"InsertTx"}, tx : Tx]

\* A set of txs in any order gives sync actions.
LEMMA InsertTxs ==
  ASSUME NEW S \in SUBSET Tx, NEW o \in SetToSeqs(S)
  PROVE  [i \in DOMAIN o |-> InsertTx(o[i])] \in Seq(SafeActions)
<1>1. o \in Seq(S) /\ DOMAIN o = 1 .. Len(o) /\ Len(o) \in Nat
  BY OrdersAreSequences
<1>2. \A i \in DOMAIN o : InsertTx(o[i]) \in SafeActions
  BY <1>1 DEF SafeActions, InsertTx
<1> QED BY <1>1, <1>2

\* What an action of the queue is about.
LEMMA OnlyBlocksConnect ==
  ASSUME NEW a \in SafeActions
  PROVE  /\ a.event \in {"Connected", "Disconnected"} =>
              /\ a.block \in Block
              /\ a.event = "Disconnected" => Parent[a.block] # NoBlock
         /\ a.event \in {"Added", "Removed"} => a.tx \in Tx /\ a.mempool_seq \in Nat
         /\ a.event = "InsertTx" => a.tx \in Tx
BY DEF SafeActions, NodeMsgs

------------------------------------------------------------------------------
\* The inductive invariant.

\* What the task still has to apply is about txs and blocks of the graph.
QueueOK ==
  /\ action_queue \in Seq(SafeActions)
  /\ DOMAIN abandoned_pool \in SUBSET Tx

\* The tip is always a block that was or will be fetched, the former as soon as
\* readers are served.
TipOK ==
  /\ tip \in DOMAIN blocks \cup blocks_needed
  /\ synced => tip \in DOMAIN blocks

\* The enforcer goes with the filtered tip.  The unfiltered tip differs from it
\* at most by being a rejected block.  A block is rejected by the enforcer, or
\* because its parent is.
RejectedOK ==
  /\ tip \in Block
  /\ enforcer_tip = tip
  /\ unfiltered_tip \in {tip} \cup rejected_blocks
  /\ rejected_blocks \in SUBSET Block
  /\ \A b \in rejected_blocks : b \in RejectsBlock \/ Parent[b] \in rejected_blocks
  /\ Ancestors[tip] \cap rejected_blocks = {}

IInv == NodeOK /\ QueueOK /\ TipOK /\ RejectedOK

\* The invariant holds before the snapshot is taken.
THEOREM InitIInv == Init => IInv
<1> SUFFICES ASSUME Init PROVE IInv
  OBVIOUS
<1>1. NodeOK
  BY NodeInitOK DEF Init
<1>2. QueueOK
  BY DEF Init, QueueOK, EmptyPool
<1>3. TipOK
  BY DEF Init, TipOK
<1>4. RejectedOK
  BY StartAssumption DEF Init, RejectedOK
<1> QED BY <1>1, <1>2, <1>3, <1>4 DEF IInv

------------------------------------------------------------------------------
\* The steps of the task that do not apply a sync action.

\* What most steps leave alone.
LEMMA Frame ==
  /\ NodeOK /\ UNCHANGED <<node_tip, node_txs, node_seq, zmq>> => NodeOK'
  /\ QueueOK /\ UNCHANGED <<action_queue, abandoned_pool>> => QueueOK'
  /\ TipOK /\ UNCHANGED <<tip, blocks, blocks_needed, synced>> => TipOK'
  /\ RejectedOK /\ UNCHANGED <<tip, enforcer_tip, unfiltered_tip, rejected_blocks>>
       => RejectedOK'
BY DEF NodeOK, QueueOK, TipOK, RejectedOK

\* The abandoned pool stays a pool of txs.
LEMMA PoolDomains ==
  ASSUME NEW pool, DOMAIN pool \in SUBSET Tx, NEW t \in Tx, NEW S
  PROVE  /\ \A p \in PoolInserts(pool, t, S) : DOMAIN p \in SUBSET Tx
         /\ DOMAIN PoolRemove(pool, t) \in SUBSET Tx
         /\ DOMAIN PoolWithout(pool, S) \in SUBSET Tx
         /\ DOMAIN PoolAfterRestore(pool, S) \in SUBSET Tx
         /\ PoolRestored(pool, S) \in SUBSET Tx
BY DEF PoolInserts, PoolRemove, PoolWithout, PoolAfterRestore, PoolRestored, LeastClosed

\* What it gives back are txs in some order.
LEMMA RestoredOrders ==
  ASSUME NEW pool, DOMAIN pool \in SUBSET Tx, NEW t, NEW block
  PROVE  /\ \A o \in RestoreOrders(pool, t) : \E S \in SUBSET Tx : o \in SetToSeqs(S)
         /\ \A o \in BlockRestoreOrders(pool, block) : \E S \in SUBSET Tx : o \in SetToSeqs(S)
<1>1. \A S : PoolRestored(pool, S) \in SUBSET Tx
  BY DEF PoolRestored, LeastClosed
<1> QED BY <1>1 DEF RestoreOrders, BlockRestoreOrders

\* The snapshot queues txs only.
LEMMA SnapshotIInv ==
  ASSUME IInv, Snapshot PROVE IInv'
<1>1. ASSUME NEW order \in SetToSeqs(node_txs), NEW seeded \in SUBSET node_txs,
             TakeSnapshot(order, seeded)
      PROVE  IInv'
  <2>1. action_queue' \in Seq(SafeActions)
    BY <1>1, InsertTxs DEF TakeSnapshot, IInv, NodeOK
  <2>2. QueueOK'
    BY <1>1, <2>1 DEF TakeSnapshot, innerVars, IInv, QueueOK
  <2> QED BY <1>1, <2>2, Frame DEF TakeSnapshot, IInv, nodeVars, innerVars
<1>2. ASSUME TakeFees PROVE IInv'
  BY <1>2, Frame DEF TakeFees, IInv, nodeVars, innerVars, syncVars
<1> QED BY <1>1, <1>2 DEF Snapshot

\* Restored txs, what is queued already and a message make a queue.
LEMMA EnqueueQueue ==
  ASSUME NEW S \in SUBSET Tx, NEW restored \in SetToSeqs(S),
         NEW msg \in SafeActions, action_queue \in Seq(SafeActions)
  PROVE  /\ [i \in DOMAIN restored |-> InsertTx(restored[i])] \o action_queue
              \in Seq(SafeActions)
         /\ Enqueue(restored, msg) => action_queue' \in Seq(SafeActions)
         /\ Enqueue(<< >>, msg) => action_queue' \in Seq(SafeActions)
<1>1. [i \in DOMAIN restored |-> InsertTx(restored[i])] \in Seq(SafeActions)
  BY InsertTxs
<1>2. Append(action_queue, msg) \in Seq(SafeActions)
  OBVIOUS
<1>3. [i \in DOMAIN << >> |-> InsertTx(<< >>[i])] \in Seq(SafeActions)
  OBVIOUS
<1> QED BY <1>1, <1>2, <1>3, ConcatProperties DEF Enqueue

\* A message is read and queued.
LEMMA HandleSeqIInv ==
  ASSUME IInv, HandleSeq PROVE IInv'
<1> DEFINE msg == Head(zmq)
<1>1. msg \in SafeActions /\ zmq' \in Seq(NodeMsgs)
  BY HeadTailProperties DEF HandleSeq, IInv, NodeOK, SafeActions
<1>2. NodeOK'
  BY <1>1 DEF HandleSeq, IInv, NodeOK
<1>3. RejectedOK'
  BY Frame DEF HandleSeq, IInv
<1>4. UNCHANGED <<tip, blocks, synced>>
  BY DEF HandleSeq
<1>5. CASE HandleBlockHashMsg(msg.block) /\ Enqueue(<< >>, msg)
  <2>1. blocks_needed \subseteq blocks_needed'
    BY <1>5 DEF HandleBlockHashMsg
  <2>2. TipOK'
    BY <1>4, <2>1 DEF IInv, TipOK
  <2>3. << >> \in SetToSeqs({})
    BY FS_EmptySet DEF SetToSeqs
  <2>4. action_queue' \in Seq(SafeActions)
    BY <1>1, <1>5, <2>3, EnqueueQueue DEF IInv, QueueOK
  <2>5. QueueOK'
    BY <1>5, <2>4 DEF HandleBlockHashMsg, IInv, QueueOK
  <2> QED BY <1>2, <1>3, <2>2, <2>5 DEF IInv
<1>6. CASE msg.event \in {"Added", "Removed"} /\ HandleTxHashMsg(msg)
  <2>1. msg.tx \in Tx
    BY <1>1, <1>6, OnlyBlocksConnect
  <2>2. << >> \in SetToSeqs({})
    BY FS_EmptySet DEF SetToSeqs
  <2>3. \A o \in RestoredBy(msg.tx) : \E S \in SUBSET Tx : o \in SetToSeqs(S)
    BY <2>2, RestoredOrders DEF RestoredBy, IInv, QueueOK
  <2>4. CASE \E restored \in RestoredBy(msg.tx) :
               HandleAdded(msg.tx, restored) /\ Enqueue(restored, msg)
    <3>1. PICK restored \in RestoredBy(msg.tx) :
            HandleAdded(msg.tx, restored) /\ Enqueue(restored, msg)
      BY <2>4
    <3>2. action_queue' \in Seq(SafeActions)
      BY <1>1, <2>3, <3>1, EnqueueQueue DEF IInv, QueueOK
    <3>3. DOMAIN abandoned_pool' \in SUBSET Tx
      BY <2>1, <3>1, PoolDomains DEF HandleAdded, IInv, QueueOK
    <3>4. UNCHANGED blocks_needed
      BY <3>1 DEF HandleAdded
    <3> QED BY <1>2, <1>3, <1>4, <3>2, <3>3, <3>4 DEF IInv, QueueOK, TipOK
  <2>5. CASE Enqueue(<< >>, msg) /\ UNCHANGED <<abandoned_pool, blocks_needed>>
    <3>1. action_queue' \in Seq(SafeActions)
      BY <1>1, <2>2, <2>5, EnqueueQueue DEF IInv, QueueOK
    <3> QED BY <1>2, <1>3, <1>4, <2>5, <3>1 DEF IInv, QueueOK, TipOK
  <2> QED BY <1>6, <2>4, <2>5 DEF HandleTxHashMsg, HandleRemoved
<1> QED BY <1>5, <1>6 DEF HandleSeq

\* A response is looked at: a block is no longer needed when it is there.
LEMMA HandleRespIInv ==
  ASSUME IInv, HandleResp PROVE IInv'
<1>1. NodeOK' /\ RejectedOK'
  BY Frame DEF HandleResp, nodeVars, IInv
<1>2. UNCHANGED <<tip, synced>>
  BY DEF HandleResp
<1>3. ASSUME NEW b, NEW txs, NEW restored \in BlockRestoreOrders(abandoned_pool, txs),
             HandleRespBlock(b, restored)
      PROVE  IInv'
  <2>1. /\ blocks_needed' = blocks_needed \ {b}
        /\ DOMAIN blocks' = DOMAIN blocks \cup {b}
    BY <1>3 DEF HandleRespBlock
  <2>2. TipOK'
    BY <1>2, <2>1 DEF IInv, TipOK
  <2>3. PICK S \in SUBSET Tx : restored \in SetToSeqs(S)
    BY RestoredOrders DEF IInv, QueueOK
  <2>4. [i \in DOMAIN restored |-> InsertTx(restored[i])] \in Seq(SafeActions)
    BY <2>3, InsertTxs
  <2>5. action_queue' \in Seq(SafeActions)
    BY <1>3, <2>4, ConcatProperties DEF HandleRespBlock, IInv, QueueOK
  <2>6. DOMAIN abandoned_pool' \in SUBSET Tx
    BY <1>3, PoolDomains DEF HandleRespBlock, PoolAfterRestore, IInv, QueueOK
  <2> QED BY <1>1, <2>2, <2>5, <2>6 DEF IInv, QueueOK
<1>4. ASSUME UNCHANGED <<abandoned_pool, action_queue, blocks, blocks_needed>>
      PROVE  IInv'
  BY <1>1, <1>2, <1>4, Frame DEF IInv
<1> QED BY <1>3, <1>4 DEF HandleResp, HandleRespTxs

------------------------------------------------------------------------------
\* The steps that apply a sync action.

\* The head of the queue is taken off.
LEMMA AppliedQueue ==
  ASSUME action_queue \in Seq(SafeActions), action_queue # << >>
  PROVE  /\ HeadAction \in SafeActions
         /\ Applied => action_queue' \in Seq(SafeActions)
BY HeadTailProperties DEF HeadAction, Applied

\* A step that leaves the blocks alone preserves the invariant if the pool
\* stays a pool of txs.
LEMMA TxFrame ==
  ASSUME IInv, action_queue # << >>, Applied \/ Pending,
         UNCHANGED <<tip, unfiltered_tip, enforcer_tip, rejected_blocks>>,
         blocks_needed' = blocks_needed, DOMAIN abandoned_pool' \in SUBSET Tx
  PROVE  IInv'
<1>1. action_queue' \in Seq(SafeActions)
  BY AppliedQueue DEF Pending, IInv, QueueOK
<1>2. UNCHANGED <<node_tip, node_txs, node_seq, zmq, tip, blocks, synced>>
  BY DEF Applied, Pending, nodeVars, innerVars
<1> QED BY <1>1, <1>2, Frame DEF IInv, QueueOK

\* try_add_tx_from_caches leaves the chain alone.
LEMMA TxStepIInv ==
  ASSUME IInv, NEW t \in Tx,
         \/ AddKnown(t) \/ AddUnfetched(t) \/ AddWithRejectedParent(t)
         \/ AddWithRequiredParents(t) \/ AddAbandoned(t) \/ AddAccepted(t)
         \/ AddRejected(t)
  PROVE  IInv'
<1> USE DEF AppliesTx, AddFetched, CanApply, chainVars
<1>1. DOMAIN abandoned_pool \in SUBSET Tx
  BY DEF IInv, QueueOK
<1>2. CASE AddKnown(t)
  BY <1>1, <1>2, TxFrame DEF AddKnown, Applied
<1>3. CASE AddUnfetched(t)
  BY <1>1, <1>3, TxFrame DEF AddUnfetched, Pending, innerVars
<1>4. CASE AddWithRejectedParent(t)
  BY <1>1, <1>4, TxFrame DEF AddWithRejectedParent, Applied
<1>5. CASE AddWithRequiredParents(t)
  BY <1>1, <1>5, TxFrame DEF AddWithRequiredParents, Pending, innerVars
<1>6. CASE AddAbandoned(t)
  BY <1>1, <1>6, TxFrame, PoolDomains DEF AddAbandoned, Applied
<1>7. CASE AddAccepted(t)
  BY <1>1, <1>7, TxFrame DEF AddAccepted, Validates, Applied
<1>8. CASE AddRejected(t)
  BY <1>1, <1>8, TxFrame, PoolDomains DEF AddRejected, Validates, Applied
<1> QED BY <1>2, <1>3, <1>4, <1>5, <1>6, <1>7, <1>8

\* So does a removed tx.
LEMMA ApplyRemovedIInv ==
  ASSUME IInv, ApplyRemoved PROVE IInv'
<1>1. HeadAction \in SafeActions /\ HeadAction.event = "Removed"
  BY AppliedQueue DEF ApplyRemoved, CanApply, IInv, QueueOK
<1>2. DOMAIN abandoned_pool' \in SUBSET Tx
  BY <1>1, PoolDomains, OnlyBlocksConnect DEF ApplyRemoved, IInv, QueueOK
<1> QED BY <1>2, TxFrame DEF ApplyRemoved, CanApply, chainVars, Applied

\* A block that is not connected to the filtered tip, and what does not connect
\* it at all.
LEMMA PassedOverIInv ==
  ASSUME IInv, NEW b \in Block,
         \/ ConnectUnfetched(b) \/ ConnectCovered(b) \/ DisconnectRejected(b)
         \/ DisconnectEarly(b) \/ DisconnectFetchesParent(b)
  PROVE  IInv'
<1> USE DEF AppliesBlock, CanApply, chainVars
<1>1. DOMAIN abandoned_pool \in SUBSET Tx
  BY DEF IInv, QueueOK
<1>2. CASE ConnectUnfetched(b)
  BY <1>1, <1>2, TxFrame DEF ConnectUnfetched, Pending, innerVars
<1>3. CASE ConnectCovered(b)
  BY <1>1, <1>3, TxFrame DEF ConnectCovered, ConnectFetched, Applied
<1>4. CASE DisconnectRejected(b)
  BY <1>1, <1>4, TxFrame DEF DisconnectRejected, Applied
<1>5. CASE DisconnectEarly(b)
  BY <1>1, <1>5, TxFrame DEF DisconnectEarly, Pending, innerVars
<1>6. CASE DisconnectFetchesParent(b)
  <2>1. blocks_needed \subseteq blocks_needed'
    BY <1>6 DEF DisconnectFetchesParent
  <2>2. UNCHANGED <<nodeVars, innerVars, action_queue, rejected_blocks, synced>>
    BY <1>6 DEF DisconnectFetchesParent, Pending
  <2> QED BY <2>1, <2>2, Frame DEF IInv, TipOK, nodeVars, innerVars
<1> QED BY <1>2, <1>3, <1>4, <1>5, <1>6

\* What any connected block leaves in order.
LEMMA ConnectFrame ==
  ASSUME IInv, NEW b \in Block, ConnectUnfiltered(b)
  PROVE  /\ NodeOK' /\ QueueOK'
         /\ UNCHANGED <<blocks, blocks_needed, synced>>
         /\ b \in DOMAIN blocks
         /\ unfiltered_tip' = b
         /\ Parent[b] \in {tip, unfiltered_tip}
<1>1. action_queue # << >> /\ Applied /\ UNCHANGED abandoned_pool
  BY DEF ConnectUnfiltered, ConnectFetched, AppliesBlock, CanApply
<1>2. action_queue' \in Seq(SafeActions)
  BY <1>1, AppliedQueue DEF IInv, QueueOK
<1>3. NodeOK' /\ QueueOK'
  BY <1>1, <1>2, Frame DEF Applied, nodeVars, IInv, QueueOK
<1> QED BY <1>1, <1>3 DEF ConnectUnfiltered, ConnectFetched, Applied

\* A rejected block is none of the blocks below the tip: a child of the tip is
\* not below the tip, and a child of a rejected unfiltered tip would have that
\* one below the tip.
LEMMA ConnectRejectedIInv ==
  ASSUME IInv, NEW b \in Block, ConnectRejected(b) PROVE IInv'
<1>1. /\ NodeOK' /\ QueueOK' /\ UNCHANGED <<blocks, blocks_needed, synced>>
      /\ unfiltered_tip' = b /\ Parent[b] \in {tip, unfiltered_tip}
  BY ConnectFrame DEF ConnectRejected
<1>2. /\ rejected_blocks' = rejected_blocks \cup {b}
      /\ UNCHANGED <<tip, enforcer_tip>>
      /\ Parent[b] # tip \/ b \in RejectsBlock
  BY DEF ConnectRejected, IsRejected
<1>3. TipOK'
  BY <1>1, <1>2 DEF IInv, TipOK
<1>4. Parent[b] # NoBlock
  BY <1>1, NoBlockAssumption DEF IInv, RejectedOK
<1>5. b \notin Ancestors[tip]
  <2>1. CASE Parent[b] = tip
    BY <1>4, <2>1, NotBelowParent
  <2>2. CASE Parent[b] # tip
    <3>1. Parent[b] \in rejected_blocks
      BY <1>1, <2>2 DEF IInv, RejectedOK
    <3> QED BY <1>4, <3>1, AncestorsClosed DEF IInv, RejectedOK
  <2> QED BY <2>1, <2>2
<1>6. b \in RejectsBlock \/ Parent[b] \in rejected_blocks
  BY <1>1, <1>2 DEF IInv, RejectedOK
<1>7. RejectedOK'
  BY <1>1, <1>2, <1>5, <1>6 DEF IInv, RejectedOK
<1> QED BY <1>1, <1>3, <1>7 DEF IInv

\* A block that is connected has not been rejected before: it would have to be
\* because its parent, the tip, had been.
LEMMA ConnectAcceptedIInv ==
  ASSUME IInv, NEW b \in Block, ConnectAccepted(b) PROVE IInv'
<1>1. /\ NodeOK' /\ QueueOK' /\ UNCHANGED <<blocks, blocks_needed, synced>>
      /\ b \in DOMAIN blocks /\ unfiltered_tip' = b
  BY ConnectFrame DEF ConnectAccepted
<1>2. /\ Parent[b] = tip /\ b \notin RejectsBlock
      /\ tip' = b /\ enforcer_tip' = b /\ UNCHANGED rejected_blocks
  BY DEF ConnectAccepted, IsRejected
<1>3. TipOK'
  BY <1>1, <1>2 DEF TipOK
<1>4. tip \in Block /\ tip \notin rejected_blocks
  BY AncestorsClosed DEF IInv, RejectedOK
<1>5. b \notin rejected_blocks
  BY <1>2, <1>4 DEF IInv, RejectedOK
<1>6. Ancestors[b] = {b} \cup Ancestors[tip]
  BY <1>2, <1>4, AncestorsOfChild, NoBlockAssumption
<1>7. RejectedOK'
  BY <1>1, <1>2, <1>5, <1>6 DEF IInv, RejectedOK
<1> QED BY <1>1, <1>3, <1>7 DEF IInv

\* A disconnect moves the tips to the parent, which is there.
LEMMA DisconnectIInv ==
  ASSUME IInv, NEW b \in Block, Disconnect(b) PROVE IInv'
<1>1. /\ action_queue # << >> /\ Applied
      /\ HeadAction.event = "Disconnected" /\ HeadAction.block = b
      /\ tip = b /\ ~ParentMissing(b)
      /\ tip' = Parent[b] /\ enforcer_tip' = Parent[b] /\ unfiltered_tip' = Parent[b]
      /\ UNCHANGED <<abandoned_pool, rejected_blocks>>
  BY DEF Disconnect, DisconnectsTip, AppliesBlock, CanApply
<1>2. HeadAction \in SafeActions /\ action_queue' \in Seq(SafeActions)
  BY <1>1, AppliedQueue DEF IInv, QueueOK
<1>3. Parent[b] # NoBlock
  BY <1>1, <1>2, OnlyBlocksConnect
<1>4. UNCHANGED <<node_tip, node_txs, node_seq, zmq, blocks, blocks_needed, synced>>
  BY <1>1 DEF Applied, nodeVars
<1>5. NodeOK' /\ QueueOK'
  BY <1>1, <1>2, <1>4, Frame DEF IInv, QueueOK
<1>6. TipOK'
  BY <1>1, <1>3, <1>4 DEF ParentMissing, TipOK
<1>7. Parent[b] \in Block /\ Ancestors[Parent[b]] \subseteq Ancestors[b]
  BY <1>3, AncestorsOfChild
<1>8. RejectedOK'
  BY <1>1, <1>7 DEF IInv, RejectedOK
<1> QED BY <1>5, <1>6, <1>8 DEF IInv

\* The loop ends with an empty queue: the initial sync may be over, and then no
\* block is needed any more.
LEMMA QueueEmptyIInv ==
  ASSUME IInv, QueueEmpty PROVE IInv'
<1>1. /\ UNCHANGED <<nodeVars, innerVars, syncVars>>
      /\ synced' => synced \/ blocks_needed = {}
  BY DEF QueueEmpty, IsSynced
<1>2. TipOK'
  BY <1>1 DEF innerVars, syncVars, IInv, TipOK
<1> QED BY <1>1, <1>2, Frame DEF IInv, nodeVars, innerVars, syncVars

\* An error ends the task.
LEMMA StopIInv ==
  ASSUME IInv, NEW error, Stop(error) PROVE IInv'
BY Frame DEF Stop, IInv, nodeVars, innerVars, syncVars

\* All of try_apply_next_sync_action.
LEMMA ApplyIInv ==
  ASSUME IInv, Apply PROVE IInv'
<1>1. ASSUME NEW b \in Block, ConnectUnexpected(b) \/ DisconnectMismatch(b) PROVE IInv'
  BY <1>1, StopIInv DEF ConnectUnexpected, DisconnectMismatch
<1>2. ASSUME RemovedUnknown PROVE IInv'
  BY <1>2, StopIInv DEF RemovedUnknown
<1> QED BY <1>1, <1>2, QueueEmptyIInv, TxStepIInv, ApplyRemovedIInv, PassedOverIInv,
           ConnectRejectedIInv, ConnectAcceptedIInv, DisconnectIInv DEF Apply

------------------------------------------------------------------------------
\* Every step of node, task and RPCs preserves the invariant.
THEOREM NextIInv == IInv /\ [Next]_vars => IInv'
<1> SUFFICES ASSUME IInv, [Next]_vars PROVE IInv'
  OBVIOUS
<1>1. CASE NodeStep
  <2>1. NodeOK'
    BY <1>1, NodeStepNodeOK DEF NodeStep, IInv
  <2> QED BY <1>1, <2>1, Frame DEF NodeStep, IInv, innerVars, syncVars
<1>2. CASE TakeRequest
  BY <1>2, Frame DEF TakeRequest, IInv, nodeVars, innerVars
<1>3. CASE ServeRequest
  BY <1>3, Frame DEF ServeRequest, IInv, innerVars, syncVars
<1>4. CASE RequestFails \/ ApplySyncActionTimeout \/ Shutdown
  BY <1>4, StopIInv DEF RequestFails, ApplySyncActionTimeout, Shutdown
<1>5. CASE UNCHANGED vars
  BY <1>5, Frame DEF vars, IInv, nodeVars, innerVars, syncVars
<1> QED BY <1>1, <1>2, <1>3, <1>4, <1>5, SnapshotIInv, HandleSeqIInv, HandleRespIInv,
           ApplyIInv DEF Next

\* The messages and the queue are in order, the tip is fetched or about to be,
\* and nothing rejected is below the enforcer's tip.
THEOREM InductiveInvariant == Spec => []IInv
BY InitIInv, NextIInv, PTL DEF Spec

\* Mempool::tip finds the tip's block whenever readers are served: for every
\* chain, and however many blocks below the sync-time tip it is disconnected.
\* The reason is that a block whose child is disconnected is fetched first.
THEOREM TipKnownHolds == Spec => []TipKnown
<1>1. IInv => TipKnown
  BY DEF IInv, TipOK, TipKnown
<1> QED BY <1>1, InductiveInvariant, PTL

\* The enforcer is never built on a rejected block: for every chain and every
\* enforcer, whatever the node connects and disconnects, and whether it carries
\* out the task's `invalidateblock` or not.
THEOREM RejectedNeverBuiltOnHolds == Spec => []RejectedNeverBuiltOn
<1>1. IInv => RejectedNeverBuiltOn
  BY DEF IInv, RejectedOK, RejectedNeverBuiltOn
<1> QED BY <1>1, InductiveInvariant, PTL

------------------------------------------------------------------------------
\* The task follows the node.  What is still to be applied, the action queue and
\* then the unread messages, leads from some block to the node's tip.  How that
\* block lies to the tips is the invariant.

\* x is above the filtered tip t, with nothing but rejected blocks in between.
Tower(x, t, rejected) ==
  /\ x \in Block
  /\ t \in Ancestors[x]
  /\ Ancestors[x] \ Ancestors[t] \subseteq rejected

\* How the block pos at which the next block event applies lies to the filtered
\* tip t and the unfiltered tip u: above the former, and at it if the tips agree.
\* Above a block that has been passed over, with a rejected unfiltered tip, it
\* may be anywhere above the tip, and no event reaches the tips any more unless
\* it comes back.
Placed(pos, t, u, rejected) ==
  /\ pos \in Block
  /\ t \in Ancestors[pos]
  /\ IF Tower(pos, t, rejected) THEN u = t => pos = t ELSE u \in rejected

OnPath(msgs, to, t, u, rejected) ==
  \E pos \in Block : Placed(pos, t, u, rejected) /\ Path(msgs, pos, to)

\* Connect events for blocks that the task was at when it started.
Backlog(p) ==
  \A i \in DOMAIN p : /\ p[i].event # "Disconnected"
                      /\ p[i].event = "Connected" => p[i].block \in Ancestors[StartTip]

CatchingUp(msgs, to, t, u) ==
  /\ t = StartTip /\ u = StartTip
  /\ \E p, q \in Seq(SafeActions) :
       msgs = p \o q /\ Backlog(p) /\ Path(q, StartTip, to)

LeadsOn(msgs, to, t, u, rejected) ==
  CatchingUp(msgs, to, t, u) \/ OnPath(msgs, to, t, u, rejected)

ChainOK ==
  /\ phase = "snapshot" => action_queue = << >>
  /\ Tower(unfiltered_tip, tip, rejected_blocks)
  /\ LeadsOn(action_queue \o zmq, node_tip, tip, unfiltered_tip, rejected_blocks)

\* The tips agree, and the next event applies there.
LEMMA TipsAgree ==
  ASSUME NEW b \in Block, NEW rejected
  PROVE  Tower(b, b, rejected) /\ Placed(b, b, b, rejected)
BY AncestorsClosed DEF Tower, Placed

\* The node goes on where the messages lead.
LEMMA LeadsOnAppend ==
  ASSUME NEW msgs \in Seq(SafeActions), NEW s \in Seq(SafeActions), NEW to, NEW next,
         NEW t, NEW u, NEW rejected,
         LeadsOn(msgs, to, t, u, rejected), Path(s, to, next)
  PROVE  LeadsOn(msgs \o s, next, t, u, rejected)
<1>1. CASE CatchingUp(msgs, to, t, u)
  <2>1. PICK p, q \in Seq(SafeActions) :
          msgs = p \o q /\ Backlog(p) /\ Path(q, StartTip, to)
    BY <1>1 DEF CatchingUp
  <2>2. Path(q \o s, StartTip, next)
    BY <2>1, PathConcat
  <2>3. q \o s \in Seq(SafeActions) /\ msgs \o s = p \o (q \o s)
    BY <2>1, ConcatProperties, ConcatAssociative
  <2> QED BY <1>1, <2>1, <2>2, <2>3 DEF CatchingUp, LeadsOn
<1>2. CASE OnPath(msgs, to, t, u, rejected)
  BY <1>2, PathConcat DEF OnPath, LeadsOn
<1> QED BY <1>1, <1>2 DEF LeadsOn

\* Tx actions in front do not matter.
LEMMA LeadsOnInserts ==
  ASSUME NEW msgs \in Seq(SafeActions), NEW ins \in Seq(SafeActions), NEW to,
         NEW t, NEW u, NEW rejected,
         LeadsOn(msgs, to, t, u, rejected), \A i \in DOMAIN ins : IsTxMsg(ins[i])
  PROVE  LeadsOn(ins \o msgs, to, t, u, rejected)
<1>1. CASE CatchingUp(msgs, to, t, u)
  <2>1. PICK p, q \in Seq(SafeActions) :
          msgs = p \o q /\ Backlog(p) /\ Path(q, StartTip, to)
    BY <1>1 DEF CatchingUp
  <2>2. ins \o p \in Seq(SafeActions) /\ ins \o msgs = (ins \o p) \o q
    BY <2>1, ConcatProperties, ConcatAssociative
  <2>3. ASSUME NEW i \in DOMAIN (ins \o p)
        PROVE  (\E j \in DOMAIN ins : (ins \o p)[i] = ins[j])
                 \/ (\E j \in DOMAIN p : (ins \o p)[i] = p[j])
    <3>1. CASE i <= Len(ins)
      <4>1. i \in DOMAIN ins /\ (ins \o p)[i] = ins[i]
        BY <3>1
      <4> QED BY <4>1
    <3>2. CASE ~(i <= Len(ins))
      <4>1. i - Len(ins) \in DOMAIN p /\ (ins \o p)[i] = p[i - Len(ins)]
        BY <3>2
      <4> QED BY <4>1
    <3> QED BY <3>1, <3>2
  <2>4. Backlog(ins \o p)
    BY <2>1, <2>3 DEF Backlog, IsTxMsg
  <2> QED BY <1>1, <2>1, <2>2, <2>4 DEF CatchingUp, LeadsOn
<1>2. CASE OnPath(msgs, to, t, u, rejected)
  <2>1. PICK pos \in Block : Placed(pos, t, u, rejected) /\ Path(msgs, pos, to)
    BY <1>2 DEF OnPath
  <2>2. Path(ins, pos, pos)
    BY PathStays
  <2>3. Path(ins \o msgs, pos, to)
    BY <2>1, <2>2, PathConcat
  <2> QED BY <2>1, <2>3 DEF OnPath, LeadsOn
<1> QED BY <1>1, <1>2 DEF LeadsOn

\* The first message either belongs to the backlog or moves the block at which
\* the next event applies.
LEMMA LeadsOnHead ==
  ASSUME NEW msgs \in Seq(SafeActions), msgs # << >>, NEW to, NEW t, NEW u, NEW rejected,
         LeadsOn(msgs, to, t, u, rejected)
  PROVE  \/ /\ t = StartTip /\ u = StartTip
            /\ CatchingUp(Tail(msgs), to, t, u)
            /\ Head(msgs).event # "Disconnected"
            /\ Head(msgs).event = "Connected" => Head(msgs).block \in Ancestors[StartTip]
         \/ \E pos, y \in Block : /\ Placed(pos, t, u, rejected)
                                  /\ Moves(Head(msgs), pos, y)
                                  /\ Path(Tail(msgs), y, to)
<1>1. CASE OnPath(msgs, to, t, u, rejected)
  BY <1>1, PathTail DEF OnPath
<1>2. CASE CatchingUp(msgs, to, t, u)
  <2>1. PICK p, q \in Seq(SafeActions) :
          msgs = p \o q /\ Backlog(p) /\ Path(q, StartTip, to)
    BY <1>2 DEF CatchingUp
  <2>2. t = StartTip /\ u = StartTip
    BY <1>2 DEF CatchingUp
  <2>3. CASE p = << >>
    <3>1. msgs = q
      BY <2>1, <2>3
    <3>2. Placed(StartTip, t, u, rejected)
      BY <2>2, TipsAgree, StartAssumption
    <3>3. OnPath(msgs, to, t, u, rejected)
      BY <2>1, <3>1, <3>2, StartAssumption DEF OnPath
    <3> QED BY <1>1, <3>3
  <2>4. CASE p # << >>
    <3>1. /\ Head(msgs) = p[1] /\ 1 \in DOMAIN p
          /\ Tail(msgs) = Tail(p) \o q
          /\ Tail(p) \in Seq(SafeActions)
          /\ \A i \in DOMAIN Tail(p) : i + 1 \in DOMAIN p /\ Tail(p)[i] = p[i + 1]
      BY <2>1, <2>4
    <3>2. Backlog(Tail(p))
      BY <2>1, <3>1 DEF Backlog
    <3>3. CatchingUp(Tail(msgs), to, t, u)
      BY <2>1, <2>2, <3>1, <3>2 DEF CatchingUp
    <3> QED BY <2>1, <2>2, <3>1, <3>3 DEF Backlog
  <2> QED BY <2>3, <2>4
<1> QED BY <1>1, <1>2 DEF LeadsOn

\* A connect event is passed over.
LEMMA PlacedCovered ==
  ASSUME NEW b \in Block, NEW t \in Block, NEW u, NEW rejected, Tower(u, t, rejected),
         Parent[b] \in Block, Placed(Parent[b], t, u, rejected), Parent[b] # u
  PROVE  Placed(b, t, u, rejected)
<1>1. Ancestors[b] = {b} \cup Ancestors[Parent[b]] /\ b \notin Ancestors[Parent[b]]
  BY AncestorsOfChild, NotBelowParent, NoBlockAssumption
<1>2. t \in Ancestors[b] /\ b # t
  BY <1>1 DEF Placed
<1>3. CASE Tower(b, t, rejected)
  <2>1. Tower(Parent[b], t, rejected)
    BY <1>1, <1>3 DEF Tower, Placed
  <2>2. u # t
    BY <2>1 DEF Placed
  <2> QED BY <1>2, <1>3, <2>2 DEF Placed
<1>4. CASE ~Tower(b, t, rejected)
  <2>1. CASE u = t
    <3>1. ~Tower(Parent[b], t, rejected)
      BY <2>1 DEF Placed
    <3> QED BY <1>2, <1>4, <3>1 DEF Placed
  <2>2. CASE u # t
    <3>1. u \in Ancestors[u] /\ u \notin Ancestors[t]
      BY <2>2, AncestorsClosed, AncestorsBelow DEF Tower
    <3> QED BY <1>2, <1>4, <3>1 DEF Placed, Tower
  <2> QED BY <2>1, <2>2
<1> QED BY <1>3, <1>4

\* A block is rejected on top of either tip.
LEMMA PlacedRejected ==
  ASSUME NEW b \in Block, NEW t \in Block, NEW u, NEW rejected, Tower(u, t, rejected),
         Parent[b] \in {u, t}
  PROVE  /\ Tower(b, t, rejected \cup {b})
         /\ Placed(b, t, b, rejected \cup {b})
<1>1. Tower(Parent[b], t, rejected)
  BY TipsAgree
<1>2. Ancestors[b] = {b} \cup Ancestors[Parent[b]] /\ b \notin Ancestors[Parent[b]]
  BY <1>1, AncestorsOfChild, NotBelowParent, NoBlockAssumption DEF Tower
<1> QED BY <1>1, <1>2 DEF Tower, Placed

\* A rejected block is disconnected.
LEMMA PlacedDisconnected ==
  ASSUME NEW b \in Block, NEW t \in Block, NEW u, NEW rejected, Parent[b] # NoBlock,
         Placed(b, t, u, rejected), b # t, b \in rejected
  PROVE  Placed(Parent[b], t, u, rejected)
<1>1. Parent[b] \in Block /\ Ancestors[b] = {b} \cup Ancestors[Parent[b]]
  BY AncestorsOfChild
<1>2. t \in Ancestors[Parent[b]]
  BY <1>1 DEF Placed
<1>3. Tower(b, t, rejected) <=> Tower(Parent[b], t, rejected)
  BY <1>1, <1>2 DEF Tower, Placed
<1> QED BY <1>1, <1>2, <1>3 DEF Placed

\* Before anything has been read, nothing has to be applied, and the backlog is
\* from before.
LEMMA InitChainOK ==
  ASSUME Init PROVE ChainOK
<1>1. /\ tip = StartTip /\ unfiltered_tip = StartTip /\ node_tip = StartTip
      /\ action_queue = << >> /\ NodeInit
  BY DEF Init, NodeInit
<1>2. zmq \in Seq(SafeActions)
  BY <1>1, NodeInitOK DEF NodeOK, SafeActions
<1>3. action_queue \o zmq = zmq \o << >> /\ << >> \in Seq(SafeActions)
  BY <1>1, <1>2
<1>4. Backlog(zmq)
  BY <1>1, BacklogBelowStart DEF Backlog
<1>5. Path(<< >>, StartTip, StartTip)
  BY PathEmpty, StartAssumption
<1>6. CatchingUp(action_queue \o zmq, node_tip, tip, unfiltered_tip)
  BY <1>1, <1>2, <1>3, <1>4, <1>5 DEF CatchingUp
<1> QED BY <1>1, <1>6, TipsAgree, StartAssumption DEF ChainOK, LeadsOn

\* What most steps leave alone.
LEMMA ChainFrame ==
  ASSUME ChainOK, UNCHANGED <<node_tip, zmq, action_queue, tip, unfiltered_tip, rejected_blocks>>,
         phase' = "snapshot" => phase = "snapshot"
  PROVE  ChainOK'
BY DEF ChainOK

\* What has still to be applied is sync actions.
LEMMA UnappliedActions ==
  ASSUME IInv
  PROVE  /\ action_queue \in Seq(SafeActions) /\ zmq \in Seq(SafeActions)
         /\ action_queue \o zmq \in Seq(SafeActions)
BY ConcatProperties DEF IInv, NodeOK, QueueOK, SafeActions

\* The node appends where its tip moves.
LEMMA NodeStepChainOK ==
  ASSUME IInv, ChainOK, NodeStep PROVE ChainOK'
<1>1. /\ UNCHANGED <<action_queue, tip, unfiltered_tip, rejected_blocks, phase>>
      /\ NodeNext /\ NodeOK
  BY DEF NodeStep, innerVars, syncVars, IInv
<1>2. PICK s \in Seq(NodeMsgs) : zmq' = zmq \o s /\ Path(s, node_tip, node_tip')
  BY <1>1, NodePublishes
<1>3. s \in Seq(SafeActions)
  BY DEF SafeActions
<1>4. action_queue' \o zmq' = (action_queue \o zmq) \o s
  BY <1>1, <1>2, <1>3, UnappliedActions, ConcatAssociative
<1>5. LeadsOn((action_queue \o zmq) \o s, node_tip', tip, unfiltered_tip, rejected_blocks)
  BY <1>2, <1>3, UnappliedActions, LeadsOnAppend DEF ChainOK
<1> QED BY <1>1, <1>4, <1>5 DEF ChainOK

\* Txs of the snapshot and restored txs go in front.
LEMMA InsertTxsLeadNowhere ==
  ASSUME NEW S \in SUBSET Tx, NEW o \in SetToSeqs(S)
  PROVE  /\ [i \in DOMAIN o |-> InsertTx(o[i])] \in Seq(SafeActions)
         /\ \A k \in DOMAIN [i \in DOMAIN o |-> InsertTx(o[i])] :
              IsTxMsg([i \in DOMAIN o |-> InsertTx(o[i])][k])
BY InsertTxs DEF InsertTx, IsTxMsg

LEMMA SnapshotChainOK ==
  ASSUME IInv, ChainOK, Snapshot PROVE ChainOK'
<1>1. ASSUME NEW order \in SetToSeqs(node_txs), NEW seeded \in SUBSET node_txs,
             TakeSnapshot(order, seeded)
      PROVE  ChainOK'
  <2> DEFINE ins == [i \in DOMAIN order |-> InsertTx(order[i])]
  <2>1. /\ action_queue = << >> /\ action_queue' = ins /\ phase' = "fees"
        /\ UNCHANGED <<zmq, node_tip, tip, unfiltered_tip, rejected_blocks>>
    BY <1>1 DEF TakeSnapshot, ChainOK, nodeVars, innerVars
  <2>2. ins \in Seq(SafeActions) /\ \A i \in DOMAIN ins : IsTxMsg(ins[i])
    BY InsertTxsLeadNowhere DEF IInv, NodeOK
  <2> HIDE DEF ins
  <2>3. action_queue' \o zmq' = ins \o (action_queue \o zmq)
    BY <2>1, UnappliedActions
  <2>4. LeadsOn(ins \o (action_queue \o zmq), node_tip, tip, unfiltered_tip, rejected_blocks)
    BY <2>2, UnappliedActions, LeadsOnInserts DEF ChainOK
  <2> QED BY <2>1, <2>3, <2>4 DEF ChainOK
<1>2. ASSUME TakeFees PROVE ChainOK'
  BY <1>2, ChainFrame DEF TakeFees, nodeVars, innerVars, syncVars
<1> QED BY <1>1, <1>2 DEF Snapshot

\* A message goes from the one queue to the other, behind what is restored.
LEMMA EnqueuedAhead ==
  ASSUME IInv, zmq # << >>, zmq' = Tail(zmq),
         NEW S \in SUBSET Tx, NEW restored \in SetToSeqs(S), Enqueue(restored, Head(zmq))
  PROVE  action_queue' \o zmq' =
           [i \in DOMAIN restored |-> InsertTx(restored[i])] \o (action_queue \o zmq)
<1> DEFINE ins == [i \in DOMAIN restored |-> InsertTx(restored[i])]
           appended == Append(action_queue, Head(zmq))
           unread == Tail(zmq)
<1>1. action_queue' = ins \o appended /\ zmq' = unread
  BY DEF Enqueue
<1>2. ins \in Seq(SafeActions)
  BY InsertTxs
<1>3. /\ appended \o unread = action_queue \o zmq
      /\ appended \in Seq(SafeActions) /\ unread \in Seq(SafeActions)
  <2>1. Head(zmq) \in SafeActions /\ unread \in Seq(SafeActions)
    BY UnappliedActions, HeadTailProperties
  <2>2. zmq = <<Head(zmq)>> \o unread /\ <<Head(zmq)>> \in Seq(SafeActions)
    BY <2>1, UnappliedActions
  <2>3. appended = action_queue \o <<Head(zmq)>> /\ appended \in Seq(SafeActions)
    BY <2>1, UnappliedActions
  <2> HIDE DEF appended, unread
  <2>4. (action_queue \o <<Head(zmq)>>) \o unread = action_queue \o (<<Head(zmq)>> \o unread)
    BY <2>1, <2>2, UnappliedActions, ConcatAssociative
  <2> QED BY <2>1, <2>2, <2>3, <2>4
<1> HIDE DEF ins, appended, unread
<1>4. (ins \o appended) \o unread = ins \o (appended \o unread)
  <2>1. appended \in Seq(SafeActions) /\ unread \in Seq(SafeActions)
    BY <1>3
  <2> QED BY <1>2, <2>1, ConcatAssociative
<1>5. action_queue' \o zmq' = ins \o (action_queue \o zmq)
  BY <1>1, <1>3, <1>4
<1> QED BY <1>5 DEF ins

LEMMA EnqueueChain ==
  ASSUME IInv, ChainOK, zmq # << >>, zmq' = Tail(zmq),
         NEW S \in SUBSET Tx, NEW restored \in SetToSeqs(S), Enqueue(restored, Head(zmq)),
         UNCHANGED <<node_tip, tip, unfiltered_tip, rejected_blocks>>, phase' # "snapshot"
  PROVE  ChainOK'
<1> DEFINE ins == [i \in DOMAIN restored |-> InsertTx(restored[i])]
<1>1. ins \in Seq(SafeActions) /\ \A i \in DOMAIN ins : IsTxMsg(ins[i])
  BY InsertTxsLeadNowhere
<1>2. action_queue' \o zmq' = ins \o (action_queue \o zmq)
  BY EnqueuedAhead
<1> HIDE DEF ins
<1>3. LeadsOn(ins \o (action_queue \o zmq), node_tip, tip, unfiltered_tip, rejected_blocks)
  BY <1>1, UnappliedActions, LeadsOnInserts DEF ChainOK
<1> QED BY <1>2, <1>3 DEF ChainOK

LEMMA HandleSeqChainOK ==
  ASSUME IInv, ChainOK, HandleSeq PROVE ChainOK'
<1>1. /\ zmq # << >> /\ zmq' = Tail(zmq) /\ phase' = "apply"
      /\ UNCHANGED <<node_tip, tip, unfiltered_tip, rejected_blocks>>
  BY DEF HandleSeq
<1>2. << >> \in SetToSeqs({})
  BY FS_EmptySet DEF SetToSeqs
<1>3. \A t : \A o \in RestoredBy(t) : \E S \in SUBSET Tx : o \in SetToSeqs(S)
  BY <1>2, RestoredOrders DEF RestoredBy, IInv, QueueOK
<1>4. \E S \in SUBSET Tx : \E restored \in SetToSeqs(S) : Enqueue(restored, Head(zmq))
  <2>1. CASE Enqueue(<< >>, Head(zmq))
    BY <1>2, <2>1
  <2>2. CASE \E restored \in RestoredBy(Head(zmq).tx) : Enqueue(restored, Head(zmq))
    BY <1>3, <2>2
  <2> QED BY <2>1, <2>2 DEF HandleSeq, HandleTxHashMsg
<1> QED BY <1>1, <1>4, EnqueueChain

LEMMA HandleRespChainOK ==
  ASSUME IInv, ChainOK, HandleResp PROVE ChainOK'
<1>1. /\ phase' = "apply"
      /\ UNCHANGED <<node_tip, zmq, tip, unfiltered_tip, rejected_blocks>>
  BY DEF HandleResp, nodeVars
<1>2. ASSUME NEW b, NEW txs, NEW restored \in BlockRestoreOrders(abandoned_pool, txs),
             HandleRespBlock(b, restored)
      PROVE  ChainOK'
  <2> DEFINE ins == [i \in DOMAIN restored |-> InsertTx(restored[i])]
  <2>1. PICK S \in SUBSET Tx : restored \in SetToSeqs(S)
    BY RestoredOrders DEF IInv, QueueOK
  <2>2. ins \in Seq(SafeActions) /\ \A i \in DOMAIN ins : IsTxMsg(ins[i])
    BY <2>1, InsertTxsLeadNowhere
  <2>3. action_queue' = ins \o action_queue
    BY <1>2 DEF HandleRespBlock
  <2> HIDE DEF ins
  <2>4. action_queue' \o zmq' = ins \o (action_queue \o zmq)
    BY <1>1, <2>2, <2>3, UnappliedActions, ConcatAssociative
  <2>5. LeadsOn(ins \o (action_queue \o zmq), node_tip, tip, unfiltered_tip, rejected_blocks)
    BY <2>2, UnappliedActions, LeadsOnInserts DEF ChainOK
  <2> QED BY <1>1, <2>4, <2>5 DEF ChainOK
<1>3. ASSUME UNCHANGED action_queue PROVE ChainOK'
  BY <1>1, <1>3, ChainFrame
<1> QED BY <1>2, <1>3 DEF HandleResp, HandleRespTxs

\* The head of the queue is the first that is still to be applied.
LEMMA ConsumesHead ==
  ASSUME IInv, action_queue # << >>
  PROVE  /\ HeadAction \in SafeActions
         /\ action_queue \o zmq # << >>
         /\ Head(action_queue \o zmq) = HeadAction
         /\ Applied => action_queue' \o zmq' = Tail(action_queue \o zmq)
<1>1. HeadAction \in SafeActions /\ action_queue \in Seq(SafeActions) /\ zmq \in Seq(SafeActions)
  BY UnappliedActions, AppliedQueue
<1>2. action_queue \o zmq # << >> /\ Head(action_queue \o zmq) = HeadAction
  BY <1>1 DEF HeadAction
<1>3. Tail(action_queue) \o zmq = Tail(action_queue \o zmq)
  BY <1>1
<1> QED BY <1>1, <1>2, <1>3 DEF Applied, nodeVars

\* Where the task is with respect to the head of its queue.
LEMMA AtHead ==
  ASSUME IInv, ChainOK, action_queue # << >>
  PROVE  \/ /\ tip = StartTip /\ unfiltered_tip = StartTip
            /\ CatchingUp(Tail(action_queue \o zmq), node_tip, tip, unfiltered_tip)
            /\ HeadAction.event # "Disconnected"
            /\ HeadAction.event = "Connected" => HeadAction.block \in Ancestors[StartTip]
         \/ \E pos, y \in Block :
              /\ Placed(pos, tip, unfiltered_tip, rejected_blocks)
              /\ Moves(HeadAction, pos, y)
              /\ Path(Tail(action_queue \o zmq), y, node_tip)
<1> DEFINE msgs == action_queue \o zmq
<1>1. /\ msgs \in Seq(SafeActions) /\ msgs # << >> /\ Head(msgs) = HeadAction
      /\ LeadsOn(msgs, node_tip, tip, unfiltered_tip, rejected_blocks)
  BY UnappliedActions, ConsumesHead DEF ChainOK
<1> HIDE DEF msgs
<1>2. \/ /\ tip = StartTip /\ unfiltered_tip = StartTip
         /\ CatchingUp(Tail(msgs), node_tip, tip, unfiltered_tip)
         /\ HeadAction.event # "Disconnected"
         /\ HeadAction.event = "Connected" => HeadAction.block \in Ancestors[StartTip]
      \/ \E pos, y \in Block : /\ Placed(pos, tip, unfiltered_tip, rejected_blocks)
                               /\ Moves(HeadAction, pos, y)
                               /\ Path(Tail(msgs), y, node_tip)
  BY <1>1, LeadsOnHead
<1> QED BY <1>2 DEF msgs

\* A step that applies an action and leaves the tips alone.
LEMMA TxAppliedChainOK ==
  ASSUME IInv, ChainOK, action_queue # << >>, Applied, IsTxMsg(HeadAction),
         UNCHANGED <<tip, unfiltered_tip, rejected_blocks>>
  PROVE  ChainOK'
<1>1. LeadsOn(Tail(action_queue \o zmq), node_tip, tip, unfiltered_tip, rejected_blocks)
  BY AtHead DEF LeadsOn, OnPath, Moves, IsTxMsg
<1>2. action_queue' \o zmq' = Tail(action_queue \o zmq) /\ node_tip' = node_tip
  BY ConsumesHead DEF Applied, nodeVars
<1> QED BY <1>1, <1>2 DEF ChainOK, Applied

LEMMA TxStepChainOK ==
  ASSUME IInv, ChainOK, NEW t \in Tx,
         \/ AddKnown(t) \/ AddUnfetched(t) \/ AddWithRejectedParent(t)
         \/ AddWithRequiredParents(t) \/ AddAbandoned(t) \/ AddAccepted(t)
         \/ AddRejected(t)
  PROVE  ChainOK'
<1> USE DEF AppliesTx, AddFetched, CanApply, chainVars
<1>1. action_queue # << >> /\ IsTxMsg(HeadAction)
  BY DEF AddKnown, AddUnfetched, AddWithRejectedParent, AddWithRequiredParents,
         AddAbandoned, AddAccepted, AddRejected, Validates, IsTxMsg
<1>2. \/ Applied /\ UNCHANGED <<tip, unfiltered_tip, rejected_blocks>>
      \/ Pending
  BY DEF AddKnown, AddUnfetched, AddWithRejectedParent, AddWithRequiredParents,
         AddAbandoned, AddAccepted, AddRejected, Validates
<1>3. CASE Pending
  BY <1>3, ChainFrame DEF Pending, nodeVars, innerVars
<1> QED BY <1>1, <1>2, <1>3, TxAppliedChainOK

LEMMA ApplyRemovedChainOK ==
  ASSUME IInv, ChainOK, ApplyRemoved PROVE ChainOK'
<1>1. action_queue # << >> /\ IsTxMsg(HeadAction) /\ Applied
  BY DEF ApplyRemoved, CanApply, IsTxMsg
<1> QED BY <1>1, TxAppliedChainOK DEF ApplyRemoved, chainVars

\* The block of an action at which the task is not catching up.
LEMMA AtBlock ==
  ASSUME IInv, ChainOK, NEW b \in Block, action_queue # << >>, HeadAction.block = b
  PROVE  /\ HeadAction.event = "Connected" =>
              \/ /\ tip = StartTip /\ unfiltered_tip = StartTip /\ b \in Ancestors[StartTip]
                 /\ CatchingUp(Tail(action_queue \o zmq), node_tip, tip, unfiltered_tip)
              \/ /\ Parent[b] \in Block
                 /\ Placed(Parent[b], tip, unfiltered_tip, rejected_blocks)
                 /\ Path(Tail(action_queue \o zmq), b, node_tip)
         /\ HeadAction.event = "Disconnected" =>
              /\ Parent[b] \in Block
              /\ Placed(b, tip, unfiltered_tip, rejected_blocks)
              /\ Path(Tail(action_queue \o zmq), Parent[b], node_tip)
BY AtHead DEF Moves

\* The task is where the next event applies after it has moved.
LEMMA MovedChainOK ==
  ASSUME IInv, ChainOK, action_queue # << >>, Applied, NEW pos \in Block,
         Path(Tail(action_queue \o zmq), pos, node_tip),
         Placed(pos, tip', unfiltered_tip', rejected_blocks'),
         Tower(unfiltered_tip', tip', rejected_blocks')
  PROVE  ChainOK'
<1>1. action_queue' \o zmq' = Tail(action_queue \o zmq) /\ node_tip' = node_tip /\ phase' = "apply"
  BY ConsumesHead DEF Applied, nodeVars
<1>2. OnPath(action_queue' \o zmq', node_tip', tip', unfiltered_tip', rejected_blocks')
  BY <1>1 DEF OnPath
<1> QED BY <1>1, <1>2 DEF ChainOK, LeadsOn

LEMMA ConnectChainOK ==
  ASSUME IInv, ChainOK, NEW b \in Block,
         ConnectCovered(b) \/ ConnectRejected(b) \/ ConnectAccepted(b)
  PROVE  ChainOK'
<1>1. /\ action_queue # << >> /\ HeadAction.event = "Connected" /\ HeadAction.block = b
      /\ Applied
  BY DEF ConnectCovered, ConnectRejected, ConnectAccepted, ConnectUnfiltered, ConnectFetched,
         AppliesBlock, CanApply
<1>2. tip \in Block /\ Tower(unfiltered_tip, tip, rejected_blocks)
  BY DEF IInv, RejectedOK, ChainOK
<1>3. ASSUME tip = StartTip, unfiltered_tip = StartTip, b \in Ancestors[StartTip],
             CatchingUp(Tail(action_queue \o zmq), node_tip, tip, unfiltered_tip)
      PROVE  ChainOK'
  <2>1. Parent[b] # StartTip
    <3>1. SUFFICES ASSUME Parent[b] = StartTip PROVE FALSE
      OBVIOUS
    <3> QED BY <1>3, <3>1, NotBelowParent, StartAssumption, NoBlockAssumption
  <2>2. ConnectCovered(b)
    BY <1>3, <2>1 DEF ConnectRejected, ConnectAccepted, ConnectUnfiltered
  <2>3. UNCHANGED <<tip, unfiltered_tip, rejected_blocks>>
    BY <2>2 DEF ConnectCovered, chainVars
  <2>4. action_queue' \o zmq' = Tail(action_queue \o zmq) /\ node_tip' = node_tip /\ phase' = "apply"
    BY <1>1, ConsumesHead DEF Applied, nodeVars
  <2> QED BY <1>3, <2>3, <2>4 DEF ChainOK, LeadsOn
<1>4. ASSUME Parent[b] \in Block, Placed(Parent[b], tip, unfiltered_tip, rejected_blocks),
             Path(Tail(action_queue \o zmq), b, node_tip)
      PROVE  ChainOK'
  <2>1. CASE ConnectCovered(b)
    <3>1. Parent[b] # unfiltered_tip /\ UNCHANGED <<tip, unfiltered_tip, rejected_blocks>>
      BY <2>1 DEF ConnectCovered, CoversBlock, chainVars
    <3>2. Placed(b, tip, unfiltered_tip, rejected_blocks)
      BY <1>2, <1>4, <3>1, PlacedCovered
    <3> QED BY <1>1, <1>2, <1>4, <3>1, <3>2, MovedChainOK
  <2>2. CASE ConnectRejected(b)
    <3>1. /\ Parent[b] \in {unfiltered_tip, tip} /\ unfiltered_tip' = b /\ tip' = tip
          /\ rejected_blocks' = rejected_blocks \cup {b}
      BY <2>2 DEF ConnectRejected, ConnectUnfiltered
    <3>2. /\ Placed(b, tip', unfiltered_tip', rejected_blocks')
          /\ Tower(unfiltered_tip', tip', rejected_blocks')
      BY <1>2, <3>1, PlacedRejected
    <3> QED BY <1>1, <1>4, <3>2, MovedChainOK
  <2>3. CASE ConnectAccepted(b)
    <3>1. unfiltered_tip' = b /\ tip' = b
      BY <2>3 DEF ConnectAccepted, ConnectUnfiltered
    <3> QED BY <1>1, <1>4, <3>1, TipsAgree, MovedChainOK
  <2> QED BY <2>1, <2>2, <2>3
<1> QED BY <1>1, <1>3, <1>4, AtBlock

LEMMA DisconnectChainOK ==
  ASSUME IInv, ChainOK, NEW b \in Block, DisconnectRejected(b) \/ Disconnect(b)
  PROVE  ChainOK'
<1>1. /\ action_queue # << >> /\ HeadAction.event = "Disconnected" /\ HeadAction.block = b
      /\ Applied
  BY DEF DisconnectRejected, Disconnect, DisconnectsTip, AppliesBlock, CanApply
<1>2. tip \in Block /\ Tower(unfiltered_tip, tip, rejected_blocks)
  BY DEF IInv, RejectedOK, ChainOK
<1>3. /\ Parent[b] \in Block /\ Placed(b, tip, unfiltered_tip, rejected_blocks)
      /\ Path(Tail(action_queue \o zmq), Parent[b], node_tip)
  BY <1>1, AtBlock
<1>4. CASE DisconnectRejected(b)
  <2>1. /\ b # tip /\ b \in rejected_blocks
        /\ UNCHANGED <<tip, unfiltered_tip, rejected_blocks>>
    BY <1>4 DEF DisconnectRejected, chainVars
  <2>2. Placed(Parent[b], tip, unfiltered_tip, rejected_blocks)
    BY <1>2, <1>3, <2>1, PlacedDisconnected, NoBlockAssumption
  <2> QED BY <1>1, <1>2, <1>3, <2>1, <2>2, MovedChainOK
<1>5. CASE Disconnect(b)
  <2>1. unfiltered_tip' = Parent[b] /\ tip' = Parent[b]
    BY <1>5 DEF Disconnect
  <2> QED BY <1>1, <1>3, <2>1, TipsAgree, MovedChainOK
<1> QED BY <1>4, <1>5

LEMMA ApplyChainOK ==
  ASSUME IInv, ChainOK, Apply PROVE ChainOK'
<1>1. ASSUME NEW error \in Errors, Stop(error) PROVE ChainOK'
  BY <1>1, ChainFrame DEF Stop, Errors, nodeVars, innerVars, syncVars
<1>2. ASSUME QueueEmpty PROVE ChainOK'
  BY <1>2, ChainFrame DEF QueueEmpty, nodeVars, innerVars, syncVars
<1>3. ASSUME Pending PROVE ChainOK'
  BY <1>3, ChainFrame DEF Pending, nodeVars, innerVars
<1>4. ASSUME NEW b \in Block,
             \/ ConnectUnfetched(b) \/ ConnectUnexpected(b) \/ DisconnectEarly(b)
             \/ DisconnectMismatch(b) \/ DisconnectFetchesParent(b)
      PROVE  ChainOK'
  BY <1>1, <1>3, <1>4
     DEF ConnectUnfetched, ConnectUnexpected, DisconnectEarly, DisconnectMismatch,
         DisconnectFetchesParent, Errors
<1>5. ASSUME RemovedUnknown PROVE ChainOK'
  BY <1>1, <1>5 DEF RemovedUnknown, Errors
<1> QED BY <1>2, <1>4, <1>5, TxStepChainOK, ApplyRemovedChainOK, ConnectChainOK,
           DisconnectChainOK DEF Apply

LEMMA NextChainOK ==
  ASSUME IInv, ChainOK, [Next]_vars PROVE ChainOK'
<1>1. ASSUME RequestFails \/ ApplySyncActionTimeout \/ Shutdown PROVE ChainOK'
  BY <1>1, ChainFrame
     DEF RequestFails, ApplySyncActionTimeout, Shutdown, Stop, nodeVars, innerVars, syncVars
<1>2. ASSUME TakeRequest \/ ServeRequest PROVE ChainOK'
  BY <1>2, ChainFrame DEF TakeRequest, ServeRequest, nodeVars, innerVars, syncVars
<1>3. CASE UNCHANGED vars
  BY <1>3, ChainFrame DEF vars, nodeVars, innerVars, syncVars
<1> QED BY <1>1, <1>2, <1>3, NodeStepChainOK, SnapshotChainOK, HandleSeqChainOK,
           HandleRespChainOK, ApplyChainOK DEF Next

\* Where the task's tip, the blocks that it still holds and the messages that are
\* still to come fit together at all times, whatever the node does.
THEOREM ChainInvariant == Spec => [](IInv /\ ChainOK)
<1>1. Init => IInv /\ ChainOK
  BY InitIInv, InitChainOK
<1>2. IInv /\ ChainOK /\ [Next]_vars => (IInv /\ ChainOK)'
  BY NextIInv, NextChainOK
<1> QED BY <1>1, <1>2, PTL DEF Spec

\* When everything has been read and answered, the task is at the node's tip,
\* for every chain, every enforcer and every order of messages and responses,
\* unless it holds on to a rejected unfiltered tip.
THEOREM TipFollowsHolds == Spec => []TipFollows
<1>1. ASSUME IInv, ChainOK PROVE TipFollows
  <2>1. SUFFICES ASSUME action_queue = << >>, zmq = << >>, unfiltered_tip \notin rejected_blocks
                 PROVE  tip = node_tip
    BY DEF TipFollows, Quiescent
  <2>2. tip \in Block /\ Tower(unfiltered_tip, tip, rejected_blocks)
    BY <1>1 DEF IInv, RejectedOK, ChainOK
  <2>3. action_queue \o zmq = << >>
    BY <2>1
  <2>4. CASE CatchingUp(<< >>, node_tip, tip, unfiltered_tip)
    <3>1. PICK p, q \in Seq(SafeActions) : << >> = p \o q /\ Path(q, StartTip, node_tip)
      BY <2>4 DEF CatchingUp
    <3>2. Len(p) + Len(q) = 0
      BY <3>1, ConcatProperties
    <3>3. q = << >>
      BY <3>2
    <3> QED BY <2>4, <3>1, <3>3, PathEmpty DEF CatchingUp
  <2>5. CASE OnPath(<< >>, node_tip, tip, unfiltered_tip, rejected_blocks)
    <3>1. Placed(node_tip, tip, unfiltered_tip, rejected_blocks)
      BY <2>5, PathEmpty DEF OnPath
    <3>2. unfiltered_tip = tip
      BY <2>1, <2>2, AncestorsClosed, AncestorsBelow DEF Tower
    <3> QED BY <2>1, <3>1, <3>2 DEF Placed
  <2> QED BY <1>1, <2>3, <2>4, <2>5 DEF ChainOK, LeadsOn
<1> QED BY <1>1, ChainInvariant, PTL

------------------------------------------------------------------------------
\* The request queue.

\* A linked hash set in order.
NoRepeats(s) == \A i, j \in DOMAIN s : s[i] = s[j] => i = j

\* Without goes through the queue once.
LEMMA WithoutSteps ==
  ASSUME NEW queue, NEW drop, Len(queue) \in Nat
  PROVE  \E left : /\ left[0] = << >>
                   /\ \A n \in 1 .. Len(queue) :
                        left[n] = IF queue[n] \in drop THEN left[n - 1]
                                  ELSE Append(left[n - 1], queue[n])
                   /\ Without(queue, drop) = left[Len(queue)]
<1> DEFINE Step(l, n) == IF n = 0 THEN << >>
                         ELSE IF queue[n] \in drop THEN l[n - 1]
                              ELSE Append(l[n - 1], queue[n])
           Is(l, n) == l = [k \in 0 .. n |-> Step(l, k)]
           T == {n \in Nat : \E l : Is(l, n)}
<1>1. 0 \in T
  <2> DEFINE l == [k \in 0 .. 0 |-> << >>]
  <2>1. l = [k \in 0 .. 0 |-> Step(l, k)]
    OBVIOUS
  <2> QED BY <2>1
<1>2. ASSUME NEW n \in T PROVE n + 1 \in T
  <2>1. PICK l : Is(l, n)
    OBVIOUS
  <2> DEFINE m == [k \in 0 .. n + 1 |-> IF k <= n THEN l[k] ELSE Step(l, n + 1)]
  <2>2. n \in Nat /\ \A k \in 0 .. n : l[k] = Step(l, k)
    BY <2>1
  <2>3. ASSUME NEW k \in 0 .. n + 1 PROVE m[k] = Step(m, k)
    <3>1. CASE k = 0
      BY <2>2, <3>1
    <3>2. CASE k # 0 /\ k <= n
      <4>1. m[k] = l[k] /\ k - 1 \in 0 .. n + 1 /\ k - 1 <= n /\ m[k - 1] = l[k - 1]
        BY <2>2, <3>2
      <4>2. l[k] = Step(l, k)
        BY <2>2, <3>2
      <4> QED BY <3>2, <4>1, <4>2
    <3>3. CASE k = n + 1
      <4>1. m[k] = Step(l, n + 1) /\ m[n] = l[n] /\ k # 0 /\ k - 1 = n
        BY <2>2, <3>3
      <4> QED BY <3>3, <4>1
    <3> QED BY <2>2, <3>1, <3>2, <3>3
  <2> HIDE DEF Step
  <2>4. m = [k \in 0 .. n + 1 |-> Step(m, k)]
    <3> DEFINE s == [k \in 0 .. n + 1 |-> Step(m, k)]
    <3>1. DOMAIN m = 0 .. n + 1 /\ \A k \in 0 .. n + 1 : m[k] = s[k]
      BY <2>3
    <3> HIDE DEF m
    <3>2. m = [k \in 0 .. n + 1 |-> m[k]]
      BY DEF m
    <3> QED BY <3>1, <3>2
  <2> HIDE DEF m
  <2>5. Is(m, n + 1)
    BY <2>4
  <2>6. n + 1 \in Nat
    BY <2>2
  <2> QED BY <2>5, <2>6
<1> HIDE DEF T
<1>3. Nat \subseteq T
  BY <1>1, <1>2, NatInduct DEF T
<1>4. \E l : Is(l, Len(queue))
  BY <1>3 DEF T
<1> DEFINE left == CHOOSE l : Is(l, Len(queue))
<1>5. Without(queue, drop) = left[Len(queue)]
  BY DEF Without
<1>6. left = [k \in 0 .. Len(queue) |-> Step(left, k)]
  BY <1>4
<1> HIDE DEF left
<1>7. \A k \in 0 .. Len(queue) : left[k] = Step(left, k)
  <2> HIDE DEF Step
  <2> DEFINE s == [k \in 0 .. Len(queue) |-> Step(left, k)]
  <2>1. \A k \in 0 .. Len(queue) : s[k] = Step(left, k)
    OBVIOUS
  <2>2. left = s
    BY <1>6
  <2> HIDE DEF s
  <2> QED BY <2>1, <2>2
<1> QED BY <1>5, <1>7

\* It takes out the members of drop and nothing else.
LEMMA WithoutIs ==
  ASSUME NEW M, NEW queue \in Seq(M), NEW drop
  PROVE  /\ Without(queue, drop) \in Seq(M)
         /\ ToSet(Without(queue, drop)) = ToSet(queue) \ drop
         /\ NoRepeats(queue) => NoRepeats(Without(queue, drop))
<1>1. PICK left :
        /\ left[0] = << >>
        /\ \A n \in 1 .. Len(queue) :
             left[n] = IF queue[n] \in drop THEN left[n - 1]
                       ELSE Append(left[n - 1], queue[n])
        /\ Without(queue, drop) = left[Len(queue)]
  BY WithoutSteps
<1> DEFINE Upto(n) == {queue[i] : i \in 1 .. n}
           Good(n) == /\ left[n] \in Seq(M)
                      /\ ToSet(left[n]) = Upto(n) \ drop
                      /\ NoRepeats(queue) => NoRepeats(left[n])
           T == {n \in Nat : n <= Len(queue) => Good(n)}
<1>2. 0 \in T
  <2>1. << >> \in Seq(M) /\ ToSet(<< >>) = {} /\ NoRepeats(<< >>)
    BY DEF ToSet, NoRepeats
  <2>2. Upto(0) = {}
    OBVIOUS
  <2> HIDE DEF Upto
  <2> QED BY <1>1, <2>1, <2>2
<1>3. ASSUME NEW n \in T PROVE n + 1 \in T
  <2>1. SUFFICES ASSUME n + 1 <= Len(queue) PROVE Good(n + 1)
    OBVIOUS
  <2>2. n \in Nat /\ n + 1 \in 1 .. Len(queue) /\ n + 1 - 1 = n /\ queue[n + 1] \in M /\ Good(n)
    BY <2>1
  <2>3. Upto(n + 1) = Upto(n) \cup {queue[n + 1]}
    BY <2>2
  <2> HIDE DEF Upto
  <2>6. left[n + 1] = IF queue[n + 1] \in drop THEN left[n] ELSE Append(left[n], queue[n + 1])
    <3> HIDE DEF Good
    <3> QED BY <1>1, <2>2
  <2>4. CASE queue[n + 1] \in drop
    <3>1. left[n + 1] = left[n]
      BY <2>4, <2>6
    <3> QED BY <2>2, <2>3, <2>4, <3>1
  <2>5. CASE queue[n + 1] \notin drop
    <3>1. left[n + 1] = Append(left[n], queue[n + 1])
      BY <2>5, <2>6
    <3>2. left[n + 1] \in Seq(M)
      BY <2>2, <3>1
    <3> DEFINE s == left[n]
    <3>3. /\ s \in Seq(M) /\ Len(s) \in Nat
          /\ DOMAIN left[n + 1] = 1 .. Len(s) + 1
          /\ \A i \in 1 .. Len(s) : left[n + 1][i] = s[i]
          /\ left[n + 1][Len(s) + 1] = queue[n + 1]
          /\ DOMAIN s = 1 .. Len(s)
      BY <2>2, <3>1
    <3> HIDE DEF s
    <3>4. ToSet(left[n + 1]) = ToSet(s) \cup {queue[n + 1]}
      <4>1. \A i \in DOMAIN left[n + 1] : i \in DOMAIN s \/ i = Len(s) + 1
        BY <3>3
      <4>2. \A i \in DOMAIN s : i \in DOMAIN left[n + 1] /\ left[n + 1][i] = s[i]
        BY <3>3
      <4>3. Len(s) + 1 \in DOMAIN left[n + 1]
        BY <3>3
      <4> QED BY <3>3, <4>1, <4>2, <4>3 DEF ToSet
    <3>5. ASSUME NoRepeats(queue) PROVE NoRepeats(left[n + 1])
      <4>1. NoRepeats(s)
        BY <2>2, <3>5 DEF s
      <4>2. queue[n + 1] \notin Upto(n)
        BY <2>2, <3>5 DEF NoRepeats, Upto
      <4>3. queue[n + 1] \notin ToSet(s)
        BY <2>2, <4>2 DEF s
      <4>4. \A i \in 1 .. Len(s) : s[i] # queue[n + 1]
        BY <3>3, <4>3 DEF ToSet
      <4> QED BY <3>3, <4>1, <4>4 DEF NoRepeats
    <3>6. ToSet(left[n + 1]) = Upto(n + 1) \ drop
      BY <2>2, <2>3, <2>5, <3>4 DEF s
    <3> QED BY <3>2, <3>5, <3>6
  <2> QED BY <2>4, <2>5
<1> HIDE DEF T, Good
<1>4. Nat \subseteq T
  BY <1>2, <1>3, NatInduct DEF T
<1>5. Good(Len(queue))
  BY <1>4 DEF T
<1> USE DEF Good
<1>6. Upto(Len(queue)) = ToSet(queue)
  BY DEF ToSet
<1> QED BY <1>1, <1>5, <1>6

\* push_back adds an item.
LEMMA PushBackIs ==
  ASSUME NEW M, NEW queue \in Seq(M), NEW r \in M
  PROVE  /\ PushBack(queue, r) \in Seq(M)
         /\ ToSet(PushBack(queue, r)) = ToSet(queue) \cup {r}
         /\ NoRepeats(queue) => NoRepeats(PushBack(queue, r))
<1>1. Contains(queue, r) <=> r \in ToSet(queue)
  BY DEF Contains, ToSet
<1>2. CASE Contains(queue, r)
  BY <1>1, <1>2 DEF PushBack
<1>3. CASE ~Contains(queue, r)
  <2>1. PushBack(queue, r) = Append(queue, r)
    BY <1>3 DEF PushBack
  <2>2. /\ Append(queue, r) \in Seq(M) /\ DOMAIN Append(queue, r) = 1 .. Len(queue) + 1
        /\ Len(queue) \in Nat /\ DOMAIN queue = 1 .. Len(queue)
        /\ \A i \in 1 .. Len(queue) : Append(queue, r)[i] = queue[i]
        /\ Append(queue, r)[Len(queue) + 1] = r
    OBVIOUS
  <2> DEFINE s == Append(queue, r)
  <2> HIDE DEF s
  <2>3. ToSet(s) = ToSet(queue) \cup {r}
    BY <2>2 DEF ToSet, s
  <2>4. NoRepeats(queue) => NoRepeats(s)
    BY <1>1, <1>3, <2>2 DEF ToSet, NoRepeats, s
  <2> QED BY <2>1, <2>2, <2>3, <2>4 DEF s
<1> QED BY <1>2, <1>3

\* Two queues in a row.
LEMMA ConcatIs ==
  ASSUME NEW M, NEW front \in Seq(M), NEW rest \in Seq(M)
  PROVE  /\ front \o rest \in Seq(M)
         /\ ToSet(front \o rest) = ToSet(front) \cup ToSet(rest)
         /\ NoRepeats(front) /\ NoRepeats(rest) /\ ToSet(front) \cap ToSet(rest) = {}
              => NoRepeats(front \o rest)
<1> DEFINE s == front \o rest
<1>1. /\ Len(front) \in Nat /\ Len(rest) \in Nat
      /\ DOMAIN front = 1 .. Len(front) /\ DOMAIN rest = 1 .. Len(rest)
      /\ s \in Seq(M) /\ DOMAIN s = 1 .. Len(front) + Len(rest)
      /\ \A i \in 1 .. Len(front) : s[i] = front[i]
      /\ \A i \in Len(front) + 1 .. Len(front) + Len(rest) :
           i - Len(front) \in 1 .. Len(rest) /\ s[i] = rest[i - Len(front)]
      /\ \A i \in 1 .. Len(rest) : i + Len(front) \in DOMAIN s /\ s[i + Len(front)] = rest[i]
  OBVIOUS
<1> HIDE DEF s
<1>2. ASSUME NEW i \in DOMAIN s
      PROVE  IF i <= Len(front) THEN i \in DOMAIN front /\ s[i] = front[i] /\ s[i] \in ToSet(front)
             ELSE /\ i - Len(front) \in DOMAIN rest /\ s[i] = rest[i - Len(front)]
                  /\ s[i] \in ToSet(rest)
  <2>1. CASE i <= Len(front)
    BY <1>1, <2>1 DEF ToSet
  <2>2. CASE ~(i <= Len(front))
    <3>1. i - Len(front) \in DOMAIN rest /\ s[i] = rest[i - Len(front)]
      BY <1>1, <2>2
    <3> QED BY <2>2, <3>1 DEF ToSet
  <2> QED BY <2>1, <2>2
<1>3. ToSet(s) = ToSet(front) \cup ToSet(rest)
  <2>1. \A i \in DOMAIN front : front[i] \in ToSet(s)
    BY <1>1 DEF ToSet
  <2>2. \A i \in DOMAIN rest : rest[i] \in ToSet(s)
    BY <1>1 DEF ToSet
  <2> QED BY <1>2, <2>1, <2>2 DEF ToSet
<1>4. ASSUME NoRepeats(front), NoRepeats(rest), ToSet(front) \cap ToSet(rest) = {},
             NEW i \in DOMAIN s, NEW j \in DOMAIN s, s[i] = s[j]
      PROVE  i = j
  <2>1. i <= Len(front) <=> j <= Len(front)
    BY <1>2, <1>4
  <2>2. CASE i <= Len(front)
    <3>1. i \in DOMAIN front /\ j \in DOMAIN front /\ front[i] = front[j]
      BY <1>2, <1>4, <2>1, <2>2
    <3> QED BY <1>4, <3>1 DEF NoRepeats
  <2>3. CASE ~(i <= Len(front))
    <3>1. /\ i - Len(front) \in DOMAIN rest /\ j - Len(front) \in DOMAIN rest
          /\ rest[i - Len(front)] = rest[j - Len(front)]
      BY <1>2, <1>4, <2>1, <2>3
    <3>2. i - Len(front) = j - Len(front)
      BY <1>4, <3>1 DEF NoRepeats
    <3> QED BY <1>1, <3>2
  <2> QED BY <2>2, <2>3
<1> QED BY <1>1, <1>3, <1>4 DEF NoRepeats, s

\* push_front adds items, and moves those that are there already.
LEMMA PushAllFrontIs ==
  ASSUME NEW M, NEW queue \in Seq(M), NEW rs \in Seq(M)
  PROVE  /\ PushAllFront(queue, rs) \in Seq(M)
         /\ ToSet(PushAllFront(queue, rs)) = ToSet(queue) \cup ToSet(rs)
         /\ NoRepeats(queue) /\ NoRepeats(rs) => NoRepeats(PushAllFront(queue, rs))
<1> DEFINE rest == Without(queue, ToSet(rs))
<1>1. /\ rest \in Seq(M) /\ ToSet(rest) = ToSet(queue) \ ToSet(rs)
      /\ NoRepeats(queue) => NoRepeats(rest)
  BY WithoutIs
<1>2. PushAllFront(queue, rs) = rs \o rest
  BY DEF PushAllFront
<1> HIDE DEF rest
<1>3. /\ rs \o rest \in Seq(M) /\ ToSet(rs \o rest) = ToSet(rs) \cup ToSet(rest)
      /\ NoRepeats(queue) /\ NoRepeats(rs) => NoRepeats(rs \o rest)
  BY <1>1, ConcatIs
<1> QED BY <1>1, <1>2, <1>3

LEMMA PushFrontIs ==
  ASSUME NEW M, NEW queue \in Seq(M), NEW r \in M
  PROVE  /\ PushFront(queue, r) \in Seq(M)
         /\ ToSet(PushFront(queue, r)) = ToSet(queue) \cup {r}
         /\ NoRepeats(queue) => NoRepeats(PushFront(queue, r))
<1>1. ToSet(<<r>>) = {r} /\ <<r>> \in Seq(M) /\ NoRepeats(<<r>>)
  BY DEF ToSet, NoRepeats
<1>2. PushFront(queue, r) = PushAllFront(queue, <<r>>)
  BY <1>1 DEF PushFront, PushAllFront
<1> DEFINE rs == <<r>>
<1> HIDE DEF rs
<1>3. ToSet(rs) = {r} /\ rs \in Seq(M) /\ NoRepeats(rs) /\ PushFront(queue, r) = PushAllFront(queue, rs)
  BY <1>1, <1>2 DEF rs
<1> QED BY <1>3, PushAllFrontIs

\* Items from the front of the queue that can go into one batch.
Batches ==
  {q \in Seq(Requests) : /\ q # << >>
                         /\ \A i \in DOMAIN q : q[i].req = q[1].req
                         /\ q[1].req \in {"Block", "RejectBlock"} => Len(q) = 1}

\* A batch can always be taken, and takes a piece off the front.
LEMMA BatchIs ==
  ASSUME NEW queue \in Seq(Requests), queue # << >>
  PROVE  /\ Batch(queue) \in Batches
         /\ AfterBatch(queue) \in Seq(Requests)
         /\ ToSet(queue) = ToSet(Batch(queue)) \cup ToSet(AfterBatch(queue))
         /\ NoRepeats(queue) => NoRepeats(AfterBatch(queue))
<1> DEFINE kind == Head(queue).req
           SameKind(n) == \A i \in 1 .. n : queue[i].req = kind
           limit == IF kind = "RejectTx" THEN Len(queue)
                    ELSE IF kind = "Tx" THEN MaxBatch ELSE 1
           Fits(n) == /\ n <= limit /\ SameKind(n)
                      /\ n + 1 <= Len(queue) /\ n + 1 <= limit => ~SameKind(n + 1)
           k == BatchLen(queue)
<1>1. k = CHOOSE n \in 1 .. Len(queue) : Fits(n)
  BY DEF BatchLen
<1>2. Len(queue) \in Nat /\ Len(queue) >= 1 /\ Head(queue) = queue[1] /\ limit \in Nat /\ limit >= 1
  BY MaxBatchAssumption
<1>3. \E n \in 1 .. Len(queue) : Fits(n)
  <2>1. SUFFICES ASSUME \A n \in 1 .. Len(queue) : ~Fits(n) PROVE FALSE
    OBVIOUS
  <2> HIDE DEF limit
  <2> DEFINE T == {n \in Nat : n + 1 <= Len(queue) /\ n + 1 <= limit /\ SameKind(n + 1)}
  <2>2. 0 \in T
    BY <1>2
  <2>3. ASSUME NEW n \in T PROVE n + 1 \in T
    BY <1>2, <2>1
  <2> HIDE DEF T
  <2>4. Nat \subseteq T
    BY <2>2, <2>3, NatInduct DEF T
  <2>5. Len(queue) \in T
    BY <1>2, <2>4
  <2> QED BY <1>2, <2>5 DEF T
<1>4. k \in 1 .. Len(queue) /\ Fits(k)
  BY <1>1, <1>3
<1> HIDE DEF k
<1>5. /\ Batch(queue) = SubSeq(queue, 1, k)
      /\ AfterBatch(queue) = SubSeq(queue, k + 1, Len(queue))
  BY DEF Batch, AfterBatch, k
<1>6. /\ Batch(queue) \in Seq(Requests) /\ Len(Batch(queue)) = k
      /\ DOMAIN Batch(queue) = 1 .. k
      /\ \A i \in 1 .. k : Batch(queue)[i] = queue[i]
  BY <1>2, <1>4, <1>5
<1>7. /\ AfterBatch(queue) \in Seq(Requests)
      /\ DOMAIN AfterBatch(queue) = 1 .. Len(queue) - k
      /\ \A i \in 1 .. Len(queue) - k : AfterBatch(queue)[i] = queue[k + i]
  BY <1>2, <1>4, <1>5
<1>8. Batch(queue) \in Batches
  <2>1. \A i \in 1 .. k : Batch(queue)[i].req = kind
    BY <1>4, <1>6
  <2>2. kind \in {"Block", "RejectBlock"} => k = 1
    BY <1>2, <1>4
  <2>3. Batch(queue) # << >> /\ Batch(queue)[1].req = kind
    BY <1>4, <1>6, <2>1
  <2> HIDE DEF kind
  <2> QED BY <1>6, <2>1, <2>2, <2>3 DEF Batches
<1>9. ToSet(queue) = ToSet(Batch(queue)) \cup ToSet(AfterBatch(queue))
  <2>1. \A i \in DOMAIN queue : IF i <= k THEN i \in DOMAIN Batch(queue)
                                ELSE i - k \in DOMAIN AfterBatch(queue) /\ k + (i - k) = i
    BY <1>2, <1>4, <1>6, <1>7
  <2>2. ToSet(queue) \subseteq ToSet(Batch(queue)) \cup ToSet(AfterBatch(queue))
    <3> SUFFICES ASSUME NEW i \in DOMAIN queue
                 PROVE  queue[i] \in ToSet(Batch(queue)) \cup ToSet(AfterBatch(queue))
      BY DEF ToSet
    <3>1. CASE i <= k
      BY <1>6, <2>1, <3>1 DEF ToSet
    <3>2. CASE ~(i <= k)
      <4>1. i - k \in DOMAIN AfterBatch(queue) /\ AfterBatch(queue)[i - k] = queue[i]
        BY <1>7, <2>1, <3>2
      <4> QED BY <4>1 DEF ToSet
    <3> QED BY <3>1, <3>2
  <2>3. ToSet(Batch(queue)) \subseteq ToSet(queue)
    BY <1>2, <1>4, <1>6 DEF ToSet
  <2>4. ToSet(AfterBatch(queue)) \subseteq ToSet(queue)
    BY <1>2, <1>4, <1>7 DEF ToSet
  <2> QED BY <2>2, <2>3, <2>4
<1>10. ASSUME NoRepeats(queue) PROVE NoRepeats(AfterBatch(queue))
  <2>1. \A i \in DOMAIN AfterBatch(queue) :
          i \in Int /\ k + i \in DOMAIN queue /\ AfterBatch(queue)[i] = queue[k + i]
    BY <1>2, <1>4, <1>7
  <2>2. \A i, j \in DOMAIN AfterBatch(queue) :
          AfterBatch(queue)[i] = AfterBatch(queue)[j] => k + i = k + j
    BY <1>10, <2>1 DEF NoRepeats
  <2> QED BY <1>4, <2>1, <2>2 DEF NoRepeats
<1> QED BY <1>7, <1>8, <1>9, <1>10

------------------------------------------------------------------------------
\* What is asked for.  Together with IInv and ChainOK this is inductive.

\* The request queue is a linked hash set of requests.  The batch that is with
\* the node, or has come back, is of one kind.
RequestsOK ==
  /\ request_queue \in Seq(Requests)
  /\ NoRepeats(request_queue)
  /\ \/ rpc = IdleRpc
     \/ /\ rpc.state \in {"sent", "done"}
        /\ rpc.batch \in Batches
        /\ rpc.state = "done" => rpc.unavailable \subseteq Tx /\ rpc.active \in BOOLEAN

\* The rest of what the task keeps is about txs and blocks of the graph.
TypesOK ==
  /\ tip_watch \in Block
  /\ DOMAIN blocks \subseteq Block
  /\ \A b \in DOMAIN blocks : blocks[b] \in BOOLEAN
  /\ mempool \subseteq Tx /\ unfiltered_txs \subseteq Tx
  /\ blocks_needed \subseteq Block
  /\ first_mempool_sequence \in Nat
  /\ rejected_txs \subseteq Tx /\ tx_cache \subseteq Tx
  /\ txs_needed \subseteq Tx /\ unavailable_txs \subseteq Tx
  /\ known_fees \subseteq Tx /\ mempool_txids \subseteq Tx
  /\ phase \in Phases /\ synced \in BOOLEAN

\* What is needed has been asked for and is not answered yet, also while the
\* lock is held.
AskedOK ==
  /\ \A b \in blocks_needed : BlockReq(b) \in Outstanding
  /\ \A t \in txs_needed : FetchOutstanding(t)
  /\ phase \in {"snapshot", "fees"} => BlockReq(StartTip) \in Outstanding
  /\ phase = "snapshot" => request_queue = <<BlockReq(StartTip)>>

\* The block of a queued event is there or needed.
QueueBlocksOK ==
  \A a \in ToSet(action_queue) :
    a.event \in {"Connected", "Disconnected"}
      => a.block \in DOMAIN blocks \cup blocks_needed

SInv == RequestsOK /\ TypesOK /\ AskedOK /\ QueueBlocksOK

\* What most steps leave alone.
LEMMA SFrame ==
  /\ RequestsOK /\ UNCHANGED <<request_queue, rpc>> => RequestsOK'
  /\ TypesOK /\ phase' \in Phases
       /\ UNCHANGED <<tip_watch, blocks, mempool, unfiltered_txs, blocks_needed,
                      first_mempool_sequence, rejected_txs, tx_cache, txs_needed,
                      unavailable_txs, known_fees, mempool_txids, synced>> => TypesOK'
  /\ AskedOK /\ UNCHANGED <<blocks_needed, txs_needed, request_queue, rpc>>
       /\ phase' \in {phase} \cup (Phases \ {"snapshot", "fees"}) => AskedOK'
  /\ QueueBlocksOK /\ UNCHANGED <<action_queue, blocks, blocks_needed>> => QueueBlocksOK'
BY DEF RequestsOK, TypesOK, AskedOK, QueueBlocksOK, Outstanding, FetchOutstanding

\* A step that changes what is needed and what is queued: fetches of txs in S
\* may be cancelled, if these are not needed any more.
LEMMA AskedStep ==
  ASSUME AskedOK, rpc' = rpc, phase' \notin {"snapshot", "fees"}, NEW S,
         ToSet(request_queue) \ {TxReq(t, TRUE) : t \in S} \subseteq ToSet(request_queue'),
         \A b \in blocks_needed' : b \in blocks_needed \/ BlockReq(b) \in ToSet(request_queue'),
         \A t \in txs_needed' : \/ t \in txs_needed \ S
                                \/ \E m \in BOOLEAN : TxReq(t, m) \in ToSet(request_queue')
  PROVE  AskedOK'
<1>1. ASSUME NEW r \in Outstanding, r \notin {TxReq(t, TRUE) : t \in S}
      PROVE  r \in Outstanding'
  BY <1>1 DEF Outstanding
<1>2. \A b : BlockReq(b) \notin {TxReq(t, TRUE) : t \in S}
  BY DEF BlockReq, TxReq
<1>3. \A t : t \notin S => \A m : TxReq(t, m) \notin {TxReq(x, TRUE) : x \in S}
  BY DEF TxReq
<1>4. ToSet(request_queue') \subseteq Outstanding'
  BY DEF Outstanding
<1>5. \A b \in blocks_needed' : BlockReq(b) \in Outstanding'
  BY <1>1, <1>2, <1>4 DEF AskedOK
<1>6. \A t \in txs_needed' : \E m \in BOOLEAN : TxReq(t, m) \in Outstanding'
  BY <1>1, <1>3, <1>4 DEF AskedOK, FetchOutstanding
<1> QED BY <1>5, <1>6 DEF AskedOK, FetchOutstanding

\* Requests for txs, each once.
LEMMA TxRequests ==
  ASSUME NEW o \in Seq(Tx), NoRepeats(o), NEW m \in BOOLEAN
  PROVE  /\ [i \in DOMAIN o |-> TxReq(o[i], m)] \in Seq(Requests)
         /\ NoRepeats([i \in DOMAIN o |-> TxReq(o[i], m)])
         /\ ToSet([i \in DOMAIN o |-> TxReq(o[i], m)]) = {TxReq(t, m) : t \in ToSet(o)}
         /\ [i \in DOMAIN o |-> RejectTxReq(o[i])] \in Seq(Requests)
         /\ NoRepeats([i \in DOMAIN o |-> RejectTxReq(o[i])])
<1>1. DOMAIN o = 1 .. Len(o) /\ Len(o) \in Nat /\ \A i \in DOMAIN o : o[i] \in Tx
  OBVIOUS
<1>2. \A t \in Tx : TxReq(t, m) \in Requests /\ RejectTxReq(t) \in Requests
  BY DEF Requests, TxReq, RejectTxReq
<1>3. /\ \A x, y : TxReq(x, m) = TxReq(y, m) => x = y
      /\ \A x, y : RejectTxReq(x) = RejectTxReq(y) => x = y
  BY DEF TxReq, RejectTxReq
<1>4. /\ [i \in DOMAIN o |-> TxReq(o[i], m)] \in Seq(Requests)
      /\ [i \in DOMAIN o |-> RejectTxReq(o[i])] \in Seq(Requests)
  BY <1>1, <1>2
<1>5. /\ NoRepeats([i \in DOMAIN o |-> TxReq(o[i], m)])
      /\ NoRepeats([i \in DOMAIN o |-> RejectTxReq(o[i])])
  BY <1>3 DEF NoRepeats
<1>6. ToSet([i \in DOMAIN o |-> TxReq(o[i], m)]) = {TxReq(t, m) : t \in ToSet(o)}
  BY DEF ToSet
<1> QED BY <1>4, <1>5, <1>6

\* An order of a set of txs is a sequence of them, and names each once.
LEMMA OrdersOfTxs ==
  ASSUME NEW S \in SUBSET Tx, NEW o \in SetToSeqs(S)
  PROVE  o \in Seq(Tx) /\ NoRepeats(o) /\ ToSet(o) = S
<1>1. o \in Seq(S)
  BY OrdersAreSequences
<1>2. o \in Seq(Tx)
  BY <1>1
<1> QED BY <1>2, OrdersHoldAll DEF NoRepeats

\* The requests in Requests.
LEMMA RequestKinds ==
  /\ \A b \in Block : BlockReq(b) \in Requests /\ RejectBlockReq(b) \in Requests
  /\ \A t \in Tx : RejectTxReq(t) \in Requests
  /\ \A t \in Tx : \A m \in BOOLEAN : TxReq(t, m) \in Requests
BY DEF Requests, BlockReq, RejectBlockReq, RejectTxReq, TxReq

\* At first the block of StartTip is needed, and asked for.
LEMMA InitSInv ==
  ASSUME Init PROVE SInv
<1>1. /\ request_queue = <<BlockReq(StartTip)>> /\ rpc = IdleRpc /\ action_queue = << >>
      /\ blocks_needed = {StartTip} /\ txs_needed = {} /\ StartTip \in Block
  BY StartAssumption DEF Init
<1>2. <<BlockReq(StartTip)>> \in Seq(Requests) /\ NoRepeats(<<BlockReq(StartTip)>>)
  BY <1>1, RequestKinds DEF NoRepeats
<1>3. BlockReq(StartTip) \in Outstanding
  BY <1>1 DEF Outstanding, ToSet
<1>4. RequestsOK /\ AskedOK /\ QueueBlocksOK
  BY <1>1, <1>2, <1>3 DEF RequestsOK, AskedOK, QueueBlocksOK, ToSet
<1>5. TypesOK
  BY StartAssumption DEF Init, TypesOK, Phases
<1> QED BY <1>4, <1>5 DEF SInv

\* An error changes nothing but the phase.
LEMMA StopSInv ==
  ASSUME SInv, NEW error \in Errors, Stop(error) PROVE SInv'
BY SFrame DEF Stop, SInv, innerVars, syncVars, snapshotVars, Phases, Errors

\* The txs of the snapshot that are not in the cache are asked for.
LEMMA TakeSnapshotSInv ==
  ASSUME IInv, SInv, NEW order \in SetToSeqs(node_txs), NEW seeded \in SUBSET node_txs,
         TakeSnapshot(order, seeded)
  PROVE  SInv'
<1> DEFINE fetch == Without(order, seeded)
           reqs == [i \in DOMAIN fetch |-> TxReq(fetch[i], TRUE)]
           first == <<BlockReq(StartTip)>>
<1>1. /\ phase = "snapshot" /\ phase' = "fees" /\ request_queue' = request_queue \o reqs
      /\ mempool_txids' = node_txs /\ tx_cache' = seeded /\ txs_needed' = node_txs \ seeded
      /\ action_queue' = [i \in DOMAIN order |-> InsertTx(order[i])]
      /\ first_mempool_sequence' = ReportedSeq + 1
      /\ UNCHANGED <<tip_watch, blocks, mempool, unfiltered_txs, blocks_needed, rejected_txs,
                     unavailable_txs, known_fees, synced, rpc>>
  BY DEF TakeSnapshot, innerVars
<1>2. request_queue = first
  BY <1>1 DEF SInv, AskedOK
<1>3. order \in Seq(Tx) /\ NoRepeats(order) /\ ToSet(order) = node_txs
  BY OrdersOfTxs DEF IInv, NodeOK
<1>4. fetch \in Seq(Tx) /\ NoRepeats(fetch) /\ ToSet(fetch) = node_txs \ seeded
  BY <1>3, WithoutIs
<1> HIDE DEF fetch
<1>5. /\ reqs \in Seq(Requests) /\ NoRepeats(reqs)
      /\ ToSet(reqs) = {TxReq(t, TRUE) : t \in node_txs \ seeded}
  BY <1>4, TxRequests
<1>6. first \in Seq(Requests) /\ NoRepeats(first) /\ ToSet(first) = {BlockReq(StartTip)}
  BY RequestKinds, StartAssumption DEF NoRepeats, ToSet
<1>7. ToSet(first) \cap ToSet(reqs) = {}
  BY <1>5, <1>6 DEF BlockReq, TxReq
<1> HIDE DEF reqs, first
<1>8. /\ request_queue' \in Seq(Requests) /\ NoRepeats(request_queue')
      /\ ToSet(request_queue') = {BlockReq(StartTip)} \cup {TxReq(t, TRUE) : t \in node_txs \ seeded}
  <2>1. /\ first \o reqs \in Seq(Requests)
        /\ ToSet(first \o reqs) = ToSet(first) \cup ToSet(reqs)
        /\ NoRepeats(first \o reqs)
    <3>1. /\ first \in Seq(Requests) /\ reqs \in Seq(Requests)
          /\ NoRepeats(first) /\ NoRepeats(reqs) /\ ToSet(first) \cap ToSet(reqs) = {}
      BY <1>5, <1>6, <1>7
    <3> QED BY ONLY <3>1, ConcatIs
  <2>2. request_queue' = first \o reqs
    BY <1>1, <1>2
  <2> QED BY <1>5, <1>6, <2>1, <2>2
<1>9. RequestsOK'
  BY <1>1, <1>8 DEF SInv, RequestsOK
<1>10. ReportedSeq + 1 \in Nat
  BY DEF ReportedSeq, IInv, NodeOK
<1>11. TypesOK'
  BY <1>1, <1>10 DEF SInv, TypesOK, IInv, NodeOK, Phases
<1>12. AskedOK'
  <2>1. ToSet(request_queue) \subseteq ToSet(request_queue')
    BY <1>2, <1>6, <1>8
  <2>2. Outstanding \subseteq Outstanding' /\ ToSet(request_queue') \subseteq Outstanding'
    BY <1>1, <2>1 DEF Outstanding
  <2>3. \A t \in txs_needed' : TxReq(t, TRUE) \in Outstanding'
    BY <1>1, <1>8, <2>2
  <2>4. \A t \in txs_needed' : FetchOutstanding(t)'
    BY <2>3 DEF FetchOutstanding
  <2>5. BlockReq(StartTip) \in Outstanding'
    BY <1>8, <2>2
  <2> QED BY <1>1, <2>2, <2>4, <2>5 DEF SInv, AskedOK
<1>13. QueueBlocksOK'
  BY <1>1 DEF QueueBlocksOK, InsertTx, ToSet
<1> QED BY <1>9, <1>11, <1>12, <1>13 DEF SInv

\* The verbose reply.
LEMMA TakeFeesSInv ==
  ASSUME IInv, SInv, TakeFees PROVE SInv'
<1>1. TypesOK'
  BY DEF TakeFees, innerVars, syncVars, SInv, TypesOK, IInv, NodeOK, Phases
<1> QED BY <1>1, SFrame DEF TakeFees, SInv, innerVars, syncVars, Phases

\* Requests pushed to the front.  Whatever is needed afterwards was needed
\* before or is among them.
LEMMA PushedStep ==
  ASSUME SInv, rpc' = rpc, phase' \in {"wait", "apply"},
         NEW rs \in Seq(Requests), NoRepeats(rs),
         request_queue' = PushAllFront(request_queue, rs),
         \A b \in blocks_needed' : b \in blocks_needed \/ BlockReq(b) \in ToSet(rs),
         \A t \in txs_needed' : t \in txs_needed \/ \E m \in BOOLEAN : TxReq(t, m) \in ToSet(rs)
  PROVE  RequestsOK' /\ AskedOK'
<1>1. /\ request_queue' \in Seq(Requests) /\ NoRepeats(request_queue')
      /\ ToSet(request_queue') = ToSet(request_queue) \cup ToSet(rs)
  BY PushAllFrontIs DEF SInv, RequestsOK
<1>2. RequestsOK'
  BY <1>1 DEF SInv, RequestsOK
<1>3. ToSet(request_queue) \ {TxReq(t, TRUE) : t \in {}} \subseteq ToSet(request_queue')
  BY <1>1
<1>4. \A b \in blocks_needed' : b \in blocks_needed \/ BlockReq(b) \in ToSet(request_queue')
  BY <1>1
<1>5. \A t \in txs_needed' : \/ t \in txs_needed \ {}
                             \/ \E m \in BOOLEAN : TxReq(t, m) \in ToSet(request_queue')
  BY <1>1
<1>6. phase' \notin {"snapshot", "fees"} /\ AskedOK
  BY DEF SInv
<1> HIDE DEF SInv
<1>7. AskedOK'
  BY <1>3, <1>4, <1>5, <1>6, AskedStep
<1> QED BY <1>2, <1>7

\* A single request.
LEMMA PushedOneStep ==
  ASSUME SInv, rpc' = rpc, phase' \in {"wait", "apply"}, NEW r \in Requests,
         \/ request_queue' = PushFront(request_queue, r)
         \/ request_queue' = PushBack(request_queue, r),
         \A b \in blocks_needed' : b \in blocks_needed \/ r = BlockReq(b),
         \A t \in txs_needed' : t \in txs_needed \/ \E m \in BOOLEAN : r = TxReq(t, m)
  PROVE  RequestsOK' /\ AskedOK' /\ r \in Outstanding'
<1>1. /\ request_queue' \in Seq(Requests) /\ NoRepeats(request_queue')
      /\ ToSet(request_queue') = ToSet(request_queue) \cup {r}
  BY PushFrontIs, PushBackIs DEF SInv, RequestsOK
<1>2. RequestsOK' /\ r \in Outstanding'
  BY <1>1 DEF SInv, RequestsOK, Outstanding
<1>3. ToSet(request_queue) \ {TxReq(t, TRUE) : t \in {}} \subseteq ToSet(request_queue')
  BY <1>1
<1>4. \A b \in blocks_needed' : b \in blocks_needed \/ BlockReq(b) \in ToSet(request_queue')
  BY <1>1
<1>5. \A t \in txs_needed' : \/ t \in txs_needed \ {}
                             \/ \E m \in BOOLEAN : TxReq(t, m) \in ToSet(request_queue')
  BY <1>1
<1>6. phase' \notin {"snapshot", "fees"} /\ AskedOK
  BY DEF SInv
<1>7. AskedOK'
  BY <1>3, <1>4, <1>5, <1>6, AskedStep
<1> QED BY <1>2, <1>7

\* Messages, and txs that the abandoned pool gives back, in the queue.
LEMMA EnqueueBlocks ==
  ASSUME IInv, QueueBlocksOK, DOMAIN blocks \cup blocks_needed \subseteq DOMAIN blocks' \cup blocks_needed',
         NEW restored \in Seq(Tx), NEW msg \in SafeActions,
         msg.event \in {"Connected", "Disconnected"}
           => msg.block \in DOMAIN blocks' \cup blocks_needed',
         \/ Enqueue(restored, msg)
         \/ action_queue' = [i \in DOMAIN restored |-> InsertTx(restored[i])] \o action_queue
  PROVE  QueueBlocksOK'
<1> DEFINE front == [i \in DOMAIN restored |-> InsertTx(restored[i])]
           back == Append(action_queue, msg)
<1>1. front \in Seq(SafeActions) /\ \A a \in ToSet(front) : a.event = "InsertTx"
  BY DEF InsertTx, SafeActions, ToSet
<1>2. action_queue \in Seq(SafeActions)
  BY DEF IInv, QueueOK
<1>3. back \in Seq(SafeActions) /\ ToSet(back) = ToSet(action_queue) \cup {msg}
  <2>1. /\ back \in Seq(SafeActions) /\ Len(action_queue) \in Nat
        /\ DOMAIN back = DOMAIN action_queue \cup {Len(action_queue) + 1}
        /\ \A i \in DOMAIN action_queue : back[i] = action_queue[i]
        /\ back[Len(action_queue) + 1] = msg
    BY <1>2
  <2> QED BY <2>1 DEF ToSet
<1>4. action_queue' = front \o back \/ action_queue' = front \o action_queue
  BY DEF Enqueue
<1> HIDE DEF front, back
<1>5. /\ ToSet(front \o back) = ToSet(front) \cup ToSet(back)
      /\ ToSet(front \o action_queue) = ToSet(front) \cup ToSet(action_queue)
  BY <1>1, <1>2, <1>3, ConcatIs
<1>6. \A a \in ToSet(action_queue') : a.event = "InsertTx" \/ a \in ToSet(action_queue) \/ a = msg
  BY <1>1, <1>3, <1>4, <1>5
<1> QED BY <1>6 DEF QueueBlocksOK

\* A message is read: what it names is asked for, or a fetch that it makes
\* pointless is cancelled, and the tx is no longer needed.
LEMMA HandleSeqSInv ==
  ASSUME IInv, SInv, HandleSeq PROVE SInv'
<1> DEFINE msg == Head(zmq)
<1>1. /\ msg \in NodeMsgs /\ msg \in SafeActions
      /\ phase' = "apply" /\ rpc' = rpc
      /\ UNCHANGED <<tip_watch, blocks, mempool, unfiltered_txs, rejected_txs,
                     known_fees, mempool_txids, synced>>
  BY HeadTailProperties DEF HandleSeq, IInv, NodeOK, SafeActions, snapshotVars
<1>2. << >> \in SetToSeqs({}) /\ << >> \in Seq(Tx)
  BY FS_EmptySet DEF SetToSeqs
<1>3. CASE /\ msg.event \in {"Connected", "Disconnected"}
           /\ HandleBlockHashMsg(msg.block) /\ Enqueue(<< >>, msg)
  <2>1. msg.block \in Block
    BY <1>1, <1>3, OnlyBlocksConnect
  <2>2. UNCHANGED <<first_mempool_sequence, tx_cache, txs_needed, unavailable_txs>>
    BY <1>3 DEF HandleBlockHashMsg
  <2>3. CASE msg.block \in DOMAIN blocks /\ UNCHANGED <<blocks_needed, request_queue>>
    <3>1. RequestsOK' /\ TypesOK' /\ AskedOK'
      BY <1>1, <2>2, <2>3, SFrame DEF SInv, Phases
    <3>2. QueueBlocksOK'
      BY <1>1, <1>2, <1>3, <2>3, EnqueueBlocks DEF SInv
    <3> QED BY <3>1, <3>2 DEF SInv
  <2>4. CASE /\ blocks_needed' = blocks_needed \cup {msg.block}
             /\ request_queue' = PushBack(request_queue, BlockReq(msg.block))
    <3> DEFINE r == BlockReq(msg.block)
    <3>1. r \in Requests
      BY <2>1, RequestKinds
    <3>2. \A b \in blocks_needed' : b \in blocks_needed \/ r = BlockReq(b)
      BY <2>4
    <3>3. request_queue' = PushBack(request_queue, r)
      BY <2>4
    <3> HIDE DEF r
    <3>4. RequestsOK' /\ AskedOK'
      BY <1>1, <2>2, <3>1, <3>2, <3>3, PushedOneStep
    <3>5. TypesOK'
      BY <1>1, <2>1, <2>2, <2>4 DEF SInv, TypesOK, Phases
    <3>6. QueueBlocksOK'
      BY <1>1, <1>2, <1>3, <2>4, EnqueueBlocks DEF SInv
    <3> QED BY <3>4, <3>5, <3>6 DEF SInv
  <2> QED BY <1>3, <2>3, <2>4 DEF HandleBlockHashMsg
<1>4. CASE msg.event \in {"Added", "Removed"} /\ HandleTxHashMsg(msg)
  <2>1. msg.tx \in Tx
    BY <1>1, <1>4, OnlyBlocksConnect
  <2>2. first_mempool_sequence' \in {first_mempool_sequence, 0} /\ blocks_needed' = blocks_needed
    BY <1>4 DEF HandleTxHashMsg, HandleAdded, HandleRemoved
  <2>3. \A restored \in Seq(Tx) : Enqueue(restored, msg) => QueueBlocksOK'
    BY <1>1, <1>4, <2>2, EnqueueBlocks DEF SInv
  <2>4. CASE Enqueue(<< >>, msg) /\ UNCHANGED <<request_queue, tx_cache, txs_needed, unavailable_txs>>
    <3>1. RequestsOK' /\ AskedOK'
      BY <1>1, <2>2, <2>4, SFrame DEF SInv, Phases
    <3>2. TypesOK'
      BY <1>1, <2>2, <2>4 DEF SInv, TypesOK, Phases
    <3> QED BY <1>2, <2>3, <2>4, <3>1, <3>2 DEF SInv
  <2>5. CASE \E restored \in RestoredBy(msg.tx) :
               HandleAdded(msg.tx, restored) /\ Enqueue(restored, msg)
    <3>1. PICK restored \in RestoredBy(msg.tx) :
            HandleAdded(msg.tx, restored) /\ Enqueue(restored, msg)
      BY <2>5
    <3>2. \E S \in SUBSET Tx : restored \in SetToSeqs(S)
      BY <1>2, RestoredOrders DEF RestoredBy, IInv, QueueOK
    <3>3. restored \in Seq(Tx) /\ ToSet(restored) \subseteq Tx
      BY <3>2, OrdersOfTxs
    <3>4. QueueBlocksOK'
      BY <2>3, <3>1, <3>3
    <3>5. TypesOK'
      <4>1. /\ tx_cache' \subseteq tx_cache \cup Tx
            /\ txs_needed' \subseteq txs_needed \cup Tx
            /\ unavailable_txs' \subseteq unavailable_txs
        BY <2>1, <3>1, <3>3 DEF HandleAdded
      <4> QED BY <1>1, <2>2, <4>1 DEF SInv, TypesOK, Phases
    <3>6. CASE UNCHANGED <<request_queue, txs_needed>>
      BY <1>1, <2>2, <3>4, <3>5, <3>6, SFrame DEF SInv, Phases
    <3>7. CASE /\ txs_needed' = txs_needed \cup {msg.tx}
               /\ \/ request_queue' = PushFront(request_queue, TxReq(msg.tx, TRUE))
                  \/ request_queue' = PushBack(request_queue, TxReq(msg.tx, TRUE))
      <4> DEFINE r == TxReq(msg.tx, TRUE)
      <4>1. r \in Requests
        BY <2>1, RequestKinds
      <4>2. \A x \in txs_needed' : x \in txs_needed \/ \E m \in BOOLEAN : r = TxReq(x, m)
        BY <3>7
      <4>3. request_queue' = PushFront(request_queue, r) \/ request_queue' = PushBack(request_queue, r)
        BY <3>7
      <4> HIDE DEF r
      <4>4. RequestsOK' /\ AskedOK'
        BY <1>1, <2>2, <4>1, <4>2, <4>3, PushedOneStep
      <4> QED BY <3>4, <3>5, <4>4 DEF SInv
    <3> QED BY <3>1, <3>6, <3>7 DEF HandleAdded
  <2>6. CASE HandleRemoved(msg.tx) /\ Enqueue(<< >>, msg)
    <3> DEFINE S == {msg.tx}
               drop == {TxReq(t, TRUE) : t \in S}
    <3>1. txs_needed' = txs_needed \ S /\ request_queue' = Without(request_queue, drop)
      <4>1. drop = {TxReq(msg.tx, TRUE)}
        OBVIOUS
      <4> QED BY <2>6, <4>1 DEF HandleRemoved
    <3>2. TypesOK'
      BY <1>1, <2>1, <2>2, <2>6 DEF HandleRemoved, SInv, TypesOK, Phases
    <3> HIDE DEF S
    <3>3. /\ request_queue' \in Seq(Requests) /\ NoRepeats(request_queue')
          /\ ToSet(request_queue') = ToSet(request_queue) \ drop
      BY <3>1, WithoutIs DEF SInv, RequestsOK
    <3>4. RequestsOK'
      BY <1>1, <3>3 DEF SInv, RequestsOK
    <3>5. AskedOK'
      BY <1>1, <2>2, <3>1, <3>3, AskedStep DEF SInv
    <3> QED BY <1>2, <2>3, <2>6, <3>2, <3>4, <3>5 DEF SInv
  <2> QED BY <1>4, <2>4, <2>5, <2>6 DEF HandleTxHashMsg
<1> QED BY <1>3, <1>4 DEF HandleSeq

\* A batch moves from the queue to the node, and its response from the node to
\* the task.  It stays outstanding.
LEMMA RpcSInv ==
  ASSUME IInv, SInv, TakeRequest \/ ServeRequest PROVE SInv'
<1>1. CASE TakeRequest
  <2>1. /\ rpc = IdleRpc /\ rpc' = [state |-> "sent", batch |-> Batch(request_queue)]
        /\ request_queue # << >> /\ request_queue' = AfterBatch(request_queue)
        /\ phase = "wait" /\ phase' = phase /\ UNCHANGED <<blocks_needed, txs_needed>>
    BY <1>1 DEF TakeRequest
  <2>2. /\ Batch(request_queue) \in Batches
        /\ AfterBatch(request_queue) \in Seq(Requests)
        /\ ToSet(request_queue) = ToSet(Batch(request_queue)) \cup ToSet(AfterBatch(request_queue))
        /\ NoRepeats(AfterBatch(request_queue))
    BY <2>1, BatchIs DEF SInv, RequestsOK
  <2>3. RequestsOK'
    BY <2>1, <2>2 DEF RequestsOK
  <2>4. Outstanding' = Outstanding
    BY <2>1, <2>2 DEF Outstanding, IdleRpc
  <2>5. AskedOK'
    BY <2>1, <2>4 DEF SInv, AskedOK, FetchOutstanding
  <2> QED BY <1>1, <2>1, <2>3, <2>5, SFrame DEF TakeRequest, SInv, innerVars, snapshotVars, TypesOK
<1>2. CASE ServeRequest
  <2> DEFINE gone == {r \in ToSet(rpc.batch) : r.req = "Tx" /\ r.tx \notin Fetchable}
  <2>1. /\ rpc.state = "sent" /\ rpc'.state = "done" /\ rpc'.batch = rpc.batch
        /\ rpc'.unavailable = {r.tx : r \in gone} /\ rpc'.active \in BOOLEAN
        /\ UNCHANGED <<request_queue, phase, blocks_needed, txs_needed>>
    BY <1>2 DEF ServeRequest, syncVars
  <2>2. rpc.batch \in Batches
    BY <2>1 DEF SInv, RequestsOK, IdleRpc
  <2>3. ToSet(rpc.batch) \subseteq Requests
    BY <2>2 DEF Batches, ToSet
  <2>4. rpc'.unavailable \subseteq Tx
    BY <2>1, <2>3 DEF Requests
  <2> HIDE DEF gone
  <2>5. RequestsOK'
    BY <2>1, <2>2, <2>4 DEF SInv, RequestsOK
  <2>6. Outstanding' = Outstanding
    BY <2>1 DEF Outstanding
  <2>7. AskedOK'
    BY <2>1, <2>6 DEF SInv, AskedOK, FetchOutstanding
  <2> QED BY <1>2, <2>5, <2>7, SFrame
          DEF ServeRequest, SInv, innerVars, syncVars, snapshotVars, TypesOK
<1> QED BY <1>1, <1>2

\* A fetched block is no longer needed, and its event may be applied.
LEMMA HandleRespBlockSInv ==
  ASSUME IInv, SInv, rpc.state = "done", rpc.batch[1].req = "Block", rpc' = IdleRpc,
         phase' = "apply", NEW txs, NEW restored \in BlockRestoreOrders(abandoned_pool, txs),
         HandleRespBlock(rpc.batch[1].block, restored),
         UNCHANGED <<mempool, unfiltered_txs, tip_watch, first_mempool_sequence,
                     rejected_txs, known_fees, mempool_txids, synced>>
  PROVE  SInv'
<1> DEFINE b == rpc.batch[1].block
<1>1. rpc.batch \in Batches /\ rpc.active \in BOOLEAN
  BY DEF SInv, RequestsOK, IdleRpc
<1>2. rpc.batch \in Seq(Requests) /\ Len(rpc.batch) = 1 /\ rpc.batch[1] \in Requests
  BY <1>1 DEF Batches
<1>3. b \in Block /\ rpc.batch[1] = BlockReq(b) /\ ToSet(rpc.batch) = {BlockReq(b)}
  <2>1. b \in Block /\ rpc.batch[1] = BlockReq(b)
    BY <1>2 DEF Requests, BlockReq
  <2>2. DOMAIN rpc.batch = {1}
    BY <1>2
  <2>3. ToSet(rpc.batch) = {rpc.batch[1]}
    BY <2>2 DEF ToSet
  <2> QED BY <2>1, <2>3
<1>4. \E S \in SUBSET Tx : restored \in SetToSeqs(S)
  BY RestoredOrders DEF IInv, QueueOK
<1>5. restored \in Seq(Tx) /\ ToSet(restored) \subseteq Tx
  BY <1>4, OrdersOfTxs
<1>6. /\ blocks_needed' = blocks_needed \ {b}
      /\ unavailable_txs' = unavailable_txs \ BlockTxs[b]
      /\ tx_cache' = tx_cache \cup ToSet(restored)
      /\ action_queue' = [i \in DOMAIN restored |-> InsertTx(restored[i])] \o action_queue
      /\ DOMAIN blocks' = DOMAIN blocks \cup {b}
      /\ \A x \in DOMAIN blocks' : blocks'[x] \in {rpc.active, blocks[x]}
      /\ \A x \in DOMAIN blocks' : x # b => x \in DOMAIN blocks /\ blocks'[x] = blocks[x]
      /\ blocks'[b] = rpc.active
      /\ UNCHANGED <<request_queue, txs_needed>>
  BY DEF HandleRespBlock
<1>7. RequestsOK'
  BY <1>6 DEF SInv, RequestsOK
<1>8. TypesOK'
  BY <1>1, <1>3, <1>5, <1>6 DEF SInv, TypesOK, Phases
<1>9. AskedOK'
  <2>1. Outstanding = ToSet(request_queue) \cup {BlockReq(b)} /\ Outstanding' = ToSet(request_queue)
    BY <1>3, <1>6 DEF Outstanding, IdleRpc
  <2>2. /\ \A x : x # b => BlockReq(x) # BlockReq(b)
        /\ \A t, m : TxReq(t, m) # BlockReq(b)
    BY DEF BlockReq, TxReq
  <2> HIDE DEF b
  <2>3. \A x \in blocks_needed' : BlockReq(x) \in Outstanding'
    BY <1>6, <2>1, <2>2 DEF SInv, AskedOK
  <2>4. \A t \in txs_needed' : \E m \in BOOLEAN : TxReq(t, m) \in Outstanding'
    BY <1>6, <2>1, <2>2 DEF SInv, AskedOK, FetchOutstanding
  <2> QED BY <2>3, <2>4 DEF AskedOK, FetchOutstanding
<1>10. QueueBlocksOK'
  <2>1. DOMAIN blocks \cup blocks_needed \subseteq DOMAIN blocks' \cup blocks_needed'
    BY <1>6
  <2> DEFINE msg == [event |-> "Connected", block |-> b]
  <2>4. msg \in SafeActions /\ msg.block \in DOMAIN blocks'
    BY <1>3, <1>6 DEF SafeActions, NodeMsgs
  <2> HIDE DEF msg, b
  <2> QED BY <1>5, <1>6, <2>1, <2>4, EnqueueBlocks DEF SInv
<1> QED BY <1>7, <1>8, <1>9, <1>10 DEF SInv

\* A batch of txs is answered in full: what was fetched and what is unavailable
\* are no longer needed.  The missing parents are asked for in its place.
LEMMA HandleRespTxsSInv ==
  ASSUME IInv, SInv, rpc.state = "done", rpc.batch[1].req = "Tx", rpc' = IdleRpc,
         phase' = "apply",
         NEW fetched,
         fetched = Without(rpc.batch, {r \in ToSet(rpc.batch) : r.tx \in rpc.unavailable}),
         NEW parents \in SetToSeqs(ParentsToFetch(fetched)), HandleRespTxs(fetched, parents),
         UNCHANGED <<mempool, unfiltered_txs, tip_watch, first_mempool_sequence,
                     rejected_txs, known_fees, mempool_txids, synced>>
  PROVE  SInv'
<1> DEFINE txs == {fetched[i].tx : i \in DOMAIN fetched}
           reqs == [i \in DOMAIN parents |-> TxReq(parents[i], FALSE)]
           lost == {r \in ToSet(rpc.batch) : r.tx \in rpc.unavailable}
<1>1. rpc.batch \in Batches /\ rpc.unavailable \subseteq Tx
  BY DEF SInv, RequestsOK, IdleRpc
<1>2. \A r \in ToSet(rpc.batch) : r.req = "Tx" /\ r \in Requests
  BY <1>1 DEF Batches, ToSet
<1>3. ToSet(fetched) = ToSet(rpc.batch) \ lost
  BY <1>1, WithoutIs DEF Batches
<1>4. txs = {r.tx : r \in ToSet(fetched)}
  BY DEF ToSet
<1>5. txs \subseteq Tx
  BY <1>2, <1>3, <1>4 DEF Requests
<1>6. parents \in Seq(Tx) /\ NoRepeats(parents) /\ ToSet(parents) \subseteq Tx
  BY OrdersOfTxs DEF ParentsToFetch
<1>7. /\ txs_needed' = ((txs_needed \ rpc.unavailable) \ txs) \cup ToSet(parents)
      /\ unavailable_txs' = unavailable_txs \cup rpc.unavailable
      /\ tx_cache' = tx_cache \cup txs
      /\ request_queue' = PushAllFront(request_queue, reqs)
      /\ UNCHANGED <<action_queue, blocks, blocks_needed>>
  BY DEF HandleRespTxs
<1>8. /\ reqs \in Seq(Requests) /\ NoRepeats(reqs)
      /\ ToSet(reqs) = {TxReq(t, FALSE) : t \in ToSet(parents)}
  BY <1>6, TxRequests
<1> HIDE DEF reqs
<1>9. /\ request_queue' \in Seq(Requests) /\ NoRepeats(request_queue')
      /\ ToSet(request_queue') = ToSet(request_queue) \cup ToSet(reqs)
  <2>1. /\ request_queue' = PushAllFront(request_queue, reqs)
        /\ request_queue \in Seq(Requests) /\ NoRepeats(request_queue)
        /\ reqs \in Seq(Requests) /\ NoRepeats(reqs)
    BY <1>7, <1>8 DEF SInv, RequestsOK
  <2> QED BY ONLY <2>1, PushAllFrontIs
<1>10. RequestsOK'
  BY <1>9 DEF RequestsOK
<1> HIDE DEF txs
<1>11. TypesOK'
  BY <1>1, <1>5, <1>6, <1>7 DEF SInv, TypesOK, Phases
<1>12. AskedOK'
  <2>1. /\ Outstanding = ToSet(request_queue) \cup ToSet(rpc.batch)
        /\ Outstanding' = ToSet(request_queue')
    BY DEF Outstanding, IdleRpc
  <2>2. ASSUME NEW b \in blocks_needed' PROVE BlockReq(b) \in Outstanding'
    <3>1. BlockReq(b) \notin ToSet(rpc.batch)
      BY <1>2 DEF BlockReq
    <3> QED BY <1>7, <1>9, <2>1, <3>1 DEF SInv, AskedOK
  <2>3. ASSUME NEW t \in txs_needed' PROVE \E m \in BOOLEAN : TxReq(t, m) \in Outstanding'
    <3>1. CASE t \in ToSet(parents)
      BY <1>8, <1>9, <2>1, <3>1
    <3>2. CASE t \notin ToSet(parents)
      <4>1. t \in txs_needed /\ t \notin rpc.unavailable /\ t \notin txs
        BY <1>7, <3>2
      <4>2. PICK m \in BOOLEAN : TxReq(t, m) \in Outstanding
        BY <4>1 DEF SInv, AskedOK, FetchOutstanding
      <4>3. TxReq(t, m).tx = t
        BY DEF TxReq
      <4>4. TxReq(t, m) \notin ToSet(rpc.batch)
        BY <1>3, <1>4, <4>1, <4>3
      <4> QED BY <1>9, <2>1, <4>2, <4>4
    <3> QED BY <3>1, <3>2
  <2> QED BY <2>2, <2>3 DEF AskedOK, FetchOutstanding
<1>13. QueueBlocksOK'
  BY <1>7, SFrame DEF SInv
<1> QED BY <1>10, <1>11, <1>12, <1>13 DEF SInv

\* A response is handled.
LEMMA HandleRespSInv ==
  ASSUME IInv, SInv, HandleResp PROVE SInv'
<1> DEFINE kind == rpc.batch[1].req
           fetched == Without(rpc.batch, {r \in ToSet(rpc.batch) : r.tx \in rpc.unavailable})
<1>1. /\ rpc.state = "done" /\ rpc' = IdleRpc /\ phase' = "apply"
      /\ UNCHANGED <<mempool, unfiltered_txs, tip_watch, first_mempool_sequence,
                     rejected_txs, known_fees, mempool_txids, synced>>
  BY DEF HandleResp, snapshotVars
<1>2. CASE /\ kind = "Block"
           /\ \E txs \in TopologicalOrders(BlockTxs[rpc.batch[1].block]) :
                \E restored \in BlockRestoreOrders(abandoned_pool, txs) :
                  HandleRespBlock(rpc.batch[1].block, restored)
  BY <1>1, <1>2, HandleRespBlockSInv
<1>3. CASE /\ kind = "Tx"
           /\ \E parents \in SetToSeqs(ParentsToFetch(fetched)) : HandleRespTxs(fetched, parents)
  <2>1. PICK parents \in SetToSeqs(ParentsToFetch(fetched)) : HandleRespTxs(fetched, parents)
    BY <1>3
  <2> QED BY <1>1, <1>3, <2>1, HandleRespTxsSInv
<1>4. CASE /\ kind \in {"RejectBlock", "RejectTx"}
           /\ UNCHANGED <<action_queue, blocks, blocks_needed, request_queue, tx_cache,
                          txs_needed, unavailable_txs>>
  <2>1. rpc.batch \in Batches
    BY <1>1 DEF SInv, RequestsOK, IdleRpc
  <2>2. \A r \in ToSet(rpc.batch) : r.req \in {"RejectBlock", "RejectTx"}
    BY <1>4, <2>1 DEF Batches, ToSet
  <2>3. \A b, t, m : BlockReq(b) \notin ToSet(rpc.batch) /\ TxReq(t, m) \notin ToSet(rpc.batch)
    BY <2>2 DEF BlockReq, TxReq
  <2>4. Outstanding = ToSet(request_queue) \cup ToSet(rpc.batch) /\ Outstanding' = ToSet(request_queue)
    BY <1>1, <1>4 DEF Outstanding, IdleRpc
  <2>5. AskedOK'
    BY <1>1, <1>4, <2>3, <2>4 DEF SInv, AskedOK, FetchOutstanding
  <2>6. RequestsOK'
    BY <1>1, <1>4 DEF SInv, RequestsOK
  <2> QED BY <1>1, <1>4, <2>5, <2>6, SFrame DEF SInv, Phases
<1> QED BY <1>2, <1>3, <1>4 DEF HandleResp

\* The head of the queue is applied, or waits.
LEMMA AppliedBlocks ==
  ASSUME IInv, QueueBlocksOK, action_queue # << >>, Applied \/ Pending,
         blocks_needed \subseteq blocks_needed'
  PROVE  QueueBlocksOK'
<1>1. action_queue \in Seq(SafeActions)
  BY DEF IInv, QueueOK
<1>2. ToSet(Tail(action_queue)) \subseteq ToSet(action_queue)
  <2>1. \A i \in DOMAIN Tail(action_queue) :
          i + 1 \in DOMAIN action_queue /\ Tail(action_queue)[i] = action_queue[i + 1]
    BY <1>1
  <2> QED BY <2>1 DEF ToSet
<1>3. ToSet(action_queue') \subseteq ToSet(action_queue) /\ blocks' = blocks
  BY <1>2 DEF Applied, Pending, innerVars
<1> QED BY <1>3 DEF QueueBlocksOK

\* try_add_tx_from_caches: what it turns out to need is asked for, and the txs
\* that are rejected are reported.
LEMMA TxStepSInv ==
  ASSUME IInv, SInv, NEW t \in Tx,
         \/ AddKnown(t) \/ AddUnfetched(t) \/ AddWithRejectedParent(t)
         \/ AddWithRequiredParents(t) \/ AddAbandoned(t) \/ AddAccepted(t)
         \/ AddRejected(t)
  PROVE  SInv'
<1> USE DEF AppliesTx, AddFetched, CanApply, chainVars
<1>1. /\ action_queue # << >>
      /\ Applied \/ Pending
      /\ blocks_needed' = blocks_needed
      /\ phase' \in {"wait", "apply"} /\ rpc' = rpc
      /\ UNCHANGED <<tip_watch, blocks, first_mempool_sequence, known_fees, mempool_txids,
                     unavailable_txs, synced>>
  BY DEF AddKnown, AddUnfetched, AddWithRejectedParent, AddWithRequiredParents,
         AddAbandoned, AddAccepted, AddRejected, Validates, Applied, Pending, innerVars,
         snapshotVars
<1>2. QueueBlocksOK'
  BY <1>1, AppliedBlocks DEF SInv
<1>3. /\ mempool' \subseteq mempool \cup {t}
      /\ unfiltered_txs' \subseteq unfiltered_txs \cup {t}
      /\ tx_cache' \subseteq tx_cache
      /\ txs_needed' \subseteq txs_needed \cup ParentsRequired(t)
  BY DEF AddKnown, AddUnfetched, AddWithRejectedParent, AddWithRequiredParents,
         AddAbandoned, AddAccepted, AddRejected, Validates, Applied, Pending, innerVars
<1>4. ParentsRequired(t) \subseteq Tx
  BY VinAssumption DEF ParentsRequired, Unresolved
<1>5. rejected_txs' \subseteq Tx => TypesOK'
  BY <1>1, <1>3, <1>4 DEF SInv, TypesOK, Phases
<1>6. CASE UNCHANGED <<request_queue, rejected_txs, txs_needed>>
  BY <1>1, <1>2, <1>5, <1>6, SFrame DEF SInv, TypesOK, Phases
<1>7. CASE AddUnfetched(t)
  <2> DEFINE r == TxReq(t, TRUE)
  <2>1. r \in Requests
    BY RequestKinds
  <2>2. request_queue' = PushFront(request_queue, r) /\ UNCHANGED <<txs_needed, rejected_txs>>
    BY <1>7 DEF AddUnfetched, Pending
  <2> HIDE DEF r
  <2>3. RequestsOK' /\ AskedOK'
    BY <1>1, <2>1, <2>2, PushedOneStep
  <2> QED BY <1>2, <1>5, <2>2, <2>3 DEF SInv, TypesOK
<1>8. CASE AddWithRejectedParent(t)
  <2> DEFINE r == RejectTxReq(t)
  <2>1. r \in Requests
    BY RequestKinds
  <2>2. /\ request_queue' = PushFront(request_queue, r) /\ UNCHANGED txs_needed
        /\ rejected_txs' = rejected_txs \cup {t}
    BY <1>8 DEF AddWithRejectedParent
  <2> HIDE DEF r
  <2>3. RequestsOK' /\ AskedOK'
    BY <1>1, <2>1, <2>2, PushedOneStep
  <2> QED BY <1>2, <1>5, <2>2, <2>3 DEF SInv, TypesOK
<1>9. CASE AddWithRequiredParents(t)
  <2>1. PICK order \in SetToSeqs(ParentsRequired(t)) :
          request_queue' = PushAllFront(request_queue,
                             [i \in DOMAIN order |-> TxReq(order[i], FALSE)])
    BY <1>9 DEF AddWithRequiredParents
  <2> DEFINE reqs == [i \in DOMAIN order |-> TxReq(order[i], FALSE)]
  <2>2. order \in Seq(Tx) /\ NoRepeats(order) /\ ToSet(order) = ParentsRequired(t)
    BY <1>4, OrdersOfTxs
  <2>3. /\ reqs \in Seq(Requests) /\ NoRepeats(reqs)
        /\ ToSet(reqs) = {TxReq(x, FALSE) : x \in ParentsRequired(t)}
    BY <2>2, TxRequests
  <2>4. request_queue' = PushAllFront(request_queue, reqs)
    BY <2>1
  <2> HIDE DEF reqs
  <2>5. \A x \in txs_needed' : x \in txs_needed \/ \E m \in BOOLEAN : TxReq(x, m) \in ToSet(reqs)
    BY <1>3, <2>3
  <2>6. RequestsOK' /\ AskedOK'
    BY <1>1, <2>3, <2>4, <2>5, PushedStep
  <2>7. rejected_txs' = rejected_txs
    BY <1>9 DEF AddWithRequiredParents, Pending
  <2> QED BY <1>2, <1>5, <2>6, <2>7 DEF SInv, TypesOK
<1>10. CASE AddRejected(t)
  <2> DEFINE removed == (mempool \cap {t}) \cup DescendantsIn(mempool, {t})
  <2>1. PICK abandoned \in PoolRejects(abandoned_pool, removed \cup {t}) :
          /\ rejected_txs' = rejected_txs \cup {t} \cup removed \cup abandoned
          /\ \E order \in SetToSeqs({t} \cup removed \cup abandoned) :
               request_queue' = PushAllFront(request_queue,
                                  [i \in DOMAIN order |-> RejectTxReq(order[i])])
    BY <1>10 DEF AddRejected
  <2>2. {t} \cup removed \cup abandoned \subseteq Tx
    <3>1. DescendantsIn(mempool, {t}) \subseteq mempool
      BY DEF DescendantsIn, LeastClosed
    <3>2. abandoned \subseteq DOMAIN abandoned_pool
      BY DEF PoolRejects
    <3> QED BY <3>1, <3>2 DEF SInv, TypesOK, IInv, QueueOK
  <2>3. PICK order \in SetToSeqs({t} \cup removed \cup abandoned) :
          request_queue' = PushAllFront(request_queue,
                             [i \in DOMAIN order |-> RejectTxReq(order[i])])
    BY <2>1
  <2> DEFINE reqs == [i \in DOMAIN order |-> RejectTxReq(order[i])]
  <2>4. order \in Seq(Tx) /\ NoRepeats(order)
    BY <2>2, OrdersOfTxs
  <2>5. reqs \in Seq(Requests) /\ NoRepeats(reqs)
    BY <2>4, TxRequests
  <2>6. request_queue' = PushAllFront(request_queue, reqs) /\ UNCHANGED txs_needed
    BY <1>10, <2>3 DEF AddRejected, Validates
  <2> HIDE DEF reqs
  <2>7. RequestsOK' /\ AskedOK'
    BY <1>1, <2>5, <2>6, PushedStep
  <2>8. rejected_txs' \subseteq Tx
    BY <2>1, <2>2 DEF SInv, TypesOK
  <2> QED BY <1>2, <1>5, <2>7, <2>8 DEF SInv
<1> QED BY <1>6, <1>7, <1>8, <1>9, <1>10
        DEF AddKnown, AddAbandoned, AddAccepted, Validates

\* A tx that is removed from the views needs nothing.
LEMMA ApplyRemovedSInv ==
  ASSUME IInv, SInv, ApplyRemoved PROVE SInv'
<1>1. action_queue # << >> /\ Applied
  BY DEF ApplyRemoved, CanApply
<1>2. /\ phase' = "apply" /\ blocks_needed' = blocks_needed
      /\ UNCHANGED <<tip_watch, blocks, first_mempool_sequence, known_fees, mempool_txids,
                     unavailable_txs, synced, rpc, request_queue, txs_needed, rejected_txs,
                     tx_cache>>
      /\ mempool' \subseteq mempool /\ unfiltered_txs' \subseteq unfiltered_txs
  BY <1>1 DEF ApplyRemoved, Applied, snapshotVars, chainVars
<1>3. QueueBlocksOK'
  BY <1>1, <1>2, AppliedBlocks DEF SInv
<1>4. TypesOK'
  BY <1>2 DEF SInv, TypesOK, Phases
<1> QED BY <1>2, <1>3, <1>4, SFrame DEF SInv, Phases

\* A block event that is passed over, or has to wait: what it waits for is
\* asked for.
LEMMA PassedOverSInv ==
  ASSUME IInv, SInv, NEW b \in Block,
         \/ ConnectUnfetched(b) \/ ConnectCovered(b) \/ DisconnectRejected(b)
         \/ DisconnectEarly(b) \/ DisconnectFetchesParent(b)
  PROVE  SInv'
<1> USE DEF AppliesBlock, CanApply, chainVars
<1>1. /\ action_queue # << >>
      /\ Applied \/ Pending
      /\ phase' \in {"wait", "apply"} /\ rpc' = rpc
      /\ UNCHANGED <<tip_watch, blocks, mempool, unfiltered_txs, first_mempool_sequence,
                     known_fees, mempool_txids, unavailable_txs, synced, rejected_txs,
                     tx_cache, txs_needed>>
  BY DEF ConnectUnfetched, ConnectCovered, ConnectFetched, DisconnectRejected,
         DisconnectEarly, DisconnectFetchesParent, DisconnectsTip, Applied, Pending,
         innerVars, snapshotVars
<1>2. blocks_needed \subseteq blocks_needed'
  BY DEF ConnectUnfetched, ConnectCovered, ConnectFetched, DisconnectRejected,
         DisconnectEarly, DisconnectFetchesParent, Applied
<1>3. QueueBlocksOK'
  BY <1>1, <1>2, AppliedBlocks DEF SInv
<1>4. CASE UNCHANGED <<blocks_needed, request_queue>>
  BY <1>1, <1>3, <1>4, SFrame DEF SInv, Phases
<1>5. CASE /\ Parent[b] # NoBlock
           /\ blocks_needed' = blocks_needed \cup {Parent[b]}
           /\ request_queue' = PushFront(request_queue, BlockReq(Parent[b]))
  <2> DEFINE r == BlockReq(Parent[b])
  <2>1. Parent[b] \in Block /\ r \in Requests
    BY <1>5, ParentAssumption, RequestKinds
  <2>2. /\ request_queue' = PushFront(request_queue, r)
        /\ \A x \in blocks_needed' : x \in blocks_needed \/ r = BlockReq(x)
    BY <1>5
  <2> HIDE DEF r
  <2>3. RequestsOK' /\ AskedOK'
    BY <1>1, <2>1, <2>2, PushedOneStep
  <2>4. TypesOK'
    BY <1>1, <1>5, <2>1 DEF SInv, TypesOK, Phases
  <2> QED BY <1>3, <2>3, <2>4 DEF SInv
<1> QED BY <1>4, <1>5
        DEF ConnectUnfetched, ConnectCovered, DisconnectRejected, DisconnectEarly,
            DisconnectFetchesParent, ParentMissing, Applied

\* A rejected block is reported.
LEMMA ConnectRejectedSInv ==
  ASSUME IInv, SInv, NEW b \in Block, ConnectRejected(b) PROVE SInv'
<1> DEFINE r == RejectBlockReq(b)
<1>1. /\ action_queue # << >> /\ Applied /\ phase' = "apply" /\ rpc' = rpc
      /\ request_queue' = PushFront(request_queue, r)
      /\ UNCHANGED <<tip_watch, blocks, blocks_needed, mempool, first_mempool_sequence,
                     known_fees, mempool_txids, unavailable_txs, synced, rejected_txs,
                     tx_cache, txs_needed>>
      /\ unfiltered_txs' \subseteq unfiltered_txs
  BY DEF ConnectRejected, ConnectUnfiltered, ConnectFetched, AppliesBlock, CanApply, Applied,
         snapshotVars
<1>2. r \in Requests
  BY RequestKinds
<1> HIDE DEF r
<1>3. RequestsOK' /\ AskedOK'
  BY <1>1, <1>2, PushedOneStep
<1>4. QueueBlocksOK'
  BY <1>1, AppliedBlocks DEF SInv
<1>5. TypesOK'
  BY <1>1 DEF SInv, TypesOK, Phases
<1> QED BY <1>3, <1>4, <1>5 DEF SInv

\* With a block that is connected come its txs: their fetches are cancelled, and
\* they are not needed.
LEMMA ConnectAcceptedSInv ==
  ASSUME IInv, SInv, NEW b \in Block, ConnectAccepted(b) PROVE SInv'
<1> DEFINE S == BlockTxs[b]
           drop == {TxReq(t, TRUE) : t \in S}
           reject == RemovedOnConnect[b] \ S
           left == Without(request_queue, drop)
<1>1. /\ action_queue # << >> /\ Applied /\ phase' = "apply" /\ rpc' = rpc
      /\ UNCHANGED <<blocks, blocks_needed, first_mempool_sequence,
                     known_fees, mempool_txids, unavailable_txs, synced>>
      /\ tip_watch' = b
      /\ unfiltered_txs' \subseteq unfiltered_txs /\ mempool' \subseteq mempool
      /\ rejected_txs' = rejected_txs \cup reject
      /\ txs_needed' = txs_needed \ S /\ tx_cache' = tx_cache \cup S
  BY DEF ConnectAccepted, ConnectUnfiltered, ConnectFetched, AppliesBlock, CanApply, Applied,
         snapshotVars
<1>2. S \subseteq Tx /\ reject \subseteq Tx
  BY BlockTxsAssumption, EnforcerAssumption
<1>3. PICK order \in SetToSeqs(reject) :
        request_queue' = PushAllFront(left, [i \in DOMAIN order |-> RejectTxReq(order[i])])
  BY DEF ConnectAccepted
<1> DEFINE reqs == [i \in DOMAIN order |-> RejectTxReq(order[i])]
<1>4. reqs \in Seq(Requests) /\ NoRepeats(reqs)
  BY <1>2, OrdersOfTxs, TxRequests
<1> HIDE DEF S, reject
<1>5. left \in Seq(Requests) /\ NoRepeats(left) /\ ToSet(left) = ToSet(request_queue) \ drop
  BY WithoutIs DEF SInv, RequestsOK
<1>6. request_queue' = PushAllFront(left, reqs)
  BY <1>3
<1> HIDE DEF reqs, left
<1>7. /\ request_queue' \in Seq(Requests) /\ NoRepeats(request_queue')
      /\ ToSet(left) \subseteq ToSet(request_queue')
  <2>1. /\ request_queue' = PushAllFront(left, reqs)
        /\ left \in Seq(Requests) /\ NoRepeats(left)
        /\ reqs \in Seq(Requests) /\ NoRepeats(reqs)
    BY <1>4, <1>5, <1>6
  <2> QED BY ONLY <2>1, PushAllFrontIs
<1>8. RequestsOK'
  BY <1>1, <1>7 DEF SInv, RequestsOK
<1>9. AskedOK'
  <2>1. ToSet(request_queue) \ {TxReq(t, TRUE) : t \in S} \subseteq ToSet(request_queue')
    BY <1>5, <1>7
  <2> QED BY <1>1, <2>1, AskedStep DEF SInv
<1>10. TypesOK'
  BY <1>1, <1>2 DEF SInv, TypesOK, Phases
<1>11. QueueBlocksOK'
  BY <1>1, AppliedBlocks DEF SInv
<1> QED BY <1>8, <1>9, <1>10, <1>11 DEF SInv

\* A block that is disconnected asks for nothing more.
LEMMA DisconnectSInv ==
  ASSUME IInv, SInv, NEW b \in Block, Disconnect(b) PROVE SInv'
<1>1. /\ action_queue # << >> /\ Applied /\ phase' = "apply" /\ tip_watch' = Parent[b]
      /\ tip' = Parent[b]
      /\ UNCHANGED <<blocks, blocks_needed, unfiltered_txs, first_mempool_sequence,
                     known_fees, mempool_txids, unavailable_txs, synced, rejected_txs,
                     tx_cache, txs_needed, request_queue, rpc>>
      /\ mempool' \subseteq mempool
  BY DEF Disconnect, DisconnectsTip, AppliesBlock, CanApply, Applied, snapshotVars
<1>2. tip' \in Block
  BY DisconnectIInv DEF IInv, RejectedOK
<1>3. TypesOK'
  BY <1>1, <1>2 DEF SInv, TypesOK, Phases
<1>4. QueueBlocksOK'
  BY <1>1, AppliedBlocks DEF SInv
<1> QED BY <1>1, <1>3, <1>4, SFrame DEF SInv, Phases

LEMMA ApplySInv ==
  ASSUME IInv, SInv, Apply PROVE SInv'
<1>1. ASSUME QueueEmpty PROVE SInv'
  <2>1. TypesOK'
    BY <1>1 DEF QueueEmpty, innerVars, syncVars, snapshotVars, SInv, TypesOK, Phases, IsSynced
  <2> QED BY <1>1, <2>1, SFrame DEF QueueEmpty, innerVars, syncVars, snapshotVars, SInv, Phases
<1>2. ASSUME NEW b \in Block, ConnectUnexpected(b) \/ DisconnectMismatch(b) PROVE SInv'
  BY <1>2, StopSInv DEF ConnectUnexpected, DisconnectMismatch, Errors
<1>3. ASSUME RemovedUnknown PROVE SInv'
  BY <1>3, StopSInv DEF RemovedUnknown, Errors
<1> QED BY <1>1, <1>2, <1>3, TxStepSInv, ApplyRemovedSInv, PassedOverSInv,
           ConnectRejectedSInv, ConnectAcceptedSInv, DisconnectSInv DEF Apply

LEMMA NextSInv ==
  ASSUME IInv, SInv, [Next]_vars PROVE SInv'
<1>1. CASE NodeStep
  <2>1. UNCHANGED <<innerVars, syncVars, snapshotVars, rpc, phase, synced>> /\ phase \in Phases
    BY <1>1 DEF NodeStep, SInv, TypesOK
  <2> QED BY <2>1, SFrame DEF innerVars, syncVars, snapshotVars, SInv
<1>2. CASE UNCHANGED vars
  BY <1>2, SFrame DEF vars, innerVars, syncVars, snapshotVars, SInv, TypesOK
<1>3. CASE RequestFails \/ ApplySyncActionTimeout \/ Shutdown
  BY <1>3, StopSInv DEF RequestFails, ApplySyncActionTimeout, Shutdown, Errors
<1>4. CASE Snapshot
  BY <1>4, TakeSnapshotSInv, TakeFeesSInv DEF Snapshot
<1> QED BY <1>1, <1>2, <1>3, <1>4, HandleSeqSInv, RpcSInv, HandleRespSInv, ApplySInv DEF Next

\* What the head of the queue lacks has been asked for, and nothing that has been
\* asked for is lost between the request queue and the responses.
THEOREM RequestInvariant == Spec => [](IInv /\ ChainOK /\ SInv)
<1>1. Init => SInv
  BY InitSInv
<1>2. IInv /\ SInv /\ [Next]_vars => SInv'
  BY NextSInv
<1> QED BY <1>1, <1>2, ChainInvariant, PTL DEF Spec

------------------------------------------------------------------------------
\* The mempool and unfiltered_mempool.

FilterInv == left_out \subseteq Tx /\ FilterExplained

\* What the enforcer's removals account for only grows.
LEMMA DroppedGrows ==
  ASSUME DOMAIN blocks \subseteq DOMAIN blocks', DOMAIN blocks' \subseteq Block
  PROVE  /\ Dropped \subseteq Dropped'
         /\ DescendantsIn(Tx, Dropped) \subseteq DescendantsIn(Tx, Dropped)'
<1>1. Dropped \subseteq Dropped'
  BY DEF Dropped
<1>2. DescendantsIn(Tx, Dropped)' = DescendantsIn(Tx, Dropped')
  BY DEF DescendantsIn, LeastClosed
<1>3. \A R, S : R \in SUBSET S => DescendantsIn(Tx, R) \subseteq DescendantsIn(Tx, S)
  BY DescendantsGrow
<1> QED BY <1>1, <1>2, <1>3

\* A step explains every tx that it sets apart.
LEMMA FilterStep ==
  ASSUME FilterInv, left_out' \subseteq Tx,
         DOMAIN blocks \subseteq DOMAIN blocks', DOMAIN blocks' \subseteq Block,
         rejected_txs \subseteq rejected_txs',
         \A t \in unfiltered_txs' \ mempool' :
           \/ t \in unfiltered_txs \ mempool /\ (t \in left_out => t \in left_out')
           \/ t \in rejected_txs' \cup left_out' \cup Dropped' \cup DescendantsIn(Tx, Dropped)'
  PROVE  FilterInv'
<1>1. /\ Dropped \subseteq Dropped'
      /\ DescendantsIn(Tx, Dropped) \subseteq DescendantsIn(Tx, Dropped)'
  BY DroppedGrows
<1> DEFINE why == rejected_txs \cup left_out \cup Dropped \cup DescendantsIn(Tx, Dropped)
<1>2. \A t \in unfiltered_txs' \ mempool' : t \in why'
  <2> SUFFICES ASSUME NEW t \in unfiltered_txs' \ mempool' PROVE t \in why'
    OBVIOUS
  <2>1. CASE t \in unfiltered_txs \ mempool /\ (t \in left_out => t \in left_out')
    <3>1. t \in why
      BY <2>1 DEF FilterInv, FilterExplained
    <3> QED BY <1>1, <2>1, <3>1
  <2> QED BY <2>1
<1> QED BY <1>2 DEF FilterInv, FilterExplained

\* A step that leaves the sets alone.
LEMMA FilterFrame ==
  ASSUME FilterInv, UNCHANGED <<mempool, unfiltered_txs, left_out>>,
         DOMAIN blocks \subseteq DOMAIN blocks', DOMAIN blocks' \subseteq Block,
         rejected_txs \subseteq rejected_txs'
  PROVE  FilterInv'
BY FilterStep DEF FilterInv

\* A tx that enters unfiltered_mempool enters the mempool, is rejected, or is
\* left out; what a rejection takes out of the mempool is rejected too.
LEMMA AddFilter ==
  ASSUME FilterInv, SInv, NEW t \in Tx,
         \/ AddKnown(t) \/ AddWithRejectedParent(t) \/ AddAbandoned(t)
         \/ AddAccepted(t) \/ AddRejected(t)
  PROVE  FilterInv'
<1>1. Applied /\ unfiltered_txs' = unfiltered_txs \cup {t}
  BY DEF AddKnown, AddWithRejectedParent, AddAbandoned, AddAccepted, AddRejected, Validates
<1>2. DOMAIN blocks' = DOMAIN blocks /\ DOMAIN blocks' \subseteq Block
  BY <1>1 DEF Applied, SInv, TypesOK
<1>3. /\ left_out \subseteq left_out' /\ left_out' \subseteq Tx
      /\ rejected_txs \subseteq rejected_txs'
  BY DEF AddKnown, AddWithRejectedParent, AddAbandoned, AddAccepted, AddRejected, Validates,
         FilterInv
<1>4. mempool \ mempool' \subseteq rejected_txs'
  BY DEF AddKnown, AddWithRejectedParent, AddAbandoned, AddAccepted, AddRejected
<1>5. t \in unfiltered_txs \/ t \in mempool' \/ t \in rejected_txs' \/ t \in left_out'
  BY DEF AddKnown, AddWithRejectedParent, AddAbandoned, AddAccepted, AddRejected
<1>6. t \in mempool' \/ t \in rejected_txs' \cup left_out' \/ t \in unfiltered_txs \ mempool
  BY <1>4, <1>5
<1>7. \A x \in unfiltered_txs' \ mempool' :
        \/ x \in unfiltered_txs \ mempool /\ (x \in left_out => x \in left_out')
        \/ x \in rejected_txs' \cup left_out' \cup Dropped' \cup DescendantsIn(Tx, Dropped)'
  BY <1>1, <1>3, <1>4, <1>6
<1> QED BY <1>1, <1>2, <1>3, <1>7, FilterStep

\* A removed tx leaves both sets.
LEMMA RemovedFilter ==
  ASSUME FilterInv, SInv, ApplyRemoved PROVE FilterInv'
<1>1. /\ Applied /\ unfiltered_txs' = unfiltered_txs \ {HeadAction.tx}
      /\ mempool' = mempool \ {HeadAction.tx} /\ left_out' = left_out \ {HeadAction.tx}
      /\ rejected_txs' = rejected_txs
  BY DEF ApplyRemoved
<1>2. blocks' = blocks /\ DOMAIN blocks' \subseteq Block /\ left_out' \subseteq Tx
  BY <1>1 DEF Applied, SInv, TypesOK, FilterInv
<1> QED BY <1>1, <1>2, FilterStep

\* Block events: what the enforcer has removed is accounted for by its block.
LEMMA BlockFilter ==
  ASSUME FilterInv, SInv, NEW b \in Block,
         \/ ConnectCovered(b) \/ ConnectRejected(b) \/ ConnectAccepted(b)
         \/ DisconnectRejected(b) \/ Disconnect(b)
  PROVE  FilterInv'
<1>1. Applied /\ b \in Block /\ blocks' = blocks /\ DOMAIN blocks' \subseteq Block
  BY DEF ConnectCovered, ConnectRejected, ConnectAccepted, ConnectUnfiltered, DisconnectRejected,
         Disconnect, Applied, SInv, TypesOK
<1>2. CASE ConnectCovered(b) \/ DisconnectRejected(b)
  BY <1>1, <1>2, FilterFrame DEF ConnectCovered, DisconnectRejected, chainVars
<1>3. CASE ConnectRejected(b)
  <2>1. /\ unfiltered_txs' = unfiltered_txs \ BlockTxs[b] /\ left_out' = left_out \ BlockTxs[b]
        /\ mempool' = mempool /\ rejected_txs' = rejected_txs
    BY <1>3 DEF ConnectRejected, ConnectUnfiltered
  <2>2. left_out' \subseteq Tx
    BY <2>1 DEF FilterInv
  <2>3. \A t \in unfiltered_txs' \ mempool' :
          t \in unfiltered_txs \ mempool /\ (t \in left_out => t \in left_out')
    BY <2>1
  <2> QED BY <1>1, <2>1, <2>2, <2>3, FilterStep
<1>4. CASE ConnectAccepted(b)
  <2> DEFINE unmined == mempool \ BlockTxs[b]
             R == RemovedOnConnect[b]
  <2>1. /\ unfiltered_txs' = unfiltered_txs \ BlockTxs[b] /\ left_out' = left_out \ BlockTxs[b]
        /\ mempool' = (unmined \ R) \ DescendantsIn(unmined, R)
        /\ rejected_txs \subseteq rejected_txs' /\ b \in DOMAIN blocks
    BY <1>4 DEF ConnectAccepted, ConnectUnfiltered, ConnectFetched
  <2>2. R \subseteq Dropped'
    BY <1>1, <2>1 DEF Dropped
  <2>3. DescendantsIn(unmined, R) \subseteq DescendantsIn(Tx, Dropped)'
    <3>1. unmined \in SUBSET Tx
      BY DEF SInv, TypesOK
    <3>2. DescendantsIn(unmined, R) \subseteq DescendantsIn(Tx, Dropped')
      BY <2>2, <3>1, DescendantsGrow
    <3> QED BY <3>2 DEF DescendantsIn, LeastClosed
  <2> HIDE DEF R
  <2>4. left_out' \subseteq Tx
    BY <2>1 DEF FilterInv
  <2>5. \A t \in unfiltered_txs' \ mempool' :
          \/ t \in unfiltered_txs \ mempool /\ (t \in left_out => t \in left_out')
          \/ t \in rejected_txs' \cup left_out' \cup Dropped' \cup DescendantsIn(Tx, Dropped)'
    BY <2>1, <2>2, <2>3
  <2> QED BY <1>1, <2>1, <2>4, <2>5, FilterStep
<1>5. CASE Disconnect(b)
  <2> DEFINE R == RemovedOnDisconnect[b]
  <2>1. /\ unfiltered_txs' = unfiltered_txs /\ left_out' = left_out
        /\ mempool' = (mempool \ R) \ DescendantsIn(mempool, R)
        /\ rejected_txs' = rejected_txs /\ b \in DOMAIN blocks
    BY <1>5 DEF Disconnect, DisconnectsTip
  <2>2. R \subseteq Dropped'
    BY <1>1, <2>1 DEF Dropped
  <2>3. DescendantsIn(mempool, R) \subseteq DescendantsIn(Tx, Dropped)'
    <3>1. mempool \in SUBSET Tx
      BY DEF SInv, TypesOK
    <3>2. DescendantsIn(mempool, R) \subseteq DescendantsIn(Tx, Dropped')
      BY <2>2, <3>1, DescendantsGrow
    <3> QED BY <3>2 DEF DescendantsIn, LeastClosed
  <2> HIDE DEF R
  <2>4. left_out' \subseteq Tx
    BY <2>1 DEF FilterInv
  <2>5. \A t \in unfiltered_txs' \ mempool' :
          \/ t \in unfiltered_txs \ mempool /\ (t \in left_out => t \in left_out')
          \/ t \in rejected_txs' \cup left_out' \cup Dropped' \cup DescendantsIn(Tx, Dropped)'
    BY <2>1, <2>2, <2>3
  <2> QED BY <1>1, <2>1, <2>4, <2>5, FilterStep
<1> QED BY <1>2, <1>3, <1>4, <1>5

\* All other steps leave the two sets alone.
LEMMA NextFilter ==
  ASSUME FilterInv, SInv, SInv', [Next]_vars PROVE FilterInv'
<1>1. DOMAIN blocks' \subseteq Block
  BY DEF SInv, TypesOK
<1> DEFINE Kept == /\ UNCHANGED <<mempool, unfiltered_txs, left_out, rejected_txs>>
                   /\ DOMAIN blocks \subseteq DOMAIN blocks'
<1>2. Kept => FilterInv'
  BY <1>1, FilterFrame
<1>3. CASE NodeStep \/ UNCHANGED vars
  BY <1>2, <1>3 DEF NodeStep, vars, innerVars, syncVars
<1>4. CASE Snapshot
  BY <1>2, <1>4 DEF Snapshot, TakeSnapshot, TakeFees, innerVars, syncVars
<1>5. CASE HandleSeq
  BY <1>2, <1>5 DEF HandleSeq
<1>6. CASE TakeRequest \/ ServeRequest \/ RequestFails \/ ApplySyncActionTimeout \/ Shutdown
  BY <1>2, <1>6 DEF TakeRequest, ServeRequest, RequestFails, ApplySyncActionTimeout, Shutdown,
                    Stop, innerVars, syncVars
<1>7. CASE HandleResp
  <2>1. DOMAIN blocks \subseteq DOMAIN blocks'
    BY <1>7 DEF HandleResp, HandleRespBlock, HandleRespTxs
  <2> QED BY <1>2, <1>7, <2>1 DEF HandleResp
<1>8. Stop("UnexpectedTipUnfilteredMempool") \/ Stop("DisconnectTipMismatch")
        \/ Stop("UnfilteredMempoolMissingTx") \/ Pending => Kept
  BY DEF Stop, Pending, innerVars, syncVars
<1>9. CASE Apply
  <2>1. CASE QueueEmpty
    BY <1>2, <2>1 DEF QueueEmpty, innerVars, syncVars
  <2>2. CASE \E t \in Tx : AddUnfetched(t) \/ AddWithRequiredParents(t)
    BY <1>2, <1>8, <2>2 DEF AddUnfetched, AddWithRequiredParents
  <2>3. CASE \/ RemovedUnknown
             \/ \E b \in Block : \/ ConnectUnfetched(b) \/ ConnectUnexpected(b)
                                 \/ DisconnectEarly(b) \/ DisconnectMismatch(b)
                                 \/ DisconnectFetchesParent(b)
    BY <1>2, <1>8, <2>3 DEF RemovedUnknown, ConnectUnfetched, ConnectUnexpected, DisconnectEarly,
                            DisconnectMismatch, DisconnectFetchesParent
  <2> QED BY <1>9, <2>1, <2>2, <2>3, AddFilter, RemovedFilter, BlockFilter DEF Apply
<1> QED BY <1>3, <1>4, <1>5, <1>6, <1>7, <1>9 DEF Next

LEMMA FilterInvariant == Spec => []FilterInv
<1>1. Init => FilterInv
  BY DEF Init, FilterInv, FilterExplained
<1>2. FilterInv /\ SInv /\ SInv' /\ [Next]_vars => FilterInv'
  BY NextFilter
<1> QED BY <1>1, <1>2, RequestInvariant, PTL DEF Spec

\* Whatever the enforcer rejects and removes, and however fetches race with
\* evictions, no tx of unfiltered_mempool is missing from the mempool without a
\* reason: the sync task marks what it does not insert, and what it takes out of
\* the mempool alone.
THEOREM FilterExplainedHolds == Spec => []FilterExplained
<1>1. FilterInv => FilterExplained
  BY DEF FilterInv
<1> QED BY <1>1, FilterInvariant, PTL

\* Everything the task keeps is of its type, and the request queue never holds
\* a request twice, although requests are pushed at both ends and taken out of
\* the middle.
THEOREM TypeCorrect == Spec => []TypeOK
<1>1. IInv /\ SInv /\ FilterInv => TypeOK
  <2> SUFFICES ASSUME IInv, SInv, FilterInv PROVE TypeOK
    OBVIOUS
  <2>1. {tip, tip_watch, enforcer_tip, unfiltered_tip} \subseteq Block
    BY DEF IInv, RejectedOK, SInv, TypesOK
  <2>2. ToSet(action_queue) \subseteq SyncActions
    BY DEF IInv, QueueOK, ToSet, SafeActions, NodeMsgs, SyncActions
  <2>3. /\ ToSet(request_queue) \subseteq Requests
        /\ \A i, j \in DOMAIN request_queue : request_queue[i] = request_queue[j] => i = j
    BY DEF SInv, RequestsOK, NoRepeats, ToSet
  <2>4. rpc.state \in {"idle", "sent", "done"}
    BY DEF SInv, RequestsOK, IdleRpc
  <2> QED BY <2>1, <2>2, <2>3, <2>4 DEF TypeOK, IInv, QueueOK, RejectedOK, SInv, TypesOK, FilterInv
<1> QED BY <1>1, RequestInvariant, FilterInvariant, PTL

\* Whatever is_synced still waits for has been asked for and not been answered:
\* no cancelled fetch, no batch and no race of a response with a message leaves
\* an entry of blocks_needed or txs_needed behind, for any batch size.
THEOREM NeededRequestedHolds == Spec => []NeededRequested
<1>1. SInv => NeededRequested
  BY DEF SInv, AskedOK, NeededRequested
<1> QED BY <1>1, RequestInvariant, PTL

\* A step that leaves the sync actions, the caches and the chain alone, and
\* takes back no request, leaves the head of the queue awaiting what it awaits.
LEMMA StillAwaited ==
  ASSUME HeadAwaited, phase = "wait", Outstanding' = Outstanding,
         UNCHANGED <<action_queue, tip, unfiltered_tip, rejected_blocks, mempool, abandoned_pool,
                     tx_cache, unavailable_txs, known_fees, mempool_txids>>
  PROVE  HeadAwaited'
<1>1. HeadAction' = HeadAction
  BY DEF HeadAction
<1>2. \A t : ParentsRequired(t)' = ParentsRequired(t) /\ FetchOutstanding(t)' = FetchOutstanding(t)
  BY DEF ParentsRequired, Unresolved, FetchOutstanding
<1> QED BY <1>1, <1>2 DEF HeadAwaited, LockFree

\* try_add_tx_from_caches asks for what it makes the action wait for.
LEMMA TxStepAwaited ==
  ASSUME IInv, SInv, NEW t \in Tx, AddUnfetched(t) \/ AddWithRequiredParents(t)
  PROVE  HeadAwaited'
<1> USE DEF AppliesTx, AddFetched, CanApply
<1>1. /\ HeadAction.event \in {"InsertTx", "Added"} /\ HeadAction.tx = t
      /\ Pending
  BY DEF AddUnfetched, AddWithRequiredParents
<1>2. /\ HeadAction' = HeadAction /\ tx_cache' = tx_cache /\ ParentsRequired(t)' = ParentsRequired(t)
      /\ rpc' = rpc /\ phase' \in {"wait", "apply"} /\ blocks_needed' = blocks_needed
  BY <1>1 DEF AddUnfetched, AddWithRequiredParents, Pending, innerVars, snapshotVars, HeadAction,
              ParentsRequired, Unresolved
<1>3. CASE AddUnfetched(t)
  <2> DEFINE r == TxReq(t, TRUE)
  <2>1. r \in Requests /\ request_queue' = PushFront(request_queue, r) /\ txs_needed' = txs_needed
    BY <1>3, RequestKinds DEF AddUnfetched
  <2> HIDE DEF r
  <2>2. r \in Outstanding'
    BY <1>2, <2>1, PushedOneStep
  <2>3. t \notin tx_cache' /\ FetchOutstanding(t)'
    BY <1>2, <1>3, <2>2 DEF AddUnfetched, r, FetchOutstanding
  <2> QED BY <1>1, <1>2, <2>3 DEF HeadAwaited
<1>4. CASE AddWithRequiredParents(t)
  <2>1. ParentsRequired(t) \subseteq Tx
    BY VinAssumption DEF ParentsRequired, Unresolved
  <2>2. PICK order \in SetToSeqs(ParentsRequired(t)) :
          request_queue' = PushAllFront(request_queue,
                             [i \in DOMAIN order |-> TxReq(order[i], FALSE)])
    BY <1>4 DEF AddWithRequiredParents
  <2> DEFINE reqs == [i \in DOMAIN order |-> TxReq(order[i], FALSE)]
  <2>3. /\ reqs \in Seq(Requests)
        /\ ToSet(reqs) = {TxReq(x, FALSE) : x \in ParentsRequired(t)}
    BY <2>1, OrdersOfTxs, TxRequests
  <2>4. request_queue' = PushAllFront(request_queue, reqs)
    BY <2>2
  <2> HIDE DEF reqs
  <2>5. ToSet(reqs) \subseteq ToSet(request_queue')
    <3>1. /\ request_queue \in Seq(Requests) /\ reqs \in Seq(Requests)
          /\ request_queue' = PushAllFront(request_queue, reqs)
      BY <2>3, <2>4 DEF SInv, RequestsOK
    <3>2. ToSet(PushAllFront(request_queue, reqs)) = ToSet(request_queue) \cup ToSet(reqs)
      BY ONLY <3>1, PushAllFrontIs
    <3> QED BY <3>1, <3>2
  <2>6. \A x \in ParentsRequired(t) : TxReq(x, FALSE) \in Outstanding'
    BY <2>3, <2>5 DEF Outstanding
  <2>7. \A x \in ParentsRequired(t)' : FetchOutstanding(x)'
    BY <1>2, <2>6 DEF FetchOutstanding
  <2>8. t \in tx_cache'
    BY <1>2, <1>4 DEF AddWithRequiredParents
  <2> QED BY <1>1, <1>2, <2>7, <2>8 DEF HeadAwaited
<1> QED BY <1>3, <1>4

\* A block event waits for its block, which has been asked for since it was
\* queued, or for the parent.  The task is where the event applies unless it
\* has been left behind at a rejected block.
LEMMA BlockStepAwaited ==
  ASSUME IInv, ChainOK, SInv, NEW b \in Block,
         ConnectUnfetched(b) \/ DisconnectEarly(b) \/ DisconnectFetchesParent(b)
  PROVE  HeadAwaited'
<1> USE DEF AppliesBlock, CanApply
<1>1. /\ action_queue # << >> /\ HeadAction.block = b /\ Pending
      /\ HeadAction.event \in {"Connected", "Disconnected"}
  BY DEF ConnectUnfetched, DisconnectEarly, DisconnectFetchesParent, DisconnectsTip
<1>2. /\ HeadAction' = HeadAction /\ rpc' = rpc
      /\ UNCHANGED <<tip, unfiltered_tip, rejected_blocks, blocks, action_queue>>
  BY <1>1 DEF Pending, innerVars, HeadAction
<1>3. SInv'
  BY PassedOverSInv
<1>4. b \in DOMAIN blocks \cup blocks_needed
  <2>1. HeadAction \in ToSet(action_queue)
    BY <1>1 DEF HeadAction, ToSet, IInv, QueueOK
  <2> QED BY <1>1, <2>1 DEF SInv, QueueBlocksOK
<1>5. blocks_needed \subseteq blocks_needed'
  BY DEF ConnectUnfetched, DisconnectEarly, DisconnectFetchesParent
<1>6. b \notin DOMAIN blocks => BlockReq(b) \in Outstanding'
  BY <1>3, <1>4, <1>5 DEF SInv, AskedOK
<1>7. CASE ConnectUnfetched(b)
  BY <1>1, <1>2, <1>6, <1>7 DEF HeadAwaited, ConnectUnfetched
<1>8. CASE DisconnectEarly(b)
  <2>1. HeadAction.event = "Disconnected"
    BY <1>8 DEF DisconnectEarly
  <2>2. CASE tip = b
    BY <1>1, <1>2, <1>6, <1>8, <2>1, <2>2 DEF HeadAwaited, DisconnectEarly
  <2>3. CASE tip # b
    <3>1. b \notin rejected_blocks
      BY <1>8, <2>3 DEF DisconnectEarly
    <3>2. Placed(b, tip, unfiltered_tip, rejected_blocks) /\ Tower(unfiltered_tip, tip, rejected_blocks)
      BY <1>1, <2>1, AtBlock DEF ChainOK
    <3>3. unfiltered_tip \in rejected_blocks
      BY <2>3, <3>1, <3>2, TipsAgree DEF IInv, RejectedOK, Placed, Tower
    <3> QED BY <1>1, <1>2, <2>1, <2>3, <3>3 DEF HeadAwaited
  <2> QED BY <2>2, <2>3
<1>9. CASE DisconnectFetchesParent(b)
  <2>1. HeadAction.event = "Disconnected" /\ tip = b /\ Parent[b] \in blocks_needed'
    BY <1>9 DEF DisconnectFetchesParent, DisconnectsTip
  <2>2. BlockReq(Parent[b]) \in Outstanding'
    BY <1>3, <2>1 DEF SInv, AskedOK
  <2> QED BY <1>1, <1>2, <2>1, <2>2 DEF HeadAwaited
<1> QED BY <1>7, <1>8, <1>9

LEMMA NextHeadAwaited ==
  ASSUME IInv, ChainOK, SInv, HeadAwaited, [Next]_vars PROVE HeadAwaited'
<1>1. ASSUME phase' # "wait" PROVE HeadAwaited'
  BY <1>1 DEF HeadAwaited, LockFree
<1>2. CASE TakeFees
  <2>1. BlockReq(StartTip) \in Outstanding /\ UNCHANGED <<request_queue, rpc>>
    BY <1>2 DEF TakeFees, SInv, AskedOK, syncVars
  <2>2. BlockReq(StartTip) \in Outstanding'
    BY <2>1 DEF Outstanding
  <2> QED BY <2>2 DEF HeadAwaited
<1>3. CASE QueueEmpty
  BY <1>3 DEF QueueEmpty, HeadAwaited, syncVars
<1>4. CASE UNCHANGED vars \/ NodeStep
  <2>1. /\ Outstanding' = Outstanding /\ phase' = phase
        /\ UNCHANGED <<innerVars, syncVars, snapshotVars>>
    BY <1>4 DEF vars, NodeStep, innerVars, syncVars, Outstanding
  <2> QED BY <1>1, <2>1, StillAwaited DEF innerVars, syncVars, snapshotVars
<1>5. CASE TakeRequest
  <2>1. /\ rpc = IdleRpc /\ rpc' = [state |-> "sent", batch |-> Batch(request_queue)]
        /\ request_queue # << >> /\ request_queue' = AfterBatch(request_queue)
    BY <1>5 DEF TakeRequest
  <2>2. ToSet(request_queue) = ToSet(Batch(request_queue)) \cup ToSet(AfterBatch(request_queue))
    BY <2>1, BatchIs DEF SInv, RequestsOK
  <2>3. Outstanding' = Outstanding
    BY <2>1, <2>2 DEF Outstanding, IdleRpc
  <2> QED BY <1>5, <2>3, StillAwaited DEF TakeRequest, innerVars, snapshotVars
<1>6. CASE ServeRequest
  <2>1. /\ rpc.state = "sent" /\ rpc'.state = "done" /\ rpc'.batch = rpc.batch
        /\ UNCHANGED <<phase, innerVars, syncVars, snapshotVars>>
    BY <1>6 DEF ServeRequest
  <2>2. Outstanding' = Outstanding
    BY <2>1 DEF Outstanding, syncVars
  <2> QED BY <1>1, <2>1, <2>2, StillAwaited DEF innerVars, syncVars, snapshotVars
<1>7. ASSUME NEW error \in Errors, Stop(error) PROVE HeadAwaited'
  BY <1>1, <1>7 DEF Stop, Errors
<1>8. CASE RequestFails \/ ApplySyncActionTimeout \/ Shutdown
  BY <1>7, <1>8 DEF RequestFails, ApplySyncActionTimeout, Shutdown, Errors
<1>9. ASSUME \/ HandleSeq \/ HandleResp
             \/ \E order \in SetToSeqs(node_txs), seeded \in SUBSET node_txs :
                  TakeSnapshot(order, seeded)
      PROVE  HeadAwaited'
  BY <1>1, <1>9 DEF HandleSeq, HandleResp, TakeSnapshot
<1>10. CASE Apply
  <2>1. ASSUME Applied PROVE HeadAwaited'
    BY <1>1, <2>1 DEF Applied
  <2>2. ASSUME NEW t \in Tx,
               \/ AddKnown(t) \/ AddWithRejectedParent(t) \/ AddAbandoned(t)
               \/ AddAccepted(t) \/ AddRejected(t)
        PROVE  HeadAwaited'
    BY <2>1, <2>2 DEF AddKnown, AddWithRejectedParent, AddAbandoned, AddAccepted, AddRejected,
                      Validates
  <2>3. ASSUME ApplyRemoved \/ RemovedUnknown PROVE HeadAwaited'
    BY <1>7, <2>1, <2>3 DEF ApplyRemoved, RemovedUnknown, Errors
  <2>4. ASSUME NEW b \in Block,
               \/ ConnectCovered(b) \/ ConnectRejected(b) \/ ConnectAccepted(b)
               \/ DisconnectRejected(b) \/ Disconnect(b)
        PROVE  HeadAwaited'
    BY <2>1, <2>4 DEF ConnectCovered, ConnectRejected, ConnectAccepted, ConnectUnfiltered,
                      DisconnectRejected, Disconnect
  <2>5. ASSUME NEW b \in Block, ConnectUnexpected(b) \/ DisconnectMismatch(b) PROVE HeadAwaited'
    BY <1>7, <2>5 DEF ConnectUnexpected, DisconnectMismatch, Errors
  <2> QED BY <1>3, <1>10, <2>2, <2>3, <2>4, <2>5, TxStepAwaited, BlockStepAwaited DEF Apply
<1> QED BY <1>2, <1>4, <1>5, <1>6, <1>8, <1>9, <1>10 DEF Next, Snapshot

\* A sync action that waits at the head of the queue waits for a request that is
\* queued or with the node, so its wait ends with a response and not with the
\* timeout: no order of responses and messages, no cancelled fetch and no reorg
\* leaves it waiting for nothing.
THEOREM HeadAwaitedHolds == Spec => []HeadAwaited
<1>1. Init => HeadAwaited
  BY DEF Init, HeadAwaited, LockFree
<1>2. IInv /\ ChainOK /\ SInv /\ HeadAwaited /\ [Next]_vars => HeadAwaited'
  BY NextHeadAwaited
<1> QED BY <1>1, <1>2, RequestInvariant, PTL DEF Spec

------------------------------------------------------------------------------
\* The task mirrors the node.  For each tx, what the node has of it is what the
\* task has of it, as long as no message about it is still to be applied; and the
\* last one that is says what the node has.

\* A message that tells whether the node has t in its mempool.
About(m, t) ==
  \/ m.event \in {"Added", "Removed"} /\ m.tx = t
  \/ m.event = "Connected" /\ t \in BlockTxs[m.block]

Silent(msgs, t) == \A i \in DOMAIN msgs : ~About(msgs[i], t)

\* The last message about a tx is true of txs, the node's mempool.
Truthful(msgs, txs) ==
  \A t \in Tx : \A i \in DOMAIN msgs :
    About(msgs[i], t) /\ (\A j \in DOMAIN msgs : j > i => ~About(msgs[j], t))
      => (t \in txs <=> msgs[i].event = "Added")

\* A disconnected block gives its txs back, which later messages tell.
GivenBack(msgs) ==
  \A i \in DOMAIN msgs : msgs[i].event = "Disconnected" =>
    \A t \in BlockTxs[msgs[i].block] : \E j \in DOMAIN msgs : j > i /\ About(msgs[j], t)

\* Txs of the snapshot and restored txs are inserted before anything else.
InsertsFirst(msgs) ==
  \A i, j \in DOMAIN msgs :
    i < j /\ msgs[j].event = "InsertTx" => msgs[i].event = "InsertTx"

\* What is still to be applied.
Unapplied == action_queue \o zmq

InsertedBy(msgs) == {t \in Tx : \E i \in DOMAIN msgs : msgs[i] = InsertTx(t)}

\* The txs that are in one of the task's pools.
Kept == unfiltered_txs \cup mempool \cup DOMAIN abandoned_pool

\* pos is the block at which the next block event applies.
AtPos(msgs, pos, to) == pos \in Block /\ LeadsOn(msgs, to, pos, pos, {})

\* What the task has, or will have inserted, the node has or had in a block that
\* the next block event finds connected.
HeldOK(msgs, held, txs, pos) ==
  \A t \in Tx : Silent(msgs, t) /\ t \in held => t \in txs \cup Confirmed(pos)

MirrorOK ==
  /\ Truthful(Unapplied, node_txs)
  /\ GivenBack(Unapplied)
  /\ InsertsFirst(Unapplied)
  /\ phase # "snapshot" =>
       \A t \in Tx : Silent(Unapplied, t) /\ t \in node_txs =>
                       t \in unfiltered_txs \cup InsertedBy(Unapplied)
  /\ \E pos : /\ AtPos(Unapplied, pos, node_tip)
              /\ HeldOK(Unapplied, Kept \cup InsertedBy(Unapplied), node_txs, pos)

\* The messages of two queues in a row.
LEMMA ConcatAt ==
  ASSUME NEW M, NEW a \in Seq(M), NEW b \in Seq(M)
  PROVE  /\ Len(a) \in Nat /\ DOMAIN a = 1 .. Len(a) /\ DOMAIN b = 1 .. Len(b)
         /\ \A i \in DOMAIN a : i \in DOMAIN (a \o b) /\ (a \o b)[i] = a[i]
         /\ \A i \in DOMAIN b : Len(a) + i \in DOMAIN (a \o b) /\ (a \o b)[Len(a) + i] = b[i]
         /\ \A i \in DOMAIN (a \o b) :
              \/ i \in DOMAIN a
              \/ i > Len(a) /\ i - Len(a) \in DOMAIN b /\ i = Len(a) + (i - Len(a))
         /\ DOMAIN (a \o b) \subseteq Nat
<1>1. /\ Len(a) \in Nat /\ Len(b) \in Nat /\ DOMAIN a = 1 .. Len(a) /\ DOMAIN b = 1 .. Len(b)
      /\ DOMAIN (a \o b) = 1 .. Len(a) + Len(b)
  OBVIOUS
<1>2. \A i \in 1 .. Len(a) : (a \o b)[i] = a[i]
  OBVIOUS
<1>3. \A i \in 1 .. Len(b) : (a \o b)[Len(a) + i] = b[i]
  OBVIOUS
<1> QED BY <1>1, <1>2, <1>3

\* Nothing is told of a tx by two queues if neither tells anything.
LEMMA SilentConcat ==
  ASSUME NEW M, NEW a \in Seq(M), NEW b \in Seq(M), NEW t
  PROVE  Silent(a \o b, t) <=> Silent(a, t) /\ Silent(b, t)
<1>1. ASSUME Silent(a \o b, t) PROVE Silent(a, t) /\ Silent(b, t)
  <2>1. ASSUME NEW i \in DOMAIN a PROVE ~About(a[i], t)
    <3>1. i \in DOMAIN (a \o b) /\ (a \o b)[i] = a[i]
      BY ConcatAt
    <3> QED BY <1>1, <3>1 DEF Silent
  <2>2. ASSUME NEW i \in DOMAIN b PROVE ~About(b[i], t)
    <3>1. Len(a) + i \in DOMAIN (a \o b) /\ (a \o b)[Len(a) + i] = b[i]
      BY ConcatAt
    <3> QED BY <1>1, <3>1 DEF Silent
  <2> QED BY <2>1, <2>2 DEF Silent
<1>2. ASSUME Silent(a, t), Silent(b, t), NEW i \in DOMAIN (a \o b)
      PROVE  ~About((a \o b)[i], t)
  <2>1. CASE i \in DOMAIN a
    BY <1>2, <2>1, ConcatAt DEF Silent
  <2>2. CASE i - Len(a) \in DOMAIN b /\ i = Len(a) + (i - Len(a))
    BY <1>2, <2>2, ConcatAt DEF Silent
  <2> QED BY <2>1, <2>2, ConcatAt
<1> QED BY <1>1, <1>2 DEF Silent

\* Every message of told is true of the mempool now, and what it is silent about
\* is as it was.
Tells(told, before, now) ==
  /\ \A i \in DOMAIN told : \A t \in Tx :
       About(told[i], t) => (t \in now <=> told[i].event = "Added")
  /\ \A t \in Tx : Silent(told, t) => (t \in before <=> t \in now)

\* What the node publishes comes after what is still to be applied.
LEMMA TruthfulAppend ==
  ASSUME NEW M, NEW msgs \in Seq(M), NEW s \in Seq(M), NEW before, NEW now,
         Truthful(msgs, before), Tells(s, before, now)
  PROVE  Truthful(msgs \o s, now)
<1> DEFINE all == msgs \o s
<1>1. SUFFICES ASSUME NEW t \in Tx, NEW i \in DOMAIN all, About(all[i], t),
                      \A j \in DOMAIN all : j > i => ~About(all[j], t)
               PROVE  t \in now <=> all[i].event = "Added"
  BY DEF Truthful
<1>2. CASE i \in DOMAIN msgs
  <2>1. all[i] = msgs[i]
    BY <1>2, ConcatAt
  <2>2. ASSUME NEW j \in DOMAIN msgs, j > i PROVE ~About(msgs[j], t)
    <3>1. j \in DOMAIN all /\ all[j] = msgs[j]
      BY ConcatAt
    <3> QED BY <1>1, <2>2, <3>1
  <2>3. ASSUME NEW j \in DOMAIN s PROVE ~About(s[j], t)
    <3>1. Len(msgs) + j \in DOMAIN all /\ all[Len(msgs) + j] = s[j] /\ Len(msgs) + j > i
      BY <1>2, ConcatAt
    <3> QED BY <1>1, <3>1
  <2>4. t \in before <=> t \in now
    BY <2>3 DEF Silent, Tells
  <2>5. t \in before <=> msgs[i].event = "Added"
    BY <1>1, <1>2, <2>1, <2>2 DEF Truthful
  <2> QED BY <2>1, <2>4, <2>5
<1>3. CASE i - Len(msgs) \in DOMAIN s /\ i = Len(msgs) + (i - Len(msgs))
  <2>1. all[i] = s[i - Len(msgs)]
    BY <1>3, ConcatAt
  <2> QED BY <1>1, <1>3, <2>1 DEF Tells
<1> QED BY <1>2, <1>3, ConcatAt

LEMMA GivenBackAppend ==
  ASSUME NEW M, NEW a \in Seq(M), NEW b \in Seq(M), GivenBack(a), GivenBack(b)
  PROVE  GivenBack(a \o b)
<1> DEFINE all == a \o b
<1>1. SUFFICES ASSUME NEW i \in DOMAIN all, all[i].event = "Disconnected",
                      NEW t \in BlockTxs[all[i].block]
               PROVE  \E j \in DOMAIN all : j > i /\ About(all[j], t)
  BY DEF GivenBack
<1>2. CASE i \in DOMAIN a
  <2>1. all[i] = a[i]
    BY <1>2, ConcatAt
  <2>2. PICK j \in DOMAIN a : j > i /\ About(a[j], t)
    BY <1>1, <1>2, <2>1 DEF GivenBack
  <2>3. j \in DOMAIN all /\ all[j] = a[j]
    BY ConcatAt
  <2> QED BY <2>2, <2>3
<1>3. CASE i - Len(a) \in DOMAIN b /\ i = Len(a) + (i - Len(a))
  <2>1. all[i] = b[i - Len(a)]
    BY <1>3, ConcatAt
  <2>2. PICK j \in DOMAIN b : j > i - Len(a) /\ About(b[j], t)
    BY <1>1, <1>3, <2>1 DEF GivenBack
  <2>3. Len(a) + j \in DOMAIN all /\ all[Len(a) + j] = b[j] /\ Len(a) + j > i
    BY <1>3, <2>2, ConcatAt
  <2> QED BY <2>2, <2>3
<1> QED BY <1>2, <1>3, ConcatAt

\* Nothing is inserted by what is behind, and what is in front is all inserts or
\* in order.
LEMMA InsertsFirstAppend ==
  ASSUME NEW M, NEW a \in Seq(M), NEW b \in Seq(M), InsertsFirst(a), InsertsFirst(b),
         \/ \A i \in DOMAIN a : a[i].event = "InsertTx"
         \/ \A i \in DOMAIN b : b[i].event # "InsertTx"
  PROVE  InsertsFirst(a \o b)
<1> DEFINE all == a \o b
<1>1. SUFFICES ASSUME NEW i \in DOMAIN all, NEW j \in DOMAIN all, i < j,
                      all[j].event = "InsertTx"
               PROVE  all[i].event = "InsertTx"
  BY DEF InsertsFirst
<1>2. CASE j \in DOMAIN a
  <2>1. i \in DOMAIN a /\ all[i] = a[i] /\ all[j] = a[j]
    BY <1>1, <1>2, ConcatAt
  <2> QED BY <1>1, <1>2, <2>1 DEF InsertsFirst
<1>3. CASE j - Len(a) \in DOMAIN b /\ j = Len(a) + (j - Len(a))
  <2>1. all[j] = b[j - Len(a)]
    BY <1>3, ConcatAt
  <2>2. CASE i \in DOMAIN a
    BY <1>1, <1>3, <2>1, <2>2, ConcatAt
  <2>3. CASE i - Len(a) \in DOMAIN b /\ i = Len(a) + (i - Len(a))
    <3>1. all[i] = b[i - Len(a)] /\ i - Len(a) < j - Len(a)
      BY <1>1, <1>3, <2>3, ConcatAt
    <3> QED BY <1>1, <1>3, <2>1, <2>3, <3>1 DEF InsertsFirst
  <2> QED BY <2>2, <2>3, ConcatAt
<1> QED BY <1>2, <1>3, ConcatAt

LEMMA InsertedConcat ==
  ASSUME NEW M, NEW a \in Seq(M), NEW b \in Seq(M)
  PROVE  InsertedBy(a \o b) = InsertedBy(a) \cup InsertedBy(b)
<1>1. ASSUME NEW t \in Tx, NEW i \in DOMAIN (a \o b), (a \o b)[i] = InsertTx(t)
      PROVE  t \in InsertedBy(a) \cup InsertedBy(b)
  <2>1. CASE i \in DOMAIN a
    BY <1>1, <2>1, ConcatAt DEF InsertedBy
  <2>2. CASE i - Len(a) \in DOMAIN b /\ i = Len(a) + (i - Len(a))
    BY <1>1, <2>2, ConcatAt DEF InsertedBy
  <2> QED BY <2>1, <2>2, ConcatAt
<1>2. ASSUME NEW t \in Tx, NEW i \in DOMAIN a, a[i] = InsertTx(t)
      PROVE  t \in InsertedBy(a \o b)
  <2>1. i \in DOMAIN (a \o b) /\ (a \o b)[i] = a[i]
    BY ConcatAt
  <2> QED BY <1>2, <2>1 DEF InsertedBy
<1>3. ASSUME NEW t \in Tx, NEW i \in DOMAIN b, b[i] = InsertTx(t)
      PROVE  t \in InsertedBy(a \o b)
  <2>1. Len(a) + i \in DOMAIN (a \o b) /\ (a \o b)[Len(a) + i] = b[i]
    BY ConcatAt
  <2> QED BY <1>3, <2>1 DEF InsertedBy
<1>4. InsertedBy(a \o b) \subseteq InsertedBy(a) \cup InsertedBy(b)
  BY <1>1 DEF InsertedBy
<1>5. InsertedBy(a) \subseteq InsertedBy(a \o b) /\ InsertedBy(b) \subseteq InsertedBy(a \o b)
  BY <1>2, <1>3 DEF InsertedBy
<1> QED BY <1>4, <1>5

\* Only pos itself is placed where the tips agree at pos.
LEMMA PlacedSelf ==
  ASSUME NEW pos \in Block, NEW x, Placed(x, pos, pos, {})
  PROVE  x = pos
BY DEF Placed

\* The first message applies at pos, or is of the backlog.
LEMMA AtPosHead ==
  ASSUME NEW msgs \in Seq(SafeActions), msgs # << >>, NEW pos, NEW to, AtPos(msgs, pos, to)
  PROVE  \E y \in Block :
           /\ AtPos(Tail(msgs), y, to)
           /\ \/ Moves(Head(msgs), pos, y)
              \/ /\ y = pos
                 /\ Head(msgs).event # "Disconnected"
                 /\ Head(msgs).event = "Connected" => Head(msgs).block \in Ancestors[pos]
<1>1. pos \in Block /\ LeadsOn(msgs, to, pos, pos, {})
  BY DEF AtPos
<1>2. CASE /\ pos = StartTip
           /\ CatchingUp(Tail(msgs), to, pos, pos)
           /\ Head(msgs).event # "Disconnected"
           /\ Head(msgs).event = "Connected" => Head(msgs).block \in Ancestors[StartTip]
  BY <1>1, <1>2 DEF AtPos, LeadsOn
<1>3. ASSUME NEW x \in Block, NEW y \in Block, Placed(x, pos, pos, {}), Moves(Head(msgs), x, y),
             Path(Tail(msgs), y, to)
      PROVE  AtPos(Tail(msgs), y, to) /\ Moves(Head(msgs), pos, y)
  <2>1. x = pos
    BY <1>1, <1>3, PlacedSelf
  <2>2. Placed(y, y, y, {})
    BY TipsAgree
  <2> QED BY <1>3, <2>1, <2>2 DEF AtPos, LeadsOn, OnPath
<1>4. \/ /\ pos = StartTip
         /\ CatchingUp(Tail(msgs), to, pos, pos)
         /\ Head(msgs).event # "Disconnected"
         /\ Head(msgs).event = "Connected" => Head(msgs).block \in Ancestors[StartTip]
      \/ \E x, y \in Block : /\ Placed(x, pos, pos, {})
                             /\ Moves(Head(msgs), x, y)
                             /\ Path(Tail(msgs), y, to)
  BY <1>1, LeadsOnHead
<1> QED BY <1>2, <1>3, <1>4

\* What the first message confirms, and what it takes back.
LEMMA HeadConfirms ==
  ASSUME NEW m \in SafeActions, NEW pos \in Block, NEW y \in Block,
         \/ Moves(m, pos, y)
         \/ /\ y = pos /\ m.event # "Disconnected"
            /\ m.event = "Connected" => m.block \in Ancestors[pos]
  PROVE  /\ m.event = "Connected" => BlockTxs[m.block] \subseteq Confirmed(y)
         /\ \A t \in Confirmed(pos) :
              t \in Confirmed(y) \/ (m.event = "Disconnected" /\ t \in BlockTxs[m.block])
<1>1. CASE m.event = "Connected" /\ Moves(m, pos, y)
  <2>1. m.block = y /\ Parent[y] = pos /\ Parent[y] # NoBlock
    BY <1>1, NoBlockAssumption DEF Moves
  <2>2. Ancestors[y] = {y} \cup Ancestors[pos]
    BY <2>1, AncestorsOfChild
  <2> QED BY <1>1, <2>1, <2>2 DEF Confirmed
<1>2. CASE m.event = "Disconnected" /\ Moves(m, pos, y)
  <2>1. m.block = pos /\ Parent[pos] = y /\ Parent[pos] # NoBlock
    BY <1>2, NoBlockAssumption DEF Moves
  <2>2. Ancestors[pos] = {pos} \cup Ancestors[y]
    BY <2>1, AncestorsOfChild
  <2> QED BY <1>2, <2>1, <2>2 DEF Confirmed
<1>3. CASE m.event \notin {"Connected", "Disconnected"}
  BY <1>3 DEF Moves
<1>4. CASE y = pos /\ m.event = "Connected" /\ m.block \in Ancestors[pos]
  BY <1>4 DEF Confirmed
<1> QED BY <1>1, <1>2, <1>3, <1>4

\* What is left when the first message has been applied.
LEMMA AfterHead ==
  ASSUME NEW msgs \in Seq(SafeActions), msgs # << >>, NEW txs,
         Truthful(msgs, txs), GivenBack(msgs), InsertsFirst(msgs)
  PROVE  /\ Truthful(Tail(msgs), txs) /\ GivenBack(Tail(msgs)) /\ InsertsFirst(Tail(msgs))
         /\ \A t : Silent(msgs, t) <=> Silent(Tail(msgs), t) /\ ~About(Head(msgs), t)
         /\ InsertedBy(Tail(msgs)) \subseteq InsertedBy(msgs)
         /\ \A t \in InsertedBy(msgs) : t \in InsertedBy(Tail(msgs)) \/ Head(msgs) = InsertTx(t)
         /\ Head(msgs).event # "InsertTx" => InsertedBy(msgs) = {}
         /\ \A t \in Tx : About(Head(msgs), t) /\ Silent(Tail(msgs), t) =>
                            (t \in txs <=> Head(msgs).event = "Added")
         /\ Head(msgs).event = "Disconnected" =>
              \A t \in BlockTxs[Head(msgs).block] : ~Silent(Tail(msgs), t)
<1> DEFINE rest == Tail(msgs)
<1>1. /\ 1 \in DOMAIN msgs /\ Head(msgs) = msgs[1] /\ DOMAIN msgs \subseteq Nat
      /\ \A i \in DOMAIN rest : /\ i \in Nat /\ i >= 1
                                /\ i + 1 \in DOMAIN msgs /\ rest[i] = msgs[i + 1]
      /\ \A i \in DOMAIN msgs : \/ i = 1
                                \/ i > 1 /\ i - 1 \in DOMAIN rest /\ msgs[i] = rest[i - 1]
  OBVIOUS
<1> HIDE DEF rest
<1>2. \A t : Silent(msgs, t) <=> Silent(rest, t) /\ ~About(msgs[1], t)
  BY <1>1 DEF Silent
<1>3. Truthful(rest, txs)
  <2>1. SUFFICES ASSUME NEW t \in Tx, NEW i \in DOMAIN rest, About(rest[i], t),
                        \A j \in DOMAIN rest : j > i => ~About(rest[j], t)
                 PROVE  t \in txs <=> rest[i].event = "Added"
    BY DEF Truthful
  <2>2. ASSUME NEW j \in DOMAIN msgs, j > i + 1 PROVE ~About(msgs[j], t)
    <3>1. j - 1 \in DOMAIN rest /\ msgs[j] = rest[j - 1] /\ j - 1 > i
      BY <1>1, <2>2
    <3> QED BY <2>1, <3>1
  <2>3. i + 1 \in DOMAIN msgs /\ rest[i] = msgs[i + 1]
    BY <1>1
  <2> QED BY <2>1, <2>2, <2>3 DEF Truthful
<1>4. GivenBack(rest)
  <2>1. SUFFICES ASSUME NEW i \in DOMAIN rest, rest[i].event = "Disconnected",
                        NEW t \in BlockTxs[rest[i].block]
                 PROVE  \E j \in DOMAIN rest : j > i /\ About(rest[j], t)
    BY DEF GivenBack
  <2>2. PICK j \in DOMAIN msgs : j > i + 1 /\ About(msgs[j], t)
    BY <1>1, <2>1 DEF GivenBack
  <2>3. j - 1 \in DOMAIN rest /\ msgs[j] = rest[j - 1] /\ j - 1 > i
    BY <1>1, <2>2
  <2> QED BY <2>2, <2>3
<1>5. InsertsFirst(rest)
  <2>1. ASSUME NEW i \in DOMAIN rest, NEW j \in DOMAIN rest, i < j
        PROVE  i + 1 < j + 1
    BY <1>1, <2>1
  <2> QED BY <1>1, <2>1 DEF InsertsFirst
<1>6. InsertedBy(rest) \subseteq InsertedBy(msgs)
  BY <1>1 DEF InsertedBy
<1>7. \A t \in InsertedBy(msgs) : t \in InsertedBy(rest) \/ msgs[1] = InsertTx(t)
  BY <1>1 DEF InsertedBy
<1>8. ASSUME msgs[1].event # "InsertTx", NEW t \in InsertedBy(msgs) PROVE FALSE
  <2>1. PICK i \in DOMAIN msgs : msgs[i] = InsertTx(t)
    BY DEF InsertedBy
  <2>2. msgs[i].event = "InsertTx"
    BY <2>1 DEF InsertTx
  <2>3. i = 1 \/ 1 < i
    BY <1>1
  <2> QED BY <1>1, <1>8, <2>2, <2>3 DEF InsertsFirst
<1>9. ASSUME NEW t \in Tx, About(msgs[1], t), Silent(rest, t)
      PROVE  t \in txs <=> msgs[1].event = "Added"
  <2>1. ASSUME NEW j \in DOMAIN msgs, j > 1 PROVE ~About(msgs[j], t)
    BY <1>1, <1>9, <2>1 DEF Silent
  <2> QED BY <1>1, <1>9, <2>1 DEF Truthful
<1>10. ASSUME msgs[1].event = "Disconnected", NEW t \in BlockTxs[msgs[1].block]
       PROVE  ~Silent(rest, t)
  <2>1. PICK j \in DOMAIN msgs : j > 1 /\ About(msgs[j], t)
    BY <1>1, <1>10 DEF GivenBack
  <2>2. j - 1 \in DOMAIN rest /\ msgs[j] = rest[j - 1]
    BY <1>1, <2>1
  <2> QED BY <2>1, <2>2 DEF Silent
<1>11. InsertedBy(msgs) = {} \/ msgs[1].event = "InsertTx"
  BY <1>8
<1> QED BY <1>1, <1>2, <1>3, <1>4, <1>5, <1>6, <1>7, <1>9, <1>10, <1>11 DEF rest

\* When the first message has been applied, what is held is held with reason, if
\* it is what was held before, but for the tx that the message tells of.
LEMMA HeldAfterHead ==
  ASSUME NEW msgs \in Seq(SafeActions), msgs # << >>, NEW txs, NEW pos, NEW to,
         Truthful(msgs, txs), GivenBack(msgs), InsertsFirst(msgs), AtPos(msgs, pos, to),
         NEW kept, NEW keeps,
         HeldOK(msgs, kept \cup InsertedBy(msgs), txs, pos),
         \A t \in keeps \ kept : Head(msgs).event \in {"InsertTx", "Added"} /\ Head(msgs).tx = t,
         Head(msgs).event = "Removed" => Head(msgs).tx \notin keeps
  PROVE  \E y : /\ AtPos(Tail(msgs), y, to)
                /\ HeldOK(Tail(msgs), keeps \cup InsertedBy(Tail(msgs)), txs, y)
<1> DEFINE m == Head(msgs)
<1>1. m \in SafeActions
  BY HeadTailProperties
<1>2. PICK y \in Block :
        /\ AtPos(Tail(msgs), y, to)
        /\ \/ Moves(m, pos, y)
           \/ /\ y = pos /\ m.event # "Disconnected"
              /\ m.event = "Connected" => m.block \in Ancestors[pos]
  BY AtPosHead
<1>3. /\ m.event = "Connected" => BlockTxs[m.block] \subseteq Confirmed(y)
      /\ \A t \in Confirmed(pos) :
           t \in Confirmed(y) \/ (m.event = "Disconnected" /\ t \in BlockTxs[m.block])
  BY <1>1, <1>2, HeadConfirms DEF AtPos
<1>4. ASSUME NEW t \in Tx, Silent(Tail(msgs), t), t \in keeps \cup InsertedBy(Tail(msgs))
      PROVE  t \in txs \cup Confirmed(y)
  <2>1. CASE About(m, t)
    <3>1. t \in txs <=> m.event = "Added"
      BY <1>4, <2>1, AfterHead
    <3>2. CASE m.event = "Removed" /\ m.tx = t
      <4>1. t \in InsertedBy(Tail(msgs))
        BY <1>4, <3>2
      <4> QED BY <3>2, <4>1, AfterHead
    <3> QED BY <1>3, <2>1, <3>1, <3>2 DEF About
  <2>2. CASE ~About(m, t)
    <3>1. Silent(msgs, t)
      BY <1>4, <2>2, AfterHead
    <3>2. t \in kept \cup InsertedBy(msgs)
      <4>1. CASE t \in InsertedBy(Tail(msgs)) \/ t \in kept
        BY <4>1, AfterHead
      <4>2. CASE t \in keeps \ kept
        <5>1. m.event = "InsertTx" /\ m.tx = t
          BY <2>2, <4>2 DEF About
        <5>2. m = InsertTx(t)
          BY <1>1, <5>1 DEF SafeActions, NodeMsgs, InsertTx
        <5>3. 1 \in DOMAIN msgs /\ msgs[1] = m
          OBVIOUS
        <5> QED BY <5>2, <5>3 DEF InsertedBy
      <4> QED BY <1>4, <4>1, <4>2
    <3>3. t \in txs \cup Confirmed(pos)
      BY <3>1, <3>2 DEF HeldOK
    <3>4. ~(m.event = "Disconnected" /\ t \in BlockTxs[m.block])
      BY <1>4, AfterHead
    <3> QED BY <1>3, <3>3, <3>4
  <2> QED BY <2>1, <2>2
<1> QED BY <1>2, <1>4 DEF HeldOK

\* One message for each tx of a set tells of these txs and of no other.
LEMMA TxMsgsTell ==
  ASSUME NEW S \in SUBSET Tx, NEW o \in SetToSeqs(S), NEW n \in Nat
  PROVE  LET added == [i \in DOMAIN o |-> AddedMsg(o[i], n + i - 1)]
             removed == [i \in DOMAIN o |-> RemovedMsg(o[i], n + i - 1)]
         IN  /\ \A i \in DOMAIN added : added[i].event = "Added" /\ added[i].tx \in S
             /\ \A i \in DOMAIN removed : removed[i].event = "Removed" /\ removed[i].tx \in S
             /\ \A t : Silent(added, t) <=> t \notin S
             /\ \A t : Silent(removed, t) <=> t \notin S
<1> DEFINE added == [i \in DOMAIN o |-> AddedMsg(o[i], n + i - 1)]
           removed == [i \in DOMAIN o |-> RemovedMsg(o[i], n + i - 1)]
<1>1. /\ \A i \in DOMAIN o : o[i] \in S
      /\ \A t \in S : \E i \in DOMAIN o : o[i] = t
  BY OrdersHoldAll DEF ToSet
<1>2. /\ DOMAIN added = DOMAIN o /\ DOMAIN removed = DOMAIN o
      /\ \A i \in DOMAIN o : added[i].event = "Added" /\ added[i].tx = o[i]
      /\ \A i \in DOMAIN o : removed[i].event = "Removed" /\ removed[i].tx = o[i]
  BY DEF AddedMsg, RemovedMsg
<1> HIDE DEF added, removed
<1>3. \A t : Silent(added, t) <=> t \notin S
  BY <1>1, <1>2 DEF Silent, About
<1>4. \A t : Silent(removed, t) <=> t \notin S
  BY <1>1, <1>2 DEF Silent, About
<1>5. /\ \A i \in DOMAIN added : added[i].event = "Added" /\ added[i].tx \in S
      /\ \A i \in DOMAIN removed : removed[i].event = "Removed" /\ removed[i].tx \in S
      /\ \A t : Silent(added, t) <=> t \notin S
      /\ \A t : Silent(removed, t) <=> t \notin S
  BY <1>1, <1>2, <1>3, <1>4
<1> QED BY <1>5 DEF added, removed

\* The messages of one step of the node.
Published(s) ==
  /\ zmq' = zmq \o s
  /\ Path(s, node_tip, node_tip')
  /\ Tells(s, node_txs, node_txs')
  /\ GivenBack(s)

\* A disconnected tip is followed by its txs.
LEMMA DisconnectTipTells ==
  ASSUME NodeOK, DisconnectTip
  PROVE  \E s \in Seq(NodeMsgs) : Published(s)
<1> DEFINE m == DisconnectedMsg(node_tip)
           S == BlockTxs[node_tip]
<1>1. /\ node_tip' = Parent[node_tip] /\ Parent[node_tip] # NoBlock
      /\ node_tip \in Block /\ zmq \in Seq(NodeMsgs) /\ node_seq \in Nat
      /\ S \in SUBSET Tx /\ node_txs' = node_txs \cup S
  BY BlockTxsAssumption DEF DisconnectTip, NodeOK
<1>2. PICK o \in SetToSeqs(S) :
        zmq' = Append(zmq, m) \o [i \in DOMAIN o |-> AddedMsg(o[i], node_seq + i - 1)]
  BY DEF DisconnectTip, TopologicalOrders
<1> DEFINE added == [i \in DOMAIN o |-> AddedMsg(o[i], node_seq + i - 1)]
<1>3. node_tip' \in Block
  BY <1>1, ParentAssumption
<1>4. added \in Seq(NodeMsgs) /\ Path(added, node_tip', node_tip')
  BY <1>1, <1>3, RemovedMsgs, TxMsgsStay
<1>5. m \in NodeMsgs /\ m.event = "Disconnected" /\ m.block = node_tip
  BY <1>1, Messages DEF DisconnectedMsg
<1>6. Path(<<m>>, node_tip, node_tip')
  BY <1>1, <1>3, PathOne DEF Moves, DisconnectedMsg
<1> HIDE DEF m, S
<1>7. /\ \A i \in DOMAIN added : added[i].event = "Added" /\ added[i].tx \in S
      /\ \A t : Silent(added, t) <=> t \notin S
  BY <1>1, TxMsgsTell
<1> HIDE DEF added
<1> DEFINE s == <<m>> \o added
<1>8. <<m>> \in Seq(NodeMsgs) /\ s \in Seq(NodeMsgs)
  BY <1>4, <1>5, ConcatProperties
<1>9. Path(s, node_tip, node_tip')
  BY <1>4, <1>6, <1>8, PathConcat
<1>10. zmq' = zmq \o s
  <2>1. zmq' = Append(zmq, m) \o added
    BY <1>2 DEF added
  <2>2. Append(zmq, m) = zmq \o <<m>>
    BY <1>1, <1>5
  <2> QED BY <1>1, <1>4, <1>8, <2>1, <2>2, ConcatAssociative
<1>11. /\ 1 \in DOMAIN s /\ s[1] = m
       /\ \A i \in DOMAIN s : i = 1 \/ (i - 1 \in DOMAIN added /\ s[i] = added[i - 1])
       /\ \A i \in DOMAIN added : i + 1 \in DOMAIN s /\ s[i + 1] = added[i] /\ i + 1 > 1
  BY <1>4, <1>5
<1>12. \A t : Silent(s, t) <=> t \notin S
  <2>1. \A t : ~About(m, t)
    BY <1>5 DEF About
  <2> QED BY <1>7, <1>11, <2>1 DEF Silent
<1> HIDE DEF s
<1>13. ASSUME NEW i \in DOMAIN s, NEW t \in Tx, About(s[i], t)
       PROVE  t \in node_txs' /\ s[i].event = "Added"
  <2>1. i # 1
    BY <1>5, <1>11, <1>13 DEF About
  <2>2. s[i].event = "Added" /\ s[i].tx \in S
    BY <1>7, <1>11, <2>1
  <2> QED BY <1>1, <1>13, <2>2 DEF About
<1>14. Tells(s, node_txs, node_txs')
  BY <1>1, <1>12, <1>13 DEF Tells
<1>15. GivenBack(s)
  <2>1. SUFFICES ASSUME NEW i \in DOMAIN s, s[i].event = "Disconnected",
                        NEW t \in BlockTxs[s[i].block]
                 PROVE  \E j \in DOMAIN s : j > i /\ About(s[j], t)
    BY DEF GivenBack
  <2>2. i = 1 /\ t \in S
    BY <1>5, <1>7, <1>11, <2>1 DEF S
  <2>3. PICK j \in DOMAIN added : About(added[j], t)
    BY <1>7, <2>2 DEF Silent
  <2> QED BY <1>11, <2>2, <2>3
<1> QED BY <1>8, <1>9, <1>10, <1>14, <1>15 DEF Published, s

\* What the node publishes leads from its old tip to its new one, and tells how
\* its mempool has changed.
LEMMA NodeTells ==
  ASSUME NodeOK, NodeNext
  PROVE  \E s \in Seq(NodeMsgs) : Published(s)
<1>1. node_tip \in Block /\ zmq \in Seq(NodeMsgs) /\ node_seq \in Nat /\ node_txs \in SUBSET Tx
  BY DEF NodeOK
<1>2. ASSUME NEW m \in NodeMsgs, zmq' = Append(zmq, m), node_tip' \in Block,
             Moves(m, node_tip, node_tip'), m.event # "Disconnected",
             \A t \in Tx : IF About(m, t) THEN t \in node_txs' <=> m.event = "Added"
                           ELSE t \in node_txs <=> t \in node_txs'
      PROVE  \E s \in Seq(NodeMsgs) : Published(s)
  <2> DEFINE s == <<m>>
  <2>1. s \in Seq(NodeMsgs) /\ DOMAIN s = {1} /\ s[1] = m
    OBVIOUS
  <2>2. zmq' = zmq \o s
    BY <1>1, <1>2
  <2>3. Path(s, node_tip, node_tip')
    BY <1>1, <1>2, PathOne
  <2> HIDE DEF s
  <2>4. Tells(s, node_txs, node_txs') /\ GivenBack(s)
    BY <1>2, <2>1 DEF Tells, Silent, GivenBack
  <2> QED BY <2>1, <2>2, <2>3, <2>4 DEF Published
<1>3. ASSUME NEW x \in Tx, NodeAddTx(x)
      PROVE  \E s \in Seq(NodeMsgs) : Published(s)
  <2> DEFINE m == AddedMsg(x, node_seq)
  <2>1. /\ m \in NodeMsgs /\ m.event = "Added"
        /\ Moves(m, node_tip, node_tip) /\ \A t : About(m, t) <=> t = x
    BY <1>1, Messages DEF AddedMsg, Moves, About
  <2>2. zmq' = Append(zmq, m) /\ node_tip' = node_tip /\ node_txs' = node_txs \cup {x}
    BY <1>3 DEF NodeAddTx
  <2> HIDE DEF m
  <2> QED BY <1>1, <1>2, <2>1, <2>2
<1>4. ASSUME NEW b \in Block, NodeConnect(b)
      PROVE  \E s \in Seq(NodeMsgs) : Published(s)
  <2> DEFINE m == ConnectedMsg(b)
  <2>1. /\ zmq' = Append(zmq, m) /\ node_tip' = b /\ Parent[b] = node_tip
        /\ node_txs' = node_txs \ BlockTxs[b]
    BY <1>4 DEF NodeConnect
  <2>2. /\ m \in NodeMsgs /\ m.event = "Connected"
        /\ Moves(m, node_tip, b) /\ \A t : About(m, t) <=> t \in BlockTxs[b]
    BY <2>1, Messages DEF ConnectedMsg, Moves, About
  <2> HIDE DEF m
  <2> QED BY <1>1, <1>2, <2>1, <2>2
<1>5. ASSUME NEW x \in Tx, NodeRemoveTx(x)
      PROVE  \E s \in Seq(NodeMsgs) : Published(s)
  <2> DEFINE gone == {x} \cup DescendantsIn(node_txs, {x})
  <2>1. gone \in SUBSET Tx
    BY DEF DescendantsIn, LeastClosed, NodeOK
  <2>2. /\ node_tip' = node_tip /\ node_txs' = node_txs \ gone
        /\ \E order \in SetToSeqs(gone) :
             zmq' = zmq \o [i \in DOMAIN order |-> RemovedMsg(order[i], node_seq + i - 1)]
    BY <1>5 DEF NodeRemoveTx
  <2> HIDE DEF gone
  <2>3. PICK o \in SetToSeqs(gone) :
          zmq' = zmq \o [i \in DOMAIN o |-> RemovedMsg(o[i], node_seq + i - 1)]
    BY <2>2
  <2> DEFINE s == [i \in DOMAIN o |-> RemovedMsg(o[i], node_seq + i - 1)]
  <2>4. s \in Seq(NodeMsgs) /\ Path(s, node_tip, node_tip)
    BY <1>1, <2>1, RemovedMsgs, TxMsgsStay
  <2>5. /\ \A i \in DOMAIN s : s[i].event = "Removed" /\ s[i].tx \in gone
        /\ \A t : Silent(s, t) <=> t \notin gone
    BY <1>1, <2>1, TxMsgsTell
  <2>6. zmq' = zmq \o s
    BY <2>3
  <2> HIDE DEF s
  <2>7. Tells(s, node_txs, node_txs') /\ GivenBack(s)
    BY <2>2, <2>5 DEF Tells, GivenBack, About
  <2> QED BY <2>2, <2>4, <2>6, <2>7 DEF Published
<1>6. ASSUME NodeInvalidateTip
      PROVE  \E s \in Seq(NodeMsgs) : Published(s)
  <2>1. /\ zmq' = zmq \o << >> /\ node_tip' = node_tip /\ node_txs' = node_txs
        /\ << >> \in Seq(NodeMsgs) /\ DOMAIN << >> = {}
    BY <1>1, <1>6 DEF NodeInvalidateTip
  <2>2. Tells(<< >>, node_txs, node_txs') /\ GivenBack(<< >>)
    BY <2>1 DEF Tells, GivenBack
  <2> QED BY <1>1, <2>1, <2>2, PathEmpty DEF Published
<1> QED BY <1>3, <1>4, <1>5, <1>6, DisconnectTipTells DEF NodeNext, NodeReorg, NodeInvalidates

\* Messages in front that tell nothing change nothing of what is told.
LEMMA TruthfulInserts ==
  ASSUME NEW M, NEW ins \in Seq(M), NEW msgs \in Seq(M), NEW txs, Truthful(msgs, txs),
         \A t : Silent(ins, t)
  PROVE  Truthful(ins \o msgs, txs)
<1> DEFINE all == ins \o msgs
<1>1. SUFFICES ASSUME NEW t \in Tx, NEW i \in DOMAIN all, About(all[i], t),
                      \A j \in DOMAIN all : j > i => ~About(all[j], t)
               PROVE  t \in txs <=> all[i].event = "Added"
  BY DEF Truthful
<1>2. CASE i \in DOMAIN ins
  <2>1. all[i] = ins[i]
    BY <1>2, ConcatAt
  <2> QED BY <1>1, <1>2, <2>1 DEF Silent
<1>3. CASE i - Len(ins) \in DOMAIN msgs /\ i = Len(ins) + (i - Len(ins))
  <2>1. all[i] = msgs[i - Len(ins)]
    BY <1>3, ConcatAt
  <2>2. ASSUME NEW j \in DOMAIN msgs, j > i - Len(ins) PROVE ~About(msgs[j], t)
    <3>1. Len(ins) + j \in DOMAIN all /\ all[Len(ins) + j] = msgs[j] /\ Len(ins) + j > i
      BY <1>3, <2>2, ConcatAt
    <3> QED BY <1>1, <3>1
  <2> QED BY <1>1, <1>3, <2>1, <2>2 DEF Truthful
<1> QED BY <1>2, <1>3, ConcatAt

\* Txs in any order, inserted: they tell nothing of the node.
LEMMA InsertsTell ==
  ASSUME NEW S \in SUBSET Tx, NEW o \in SetToSeqs(S)
  PROVE  LET ins == [i \in DOMAIN o |-> InsertTx(o[i])]
         IN  /\ ins \in Seq(SafeActions)
             /\ \A i \in DOMAIN ins : IsTxMsg(ins[i]) /\ ins[i].event = "InsertTx"
             /\ \A t : Silent(ins, t)
             /\ GivenBack(ins) /\ InsertsFirst(ins)
             /\ InsertedBy(ins) = S
<1> DEFINE ins == [i \in DOMAIN o |-> InsertTx(o[i])]
<1>1. /\ \A i \in DOMAIN o : o[i] \in S
      /\ \A t \in S : \E i \in DOMAIN o : o[i] = t
  BY OrdersHoldAll DEF ToSet
<1>2. /\ DOMAIN ins = DOMAIN o
      /\ \A i \in DOMAIN o : ins[i].event = "InsertTx" /\ ins[i] = InsertTx(o[i])
      /\ \A t, u : InsertTx(t) = InsertTx(u) => t = u
  BY DEF InsertTx
<1>3. ins \in Seq(SafeActions)
  BY InsertTxs
<1> HIDE DEF ins
<1>4. \A t : Silent(ins, t)
  BY <1>2 DEF Silent, About
<1>5. GivenBack(ins) /\ InsertsFirst(ins)
  BY <1>2 DEF GivenBack, InsertsFirst
<1>6. InsertedBy(ins) = S
  BY <1>1, <1>2 DEF InsertedBy
<1>7. \A i \in DOMAIN ins : IsTxMsg(ins[i]) /\ ins[i].event = "InsertTx"
  BY <1>2 DEF IsTxMsg
<1>8. /\ ins \in Seq(SafeActions)
      /\ \A i \in DOMAIN ins : IsTxMsg(ins[i]) /\ ins[i].event = "InsertTx"
      /\ \A t : Silent(ins, t)
      /\ GivenBack(ins) /\ InsertsFirst(ins)
      /\ InsertedBy(ins) = S
  BY <1>3, <1>4, <1>5, <1>6, <1>7
<1> QED BY <1>8 DEF ins

\* The backlog tells of confirmed txs, which the node's mempool does not hold.
LEMMA InitMirror ==
  ASSUME Init PROVE MirrorOK
<1>1. /\ node_tip = StartTip /\ node_txs = StartTxs /\ phase = "snapshot"
      /\ unfiltered_txs = {} /\ mempool = {} /\ DOMAIN abandoned_pool = {}
      /\ action_queue = << >> /\ NodeInit
  BY DEF Init, NodeInit, EmptyPool
<1>2. zmq \in Seq(NodeMsgs) /\ zmq \in Seq(SafeActions)
  BY <1>1, NodeInitOK DEF NodeOK, SafeActions
<1>3. Unapplied = zmq
  BY <1>1, <1>2 DEF Unapplied
<1>4. /\ \A i \in DOMAIN zmq : /\ zmq[i].event = "Connected"
                               /\ zmq[i].block \in Ancestors[StartTip]
  BY <1>1, BacklogBelowStart
<1>5. Truthful(zmq, node_txs)
  <2>1. ASSUME NEW t \in Tx, NEW i \in DOMAIN zmq, About(zmq[i], t)
        PROVE  t \notin node_txs /\ zmq[i].event # "Added"
    <3>1. t \in Confirmed(StartTip)
      BY <1>4, <2>1 DEF About, Confirmed
    <3> QED BY <1>1, <1>4, <3>1, StartTxsAssumption
  <2> QED BY <2>1 DEF Truthful
<1>6. GivenBack(zmq) /\ InsertsFirst(zmq)
  BY <1>4 DEF GivenBack, InsertsFirst
<1>7. InsertedBy(zmq) = {}
  BY <1>4 DEF InsertedBy, InsertTx
<1>8. AtPos(zmq, StartTip, node_tip)
  <2>1. Backlog(zmq) /\ zmq = zmq \o << >> /\ << >> \in Seq(SafeActions)
    BY <1>2, <1>4 DEF Backlog
  <2>2. Path(<< >>, StartTip, node_tip)
    BY <1>1, PathEmpty, StartAssumption
  <2>3. CatchingUp(zmq, node_tip, StartTip, StartTip)
    BY <1>2, <2>1, <2>2 DEF CatchingUp
  <2> QED BY <2>3, StartAssumption DEF AtPos, LeadsOn
<1>9. HeldOK(zmq, Kept \cup InsertedBy(zmq), node_txs, StartTip)
  BY <1>1, <1>7 DEF HeldOK, Kept
<1> QED BY <1>1, <1>3, <1>5, <1>6, <1>8, <1>9 DEF MirrorOK

\* What most steps leave alone.
LEMMA MirrorFrame ==
  ASSUME MirrorOK, phase' # "snapshot" => phase # "snapshot",
         UNCHANGED <<node_tip, node_txs, zmq, action_queue, unfiltered_txs, mempool,
                     abandoned_pool>>
  PROVE  MirrorOK'
<1>1. Unapplied' = Unapplied /\ Kept' = Kept
  BY DEF Unapplied, Kept
<1> QED BY <1>1 DEF MirrorOK

\* The node tells what it does.
LEMMA NodeStepMirror ==
  ASSUME IInv, MirrorOK, NodeStep PROVE MirrorOK'
<1>1. /\ UNCHANGED <<action_queue, unfiltered_txs, mempool, abandoned_pool, phase>>
      /\ NodeNext /\ NodeOK
  BY DEF NodeStep, innerVars, syncVars, IInv
<1>2. PICK s \in Seq(NodeMsgs) : Published(s)
  BY <1>1, NodeTells
<1>3. s \in Seq(SafeActions) /\ Unapplied \in Seq(SafeActions)
  BY UnappliedActions DEF SafeActions, Unapplied
<1>4. Unapplied' = Unapplied \o s
  BY <1>1, <1>2, <1>3, UnappliedActions, ConcatAssociative DEF Published, Unapplied
<1>5. \A i \in DOMAIN s : s[i].event # "InsertTx"
  BY DEF NodeMsgs
<1>6. InsertsFirst(s) /\ InsertedBy(s) = {}
  BY <1>5 DEF InsertsFirst, InsertedBy, InsertTx
<1> DEFINE msgs == Unapplied
<1>7. /\ Truthful(msgs, node_txs) /\ GivenBack(msgs) /\ InsertsFirst(msgs)
      /\ Tells(s, node_txs, node_txs') /\ GivenBack(s) /\ Path(s, node_tip, node_tip')
  BY <1>2 DEF MirrorOK, Published
<1>8. Kept' = Kept
  BY <1>1 DEF Kept
<1>9. PICK pos : /\ AtPos(msgs, pos, node_tip)
                 /\ HeldOK(msgs, Kept \cup InsertedBy(msgs), node_txs, pos)
  BY DEF MirrorOK
<1>10. phase # "snapshot" =>
         \A t \in Tx : Silent(msgs, t) /\ t \in node_txs =>
                         t \in unfiltered_txs \cup InsertedBy(msgs)
  BY DEF MirrorOK
<1>11. msgs \in Seq(SafeActions) /\ Unapplied' = msgs \o s
  BY <1>3, <1>4
<1> HIDE DEF msgs
<1>12. /\ Truthful(msgs \o s, node_txs') /\ GivenBack(msgs \o s) /\ InsertsFirst(msgs \o s)
  BY <1>3, <1>5, <1>6, <1>7, <1>11, TruthfulAppend, GivenBackAppend, InsertsFirstAppend
<1>13. InsertedBy(msgs \o s) = InsertedBy(msgs)
  <2>1. InsertedBy(msgs \o s) = InsertedBy(msgs) \cup InsertedBy(s)
    BY <1>3, <1>11, InsertedConcat
  <2> QED BY <1>6, <2>1
<1>14. \A t : Silent(msgs \o s, t) <=> Silent(msgs, t) /\ Silent(s, t)
  BY <1>3, <1>11, SilentConcat
<1>15. \A t \in Tx : Silent(s, t) => (t \in node_txs <=> t \in node_txs')
  BY <1>7 DEF Tells
<1>16. AtPos(msgs \o s, pos, node_tip')
  BY <1>3, <1>7, <1>9, <1>11, LeadsOnAppend DEF AtPos
<1>17. HeldOK(msgs \o s, Kept' \cup InsertedBy(msgs \o s), node_txs', pos)
  BY <1>8, <1>9, <1>13, <1>14, <1>15 DEF HeldOK
<1>18. phase' # "snapshot" =>
         \A t \in Tx : Silent(msgs \o s, t) /\ t \in node_txs' =>
                         t \in unfiltered_txs' \cup InsertedBy(msgs \o s)
  BY <1>1, <1>10, <1>13, <1>14, <1>15
<1>19. (MirrorOK)' <=> 
         /\ Truthful(Unapplied', node_txs') /\ GivenBack(Unapplied') /\ InsertsFirst(Unapplied')
         /\ phase' # "snapshot" =>
              \A t \in Tx : Silent(Unapplied', t) /\ t \in node_txs' =>
                              t \in unfiltered_txs' \cup InsertedBy(Unapplied')
         /\ \E x : /\ AtPos(Unapplied', x, node_tip')
                   /\ HeldOK(Unapplied', Kept' \cup InsertedBy(Unapplied'), node_txs', x)
  BY DEF MirrorOK
<1> QED BY <1>11, <1>12, <1>16, <1>17, <1>18, <1>19

\* Txs that are kept, or of the snapshot, are to be inserted before all else.
LEMMA InsertedMirror ==
  ASSUME IInv, MirrorOK, NEW S \in SUBSET Tx, NEW o \in SetToSeqs(S),
         Unapplied' = [i \in DOMAIN o |-> InsertTx(o[i])] \o Unapplied,
         S \subseteq Kept \cup InsertedBy(Unapplied) \cup node_txs,
         DOMAIN abandoned_pool' \subseteq DOMAIN abandoned_pool,
         UNCHANGED <<node_tip, node_txs, unfiltered_txs, mempool>>,
         phase' # "snapshot" => phase # "snapshot" \/ node_txs \subseteq S
  PROVE  MirrorOK'
<1> DEFINE ins == [i \in DOMAIN o |-> InsertTx(o[i])]
           msgs == Unapplied
<1>1. /\ ins \in Seq(SafeActions)
      /\ \A i \in DOMAIN ins : IsTxMsg(ins[i]) /\ ins[i].event = "InsertTx"
      /\ \A t : Silent(ins, t)
      /\ GivenBack(ins) /\ InsertsFirst(ins)
      /\ InsertedBy(ins) = S
  BY InsertsTell
<1>2. msgs \in Seq(SafeActions) /\ Unapplied' = ins \o msgs
  BY UnappliedActions DEF Unapplied
<1>3. Truthful(msgs, node_txs) /\ GivenBack(msgs) /\ InsertsFirst(msgs)
  BY DEF MirrorOK
<1>4. PICK pos : /\ AtPos(msgs, pos, node_tip)
                 /\ HeldOK(msgs, Kept \cup InsertedBy(msgs), node_txs, pos)
  BY DEF MirrorOK
<1>5. phase # "snapshot" =>
        \A t \in Tx : Silent(msgs, t) /\ t \in node_txs =>
                        t \in unfiltered_txs \cup InsertedBy(msgs)
  BY DEF MirrorOK
<1>6. S \subseteq Kept \cup InsertedBy(msgs) \cup node_txs /\ Kept' \subseteq Kept
  BY DEF Kept
<1> HIDE DEF ins, msgs
<1>7. /\ Truthful(ins \o msgs, node_txs) /\ GivenBack(ins \o msgs) /\ InsertsFirst(ins \o msgs)
  BY <1>1, <1>2, <1>3, TruthfulInserts, GivenBackAppend, InsertsFirstAppend
<1>8. InsertedBy(ins \o msgs) = S \cup InsertedBy(msgs)
  <2>1. InsertedBy(ins \o msgs) = InsertedBy(ins) \cup InsertedBy(msgs)
    BY <1>1, <1>2, InsertedConcat
  <2> QED BY <1>1, <2>1
<1>9. \A t : Silent(ins \o msgs, t) <=> Silent(msgs, t)
  BY <1>1, <1>2, SilentConcat
<1>10. AtPos(ins \o msgs, pos, node_tip)
  BY <1>1, <1>2, <1>4, LeadsOnInserts DEF AtPos
<1>11. HeldOK(ins \o msgs, Kept' \cup InsertedBy(ins \o msgs), node_txs, pos)
  BY <1>4, <1>6, <1>8, <1>9 DEF HeldOK
<1>12. phase' # "snapshot" =>
         \A t \in Tx : Silent(ins \o msgs, t) /\ t \in node_txs =>
                         t \in unfiltered_txs \cup InsertedBy(ins \o msgs)
  BY <1>5, <1>8, <1>9
<1>13. /\ Truthful(Unapplied', node_txs') /\ GivenBack(Unapplied') /\ InsertsFirst(Unapplied')
       /\ phase' # "snapshot" =>
            \A t \in Tx : Silent(Unapplied', t) /\ t \in node_txs' =>
                            t \in unfiltered_txs' \cup InsertedBy(Unapplied')
       /\ AtPos(Unapplied', pos, node_tip')
       /\ HeldOK(Unapplied', Kept' \cup InsertedBy(Unapplied'), node_txs', pos)
  BY <1>2, <1>7, <1>10, <1>11, <1>12
<1> QED BY <1>13 DEF MirrorOK

\* An action is applied: it brings in no tx but its own, which it brings into
\* the unfiltered view, or takes out everywhere.
LEMMA AppliedMirror ==
  ASSUME IInv, MirrorOK, action_queue # << >>, phase # "snapshot", Applied,
         \A t \in Kept' \ Kept : HeadAction.event \in {"InsertTx", "Added"} /\ HeadAction.tx = t,
         \A t \in unfiltered_txs \ unfiltered_txs' : About(HeadAction, t),
         HeadAction.event \in {"InsertTx", "Added"} => HeadAction.tx \in unfiltered_txs',
         HeadAction.event = "Removed" => HeadAction.tx \notin Kept'
  PROVE  MirrorOK'
<1> DEFINE msgs == Unapplied
           rest == Tail(msgs)
<1>1. /\ msgs \in Seq(SafeActions) /\ msgs # << >> /\ Head(msgs) = HeadAction
      /\ Unapplied' = rest
  BY UnappliedActions, ConsumesHead DEF Unapplied
<1>2. /\ UNCHANGED <<node_tip, node_txs>> /\ phase' # "snapshot"
  BY DEF Applied, nodeVars
<1>3. Truthful(msgs, node_txs) /\ GivenBack(msgs) /\ InsertsFirst(msgs)
  BY DEF MirrorOK
<1>4. PICK pos : /\ AtPos(msgs, pos, node_tip)
                 /\ HeldOK(msgs, Kept \cup InsertedBy(msgs), node_txs, pos)
  BY DEF MirrorOK
<1>5. \A t \in Tx : Silent(msgs, t) /\ t \in node_txs =>
                      t \in unfiltered_txs \cup InsertedBy(msgs)
  BY DEF MirrorOK
<1> HIDE DEF msgs
<1>6. Truthful(rest, node_txs) /\ GivenBack(rest) /\ InsertsFirst(rest)
  BY <1>1, <1>3, AfterHead
<1> DEFINE keeps == Kept'
<1>7. \E y : /\ AtPos(rest, y, node_tip)
             /\ HeldOK(rest, keeps \cup InsertedBy(rest), node_txs, y)
  <2>1. /\ \A t \in keeps \ Kept : Head(msgs).event \in {"InsertTx", "Added"} /\ Head(msgs).tx = t
        /\ Head(msgs).event = "Removed" => Head(msgs).tx \notin keeps
    BY <1>1
  <2> HIDE DEF keeps
  <2> QED BY <1>1, <1>3, <1>4, <2>1, HeldAfterHead
<1>8. ASSUME NEW t \in Tx, Silent(rest, t), t \in node_txs
      PROVE  t \in unfiltered_txs' \cup InsertedBy(rest)
  <2>1. CASE About(Head(msgs), t)
    <3>1. Head(msgs).event = "Added"
      BY <1>1, <1>3, <1>8, <2>1, AfterHead
    <3> QED BY <1>1, <2>1, <3>1 DEF About
  <2>2. CASE ~About(Head(msgs), t)
    <3>1. Silent(msgs, t)
      BY <1>1, <1>3, <1>8, <2>2, AfterHead
    <3>2. CASE t \in unfiltered_txs
      BY <1>1, <2>2, <3>2
    <3>3. CASE t \in InsertedBy(msgs)
      <4>1. t \in InsertedBy(rest) \/ Head(msgs) = InsertTx(t)
        BY <1>1, <1>3, <3>3, AfterHead
      <4> QED BY <1>1, <4>1 DEF InsertTx
    <3> QED BY <1>5, <1>8, <3>1, <3>2, <3>3
  <2> QED BY <2>1, <2>2
<1>9. /\ Truthful(Unapplied', node_txs') /\ GivenBack(Unapplied') /\ InsertsFirst(Unapplied')
      /\ phase' # "snapshot" =>
           \A t \in Tx : Silent(Unapplied', t) /\ t \in node_txs' =>
                           t \in unfiltered_txs' \cup InsertedBy(Unapplied')
      /\ \E y : /\ AtPos(Unapplied', y, node_tip')
                /\ HeldOK(Unapplied', Kept' \cup InsertedBy(Unapplied'), node_txs', y)
  BY <1>1, <1>2, <1>6, <1>7, <1>8
<1> QED BY <1>9 DEF MirrorOK

\* Restored txs come from the pool, which does not grow.
LEMMA RestoredFromPool ==
  ASSUME NEW pool, DOMAIN pool \in SUBSET Tx, NEW t, NEW block, NEW S
  PROVE  /\ \A o \in RestoreOrders(pool, t) : \E T \in SUBSET DOMAIN pool : o \in SetToSeqs(T)
         /\ \A o \in BlockRestoreOrders(pool, block) :
              \E T \in SUBSET DOMAIN pool : o \in SetToSeqs(T)
         /\ DOMAIN PoolAfterRestore(pool, S) \subseteq DOMAIN pool
<1>1. \A T : PoolRestored(pool, T) \in SUBSET DOMAIN pool
  BY DEF PoolRestored, LeastClosed
<1>2. DOMAIN PoolAfterRestore(pool, S) \subseteq DOMAIN pool
  BY DEF PoolAfterRestore
<1> QED BY <1>1, <1>2 DEF RestoreOrders, BlockRestoreOrders

LEMMA SnapshotMirror ==
  ASSUME IInv, ChainOK, MirrorOK, Snapshot PROVE MirrorOK'
<1>1. ASSUME NEW order \in SetToSeqs(node_txs), NEW seeded \in SUBSET node_txs,
             TakeSnapshot(order, seeded)
      PROVE  MirrorOK'
  <2> DEFINE ins == [i \in DOMAIN order |-> InsertTx(order[i])]
  <2>1. /\ action_queue = << >> /\ action_queue' = ins
        /\ UNCHANGED <<zmq, node_tip, node_txs, unfiltered_txs, mempool, abandoned_pool>>
    BY <1>1 DEF TakeSnapshot, ChainOK, nodeVars, innerVars
  <2>2. node_txs \in SUBSET Tx
    BY DEF IInv, NodeOK
  <2>3. Unapplied' = ins \o Unapplied
    BY <2>1, UnappliedActions DEF Unapplied
  <2> HIDE DEF ins
  <2> QED BY <2>1, <2>2, <2>3, InsertedMirror DEF ins
<1>2. ASSUME TakeFees PROVE MirrorOK'
  BY <1>2, MirrorFrame DEF TakeFees, nodeVars, innerVars, syncVars
<1> QED BY <1>1, <1>2 DEF Snapshot

LEMMA HandleSeqMirror ==
  ASSUME IInv, MirrorOK, HandleSeq PROVE MirrorOK'
<1>1. /\ zmq # << >> /\ zmq' = Tail(zmq) /\ phase # "snapshot"
      /\ UNCHANGED <<node_tip, node_txs, unfiltered_txs, mempool>>
      /\ DOMAIN abandoned_pool \in SUBSET Tx
  BY DEF HandleSeq, IInv, QueueOK
<1>2. << >> \in SetToSeqs({})
  BY FS_EmptySet DEF SetToSeqs
<1>3. \A t : \A o \in RestoredBy(t) : \E S \in SUBSET DOMAIN abandoned_pool : o \in SetToSeqs(S)
  <2>1. ASSUME NEW t, NEW o \in RestoredBy(t), o # << >>
        PROVE  \E S \in SUBSET DOMAIN abandoned_pool : o \in SetToSeqs(S)
    <3>1. o \in RestoreOrders(abandoned_pool, t)
      BY <2>1 DEF RestoredBy
    <3> QED BY <1>1, <3>1, RestoredFromPool
  <2> QED BY <1>2, <2>1
<1>4. \E S \in SUBSET DOMAIN abandoned_pool : \E restored \in SetToSeqs(S) :
        Enqueue(restored, Head(zmq))
  <2>1. CASE Enqueue(<< >>, Head(zmq))
    BY <1>2, <2>1
  <2>2. CASE \E restored \in RestoredBy(Head(zmq).tx) : Enqueue(restored, Head(zmq))
    BY <1>3, <2>2
  <2> QED BY <2>1, <2>2 DEF HandleSeq, HandleTxHashMsg
<1>5. DOMAIN abandoned_pool' \subseteq DOMAIN abandoned_pool
  <2>1. abandoned_pool' = abandoned_pool
          \/ \E S : abandoned_pool' = PoolAfterRestore(abandoned_pool, S)
    BY DEF HandleSeq, HandleTxHashMsg, HandleBlockHashMsg, HandleAdded, HandleRemoved
  <2> QED BY <1>1, <2>1, RestoredFromPool
<1>6. PICK S \in SUBSET DOMAIN abandoned_pool :
        \E restored \in SetToSeqs(S) : Enqueue(restored, Head(zmq))
  BY <1>4
<1> PICK restored \in SetToSeqs(S) : Enqueue(restored, Head(zmq))
  BY <1>6
<1>7. S \in SUBSET Tx /\ S \subseteq Kept
  BY <1>1 DEF Kept
<1>8. Unapplied' = [i \in DOMAIN restored |-> InsertTx(restored[i])] \o Unapplied
  BY <1>1, <1>7, EnqueuedAhead DEF Unapplied
<1> QED BY <1>1, <1>5, <1>7, <1>8, InsertedMirror

LEMMA HandleRespMirror ==
  ASSUME IInv, MirrorOK, HandleResp PROVE MirrorOK'
<1>1. /\ phase # "snapshot" /\ DOMAIN abandoned_pool \in SUBSET Tx
      /\ UNCHANGED <<node_tip, node_txs, zmq, unfiltered_txs, mempool>>
  BY DEF HandleResp, nodeVars, IInv, QueueOK
<1>2. ASSUME NEW b, NEW txs, NEW restored \in BlockRestoreOrders(abandoned_pool, txs),
             HandleRespBlock(b, restored)
      PROVE  MirrorOK'
  <2> DEFINE ins == [i \in DOMAIN restored |-> InsertTx(restored[i])]
  <2>1. PICK S \in SUBSET DOMAIN abandoned_pool : restored \in SetToSeqs(S)
    BY <1>1, RestoredFromPool
  <2>2. S \in SUBSET Tx /\ S \subseteq Kept
    BY <1>1 DEF Kept
  <2>3. ins \in Seq(SafeActions)
    BY <2>1, <2>2, InsertTxs
  <2>4. action_queue' = ins \o action_queue
    BY <1>2 DEF HandleRespBlock
  <2>5. DOMAIN abandoned_pool' \subseteq DOMAIN abandoned_pool
    BY <1>1, <1>2, RestoredFromPool DEF HandleRespBlock
  <2> HIDE DEF ins
  <2>6. Unapplied' = ins \o Unapplied
    BY <1>1, <2>3, <2>4, UnappliedActions, ConcatAssociative DEF Unapplied
  <2> QED BY <1>1, <2>1, <2>2, <2>5, <2>6, InsertedMirror DEF ins
<1>3. ASSUME UNCHANGED <<action_queue, abandoned_pool>> PROVE MirrorOK'
  BY <1>1, <1>3, MirrorFrame
<1> QED BY <1>2, <1>3 DEF HandleResp, HandleRespTxs

\* A tx is brought into the unfiltered view, whatever becomes of it else.
LEMMA AddMirror ==
  ASSUME IInv, MirrorOK, NEW t \in Tx,
         \/ AddKnown(t) \/ AddWithRejectedParent(t) \/ AddAbandoned(t)
         \/ AddAccepted(t) \/ AddRejected(t)
  PROVE  MirrorOK'
<1> USE DEF AppliesTx, AddFetched, CanApply
<1>1. /\ action_queue # << >> /\ phase # "snapshot" /\ Applied
      /\ HeadAction.event \in {"InsertTx", "Added"} /\ HeadAction.tx = t
      /\ unfiltered_txs' = unfiltered_txs \cup {t}
  BY DEF AddKnown, AddWithRejectedParent, AddAbandoned, AddAccepted, AddRejected, Validates
<1>2. Kept' \subseteq Kept \cup {t}
  <2>1. CASE AddKnown(t) \/ AddWithRejectedParent(t) \/ AddAccepted(t)
    BY <1>1, <2>1 DEF AddKnown, AddWithRejectedParent, AddAccepted, Kept
  <2>2. CASE AddAbandoned(t)
    <3>1. /\ abandoned_pool' \in PoolInserts(abandoned_pool, t, ParentsUnavailable(t))
          /\ mempool' = mempool
      BY <2>2 DEF AddAbandoned
    <3>2. DOMAIN abandoned_pool' \subseteq DOMAIN abandoned_pool \cup {t}
      BY <3>1 DEF PoolInserts
    <3> QED BY <1>1, <3>1, <3>2 DEF Kept
  <2>3. CASE AddRejected(t)
    <3>1. /\ mempool' \subseteq mempool
          /\ DOMAIN abandoned_pool' \subseteq DOMAIN abandoned_pool
      BY <2>3 DEF AddRejected, PoolWithout
    <3> QED BY <1>1, <3>1 DEF Kept
  <2> QED BY <2>1, <2>2, <2>3
<1> QED BY <1>1, <1>2, AppliedMirror

\* A tx is taken out everywhere.
LEMMA RemovedMirror ==
  ASSUME IInv, MirrorOK, ApplyRemoved PROVE MirrorOK'
<1>1. /\ action_queue # << >> /\ phase # "snapshot" /\ Applied /\ HeadAction.event = "Removed"
      /\ unfiltered_txs' = unfiltered_txs \ {HeadAction.tx}
      /\ mempool' = mempool \ {HeadAction.tx}
      /\ abandoned_pool' = PoolRemove(abandoned_pool, HeadAction.tx)
  BY DEF ApplyRemoved, CanApply
<1>2. Kept' = Kept \ {HeadAction.tx}
  BY <1>1 DEF Kept, PoolRemove
<1>3. \A t \in unfiltered_txs \ unfiltered_txs' : About(HeadAction, t)
  BY <1>1 DEF About
<1> QED BY <1>1, <1>2, <1>3, AppliedMirror

\* A connected block takes its txs out of the unfiltered view, and a block event
\* brings nothing in.
LEMMA BlockMirror ==
  ASSUME IInv, MirrorOK, NEW b \in Block,
         \/ ConnectCovered(b) \/ ConnectRejected(b) \/ ConnectAccepted(b)
         \/ DisconnectRejected(b) \/ Disconnect(b)
  PROVE  MirrorOK'
<1> USE DEF AppliesBlock, CanApply, ConnectFetched, ConnectUnfiltered, DisconnectsTip
<1>1. /\ action_queue # << >> /\ phase # "snapshot" /\ Applied
      /\ HeadAction.event \in {"Connected", "Disconnected"} /\ HeadAction.block = b
      /\ abandoned_pool' = abandoned_pool
  BY DEF ConnectCovered, ConnectRejected, ConnectAccepted, DisconnectRejected, Disconnect
<1>2. mempool' \subseteq mempool /\ unfiltered_txs' \subseteq unfiltered_txs
  BY DEF ConnectCovered, ConnectRejected, ConnectAccepted, DisconnectRejected, Disconnect
<1>3. \/ unfiltered_txs' = unfiltered_txs
      \/ HeadAction.event = "Connected" /\ unfiltered_txs \ unfiltered_txs' \subseteq BlockTxs[b]
  BY DEF ConnectCovered, ConnectRejected, ConnectAccepted, DisconnectRejected, Disconnect
<1>4. Kept' \subseteq Kept
  BY <1>1, <1>2 DEF Kept
<1>5. \A t \in unfiltered_txs \ unfiltered_txs' : About(HeadAction, t)
  BY <1>1, <1>3 DEF About
<1> QED BY <1>1, <1>4, <1>5, AppliedMirror

LEMMA NextMirror ==
  ASSUME IInv, ChainOK, MirrorOK, [Next]_vars PROVE MirrorOK'
<1>1. CASE UNCHANGED vars
  BY <1>1, MirrorFrame DEF vars, nodeVars, innerVars, syncVars
<1>2. CASE TakeRequest \/ ServeRequest
  BY <1>2, MirrorFrame DEF TakeRequest, ServeRequest, nodeVars, innerVars, syncVars
<1>3. ASSUME phase # "snapshot", NEW error, Stop(error) PROVE MirrorOK'
  BY <1>3, MirrorFrame DEF Stop, nodeVars, innerVars, syncVars
<1>4. CASE RequestFails \/ ApplySyncActionTimeout \/ Shutdown
  BY <1>3, <1>4 DEF RequestFails, ApplySyncActionTimeout, Shutdown
<1>5. CASE Apply
  <2>1. phase # "snapshot"
    BY <1>5
       DEF Apply, QueueEmpty, AddKnown, AddUnfetched, AddWithRejectedParent,
           AddWithRequiredParents, AddAbandoned, AddAccepted, AddRejected, Validates, AddFetched,
           AppliesTx, CanApply, ApplyRemoved, RemovedUnknown, ConnectUnfetched, ConnectCovered,
           ConnectUnexpected, ConnectRejected, ConnectAccepted, ConnectUnfiltered, ConnectFetched,
           AppliesBlock, DisconnectRejected, DisconnectEarly, DisconnectMismatch,
           DisconnectFetchesParent, Disconnect, DisconnectsTip
  <2>2. CASE QueueEmpty
    BY <2>1, <2>2, MirrorFrame DEF QueueEmpty, nodeVars, innerVars, syncVars
  <2>3. ASSUME Pending PROVE MirrorOK'
    BY <2>1, <2>3, MirrorFrame DEF Pending, nodeVars, innerVars
  <2>4. CASE \/ \E t \in Tx : AddUnfetched(t) \/ AddWithRequiredParents(t)
             \/ \E b \in Block : \/ ConnectUnfetched(b) \/ DisconnectEarly(b)
                                 \/ DisconnectFetchesParent(b)
    BY <2>3, <2>4 DEF AddUnfetched, AddWithRequiredParents, ConnectUnfetched, DisconnectEarly,
                      DisconnectFetchesParent
  <2>5. CASE \/ RemovedUnknown
             \/ \E b \in Block : ConnectUnexpected(b) \/ DisconnectMismatch(b)
    BY <1>3, <2>1, <2>5 DEF RemovedUnknown, ConnectUnexpected, DisconnectMismatch
  <2> QED BY <1>5, <2>2, <2>4, <2>5, AddMirror, RemovedMirror, BlockMirror DEF Apply
<1> QED BY <1>1, <1>2, <1>4, <1>5, NodeStepMirror, SnapshotMirror, HandleSeqMirror,
           HandleRespMirror DEF Next

\* Once every message has been read and applied, the task has the txs that the
\* node has, and no others but confirmed ones, for every graph of txs and blocks
\* and every order in which the snapshot, the messages and the responses came:
\* no tx is lost between the snapshot and the first message, and none that was
\* evicted while it was fetched, abandoned or restored stays behind.
THEOREM MirrorsNodeHolds == Spec => []MirrorsNode
<1>1. Init => MirrorOK
  BY InitMirror
<1>2. IInv /\ ChainOK /\ MirrorOK /\ [Next]_vars => MirrorOK'
  BY NextMirror
<1>3. ASSUME IInv, SInv, MirrorOK PROVE MirrorsNode
  <2>1. SUFFICES ASSUME phase = "wait", zmq = << >>, action_queue = << >>
                 PROVE  /\ node_txs \subseteq unfiltered_txs
                        /\ unfiltered_txs \cup mempool \subseteq node_txs \cup Confirmed(node_tip)
    BY DEF MirrorsNode, LockFree
  <2>2. Unapplied = << >>
    BY <2>1 DEF Unapplied
  <2>3. PICK pos : /\ AtPos(<< >>, pos, node_tip)
                   /\ HeldOK(<< >>, Kept \cup InsertedBy(<< >>), node_txs, pos)
    BY <1>3, <2>2 DEF MirrorOK
  <2>4. pos = node_tip
    <3>1. CASE CatchingUp(<< >>, node_tip, pos, pos)
      <4>1. PICK p, q \in Seq(SafeActions) : << >> = p \o q /\ Path(q, StartTip, node_tip)
        BY <3>1 DEF CatchingUp
      <4>2. Len(p) + Len(q) = 0
        BY <4>1, ConcatProperties
      <4>3. q = << >>
        BY <4>2
      <4> QED BY <3>1, <4>1, <4>3, PathEmpty DEF CatchingUp
    <3>2. CASE OnPath(<< >>, node_tip, pos, pos, {})
      BY <2>3, <3>2, PathEmpty, PlacedSelf DEF OnPath, AtPos
    <3> QED BY <2>3, <3>1, <3>2 DEF AtPos, LeadsOn
  <2>5. \A t : Silent(<< >>, t)
    BY DEF Silent
  <2>6. unfiltered_txs \subseteq Tx /\ mempool \subseteq Tx /\ node_txs \subseteq Tx
    BY <1>3 DEF SInv, TypesOK, IInv, NodeOK
  <2>7. InsertedBy(<< >>) = {}
    BY DEF InsertedBy
  <2>8. unfiltered_txs \cup mempool \subseteq node_txs \cup Confirmed(node_tip)
    BY <2>3, <2>4, <2>5, <2>6 DEF HeldOK, Kept
  <2>9. node_txs \subseteq unfiltered_txs
    BY <1>3, <2>1, <2>2, <2>5, <2>6, <2>7 DEF MirrorOK
  <2> QED BY <2>8, <2>9
<1> QED BY <1>1, <1>2, <1>3, RequestInvariant, PTL DEF Spec

------------------------------------------------------------------------------
\* The round robin of CombinedStream.

\* The sources that have been asked since o was, in the order of asking.
AskedSince(o) ==
  {s \in Sources \ {o} :
     \/ position = o
     \/ (IF s > o THEN s ELSE s + 4) < (IF position > o THEN position ELSE position + 4)}

\* What went before o has been asked since o was.
RoundRobin ==
  /\ position \in Sources
  /\ passed_over \in [Sources -> SUBSET Sources]
  /\ \A o \in Sources : passed_over[o] \subseteq AskedSince(o)

LEMMA NextSourceIs ==
  ASSUME NEW s \in Sources
  PROVE  NextSource(s) = IF s = 3 THEN 0 ELSE s + 1
BY DEF NextSource, Sources

LEMMA SourceNumbers ==
  /\ SequenceMsgs \in Sources /\ Responses \in Sources
  /\ ApplyTimeout \in Sources /\ ShutdownSignal \in Sources
BY DEF SequenceMsgs, Responses, ApplyTimeout, ShutdownSignal, Sources

\* Asking the source whose turn it is keeps the order, whatever it lets pass.
LEMMA AskedNext ==
  ASSUME RoundRobin, position' = NextSource(position),
         passed_over' \in [Sources -> SUBSET Sources],
         \A o \in Sources : \/ passed_over'[o] = {}
                            \/ /\ o # position
                               /\ passed_over'[o] \subseteq passed_over[o] \cup {position}
  PROVE  RoundRobin'
<1>1. position \in Sources /\ position' = IF position = 3 THEN 0 ELSE position + 1
  BY NextSourceIs DEF RoundRobin
<1>2. position' \in Sources
  BY <1>1 DEF Sources
<1>3. ASSUME NEW o \in Sources, NEW s \in passed_over'[o] PROVE s \in AskedSince(o)'
  <2>1. o # position /\ s \in Sources /\ (s \in AskedSince(o) \/ s = position)
    BY <1>3 DEF RoundRobin
  <2> QED BY <1>1, <2>1 DEF AskedSince, Sources
<1> QED BY <1>2, <1>3 DEF RoundRobin

LEMMA YieldsKeeps ==
  ASSUME RoundRobin, NEW s \in Sources, Yields(s)
  PROVE  RoundRobin'
<1>1. position = s /\ position' = NextSource(position)
  BY DEF Yields
<1>2. passed_over' =
        [o \in Sources |-> IF o # s /\ Waits(o) THEN passed_over[o] \cup {s} ELSE {}]
  BY DEF Yields
<1>3. passed_over' \in [Sources -> SUBSET Sources]
  BY <1>2 DEF RoundRobin
<1>4. \A o \in Sources : \/ passed_over'[o] = {}
                         \/ /\ o # position
                            /\ passed_over'[o] \subseteq passed_over[o] \cup {position}
  BY <1>1, <1>2
<1> QED BY <1>1, <1>3, <1>4, AskedNext

LEMMA NothingKeeps ==
  ASSUME RoundRobin, PollNothing
  PROVE  RoundRobin'
<1>1. position \in Sources /\ passed_over \in [Sources -> SUBSET Sources]
  BY DEF RoundRobin
<1>2. position' = NextSource(position) /\ passed_over' = [passed_over EXCEPT ![position] = {}]
  BY DEF PollNothing
<1>3. passed_over' \in [Sources -> SUBSET Sources]
  BY <1>1, <1>2
<1>4. \A o \in Sources : \/ passed_over'[o] = {}
                         \/ /\ o # position
                            /\ passed_over'[o] \subseteq passed_over[o] \cup {position}
  BY <1>1, <1>2
<1> QED BY <1>2, <1>3, <1>4, AskedNext

LEMMA NextRoundRobin == RoundRobin /\ [CombinedNext]_allVars => RoundRobin'
<1> SUFFICES ASSUME RoundRobin, [CombinedNext]_allVars PROVE RoundRobin'
  OBVIOUS
<1>1. ASSUME NEW s \in Sources, Yields(s) PROVE RoundRobin'
  BY <1>1, YieldsKeeps
<1>2. CASE Poll
  BY <1>1, <1>2, SourceNumbers, NothingKeeps
     DEF Poll, PollSequenceMsgs, PollResponses, PollTimeout, PollShutdown
<1>3. CASE UNCHANGED <<position, passed_over>>
  BY <1>3 DEF RoundRobin, AskedSince
<1>4. Poll \/ UNCHANGED <<position, passed_over>>
  BY DEF CombinedNext, LoopStep, Around, Expires, SignalsShutdown, streamVars, allVars
<1> QED BY <1>2, <1>3, <1>4

\* poll_next goes on with the source after the one whose item it returned: while
\* a source has something, no other one goes before it twice.
THEOREM NobodyStarvesHolds == CombinedSpec => NobodyStarves
<1>1. CombinedInit => RoundRobin
  BY SourceNumbers DEF CombinedInit, RoundRobin
<1>2. RoundRobin /\ [CombinedNext]_allVars =>
        [\A s, o \in Sources :
           position = s /\ phase = "wait" /\ phase' # "wait" /\ Waits(o) /\ o # s
             => s \notin passed_over[o]]_allVars
  <2> SUFFICES ASSUME RoundRobin, NEW s \in Sources, NEW o \in Sources, position = s, o # s
               PROVE  s \notin passed_over[o]
    OBVIOUS
  <2>1. s \notin AskedSince(o)
    BY DEF AskedSince, Sources
  <2> QED BY <2>1 DEF RoundRobin
<1> QED BY <1>1, <1>2, NextRoundRobin, PTL DEF CombinedSpec, NobodyStarves

==============================================================================
