---------------------------- MODULE BitcoinNode -----------------------------
(***************************************************************************)
(* The bitcoind node, as far as the enforcer observes it: its active chain *)
(* and mempool, the ZMQ `sequence` messages it publishes about them, and   *)
(* the RPCs it answers.  The node is not part of this repository; what it  *)
(* does here is what the code and the integration tests rely on.           *)
(***************************************************************************)
EXTENDS TxGraph

CONSTANTS
  StartTip,       \* tip of the node's chain when the enforcer connects
  StartTxs,       \* the node's mempool at that time
  ReportsNext,    \* TRUE if getrawmempool reports the next mempool sequence
                  \* number to be used, FALSE if the last one used
  MaxBacklog,     \* bound: unread messages when the enforcer connects
  MaxNodeEvents   \* bound: spontaneous changes of chain or mempool

ASSUME StartAssumption == StartTip \in Block /\ StartTxs \subseteq Tx
ASSUME StartTxsAssumption ==
  StartTxs \cap Confirmed(StartTip) = {}
ASSUME ReportsNextAssumption == ReportsNext \in BOOLEAN
ASSUME BoundsAssumption == MaxBacklog \in Nat /\ MaxNodeEvents \in Nat

VARIABLES
  node_tip,      \* tip of the active chain
  node_txs,      \* the mempool
  node_seq,      \* next mempool sequence number
  node_invalid,  \* blocks that `invalidateblock` was called for
  node_events,   \* spontaneous changes so far
  zmq            \* published messages that the subscriber has not read

nodeVars == <<node_tip, node_txs, node_seq, node_invalid, node_events, zmq>>

\* SequenceMessage
ConnectedMsg(b) == [event |-> "Connected", block |-> b]

DisconnectedMsg(b) == [event |-> "Disconnected", block |-> b]

AddedMsg(t, n) == [event |-> "Added", tx |-> t, mempool_seq |-> n]

RemovedMsg(t, n) == [event |-> "Removed", tx |-> t, mempool_seq |-> n]

\* What a subscriber finds that joins while the node still publishes the
\* blocks up to StartTip: the connect events of the last few of them.
Backlogs ==
  LET Ends(n) == {s \in [1 .. n -> Block] :
                    /\ s[n] = StartTip
                    /\ \A i \in 1 .. (n - 1) : s[i] = Parent[s[i + 1]]}
  IN  {<< >>} \cup UNION {{[i \in 1 .. n |-> ConnectedMsg(s[i])] : s \in Ends(n)} :
                          n \in 1 .. MaxBacklog}

NodeInit ==
  /\ node_tip = StartTip
  /\ node_txs = StartTxs
  /\ node_seq = 1
  /\ node_invalid = {}
  /\ node_events = 0
  /\ zmq \in Backlogs

ChangesSpontaneously ==
  /\ node_events < MaxNodeEvents
  /\ node_events' = node_events + 1

\* A tx whose inputs exist enters the mempool.
NodeAddTx(t) ==
  /\ ChangesSpontaneously
  /\ t \notin node_txs \cup Confirmed(node_tip)
  /\ Vin[t] \subseteq node_txs \cup Confirmed(node_tip)
  /\ node_txs' = node_txs \cup {t}
  /\ node_seq' = node_seq + 1
  /\ zmq' = Append(zmq, AddedMsg(t, node_seq))
  /\ UNCHANGED <<node_tip, node_invalid>>

\* A tx is evicted or replaced, with what spends from it.  The descendants
\* are announced in no particular order.
NodeRemoveTx(t) ==
  /\ ChangesSpontaneously
  /\ t \in node_txs
  /\ LET gone == {t} \cup DescendantsIn(node_txs, {t})
     IN  /\ node_txs' = node_txs \ gone
         /\ node_seq' = node_seq + Cardinality(gone)
         /\ \E order \in SetToSeqs(gone) :
              zmq' = zmq \o [i \in DOMAIN order |-> RemovedMsg(order[i], node_seq + i - 1)]
  /\ UNCHANGED <<node_tip, node_invalid>>

\* A block is connected.  Its txs leave the mempool without a message, but
\* each uses up a mempool sequence number.
NodeConnect(b) ==
  /\ ChangesSpontaneously
  /\ Parent[b] = node_tip
  /\ Ancestors[b] \cap node_invalid = {}
  /\ BlockTxs[b] \cap Confirmed(node_tip) = {}
  /\ \A t \in BlockTxs[b] : Vin[t] \subseteq Confirmed(b)
  /\ node_tip' = b
  /\ node_txs' = node_txs \ BlockTxs[b]
  /\ node_seq' = node_seq + Cardinality(node_txs \cap BlockTxs[b])
  /\ zmq' = Append(zmq, ConnectedMsg(b))
  /\ UNCHANGED node_invalid

\* The tip is disconnected and its txs return to the mempool, announced after
\* the disconnect.
DisconnectTip ==
  /\ Parent[node_tip] # NoBlock
  /\ node_tip' = Parent[node_tip]
  /\ node_txs' = node_txs \cup BlockTxs[node_tip]
  /\ node_seq' = node_seq + Cardinality(BlockTxs[node_tip])
  /\ \E order \in TopologicalOrders(BlockTxs[node_tip]) :
       zmq' = Append(zmq, DisconnectedMsg(node_tip))
                \o [i \in DOMAIN order |-> AddedMsg(order[i], node_seq + i - 1)]
  /\ UNCHANGED node_invalid

\* A reorg: the node has seen a longer chain that does not contain its tip.
NodeReorg ==
  /\ ChangesSpontaneously
  /\ \E b \in Block : /\ Height[b] > Height[node_tip]
                      /\ node_tip \notin Ancestors[b]
                      /\ Ancestors[b] \cap node_invalid = {}
  /\ DisconnectTip

\* Someone else calls `invalidateblock` for the tip.
NodeInvalidateTip ==
  /\ ChangesSpontaneously
  /\ Parent[node_tip] # NoBlock
  /\ node_invalid' = node_invalid \cup {node_tip}
  /\ UNCHANGED <<node_tip, node_txs, node_seq, zmq>>

\* The node works off an `invalidateblock`.
NodeInvalidates ==
  /\ Ancestors[node_tip] \cap node_invalid # {}
  /\ DisconnectTip
  /\ UNCHANGED node_events

NodeNext ==
  \/ \E t \in Tx : NodeAddTx(t) \/ NodeRemoveTx(t)
  \/ \E b \in Block : NodeConnect(b)
  \/ NodeReorg
  \/ NodeInvalidateTip
  \/ NodeInvalidates

\* The mempool sequence number in getrawmempool's answer.
ReportedSeq == IF ReportsNext THEN node_seq ELSE node_seq - 1

\* getrawtransaction answers for mempool txs and, with txindex, for confirmed
\* ones; for all others it fails with RPC_INVALID_ADDRESS_OR_KEY.
Fetchable == node_txs \cup Confirmed(node_tip)
==============================================================================
