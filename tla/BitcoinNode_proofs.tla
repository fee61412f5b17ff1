------------------------- MODULE BitcoinNode_proofs -------------------------
(***************************************************************************)
(* Lemmas about the node: the blocks below a block, and what the node      *)
(* publishes, for every graph of txs and blocks.                           *)
(***************************************************************************)
EXTENDS BitcoinNode, TxGraph_proofs

------------------------------------------------------------------------------
\* What the node publishes.

\* The node never disconnects a block without a parent.
NodeMsgs ==
  {m \in [event : {"Connected", "Disconnected"}, block : Block] :
     m.event = "Disconnected" => Parent[m.block] # NoBlock}
  \cup [event : {"Added", "Removed"}, tx : Tx, mempool_seq : Nat]

\* The node's chain and mempool are of the graph, and so is what it publishes.
NodeOK ==
  /\ node_tip \in Block
  /\ node_txs \in SUBSET Tx
  /\ node_seq \in Nat
  /\ zmq \in Seq(NodeMsgs)

\* The node's messages are of the four kinds.
LEMMA Messages ==
  /\ \A b \in Block : ConnectedMsg(b) \in NodeMsgs
  /\ \A b \in Block : Parent[b] # NoBlock => DisconnectedMsg(b) \in NodeMsgs
  /\ \A t \in Tx, n \in Nat : AddedMsg(t, n) \in NodeMsgs
  /\ \A t \in Tx, n \in Nat : RemovedMsg(t, n) \in NodeMsgs
BY DEF NodeMsgs, ConnectedMsg, DisconnectedMsg, AddedMsg, RemovedMsg

\* The node starts in order, with or without a backlog.
LEMMA NodeInitOK ==
  ASSUME NodeInit PROVE NodeOK
<1>1. ASSUME NEW n \in 1 .. MaxBacklog, NEW s \in [1 .. n -> Block]
      PROVE  [i \in 1 .. n |-> ConnectedMsg(s[i])] \in Seq(NodeMsgs)
  BY Messages, BoundsAssumption
<1>2. << >> \in Seq(NodeMsgs)
  OBVIOUS
<1>3. ASSUME NEW backlog \in Backlogs PROVE backlog \in Seq(NodeMsgs)
  <2> DEFINE Ends(n) == {s \in [1 .. n -> Block] :
                           /\ s[n] = StartTip
                           /\ \A i \in 1 .. (n - 1) : s[i] = Parent[s[i + 1]]}
             Msgs(n, s) == [i \in 1 .. n |-> ConnectedMsg(s[i])]
  <2>1. Backlogs =
          {<< >>} \cup UNION {{Msgs(n, s) : s \in Ends(n)} : n \in 1 .. MaxBacklog}
    BY DEF Backlogs
  <2>2. ASSUME NEW n \in 1 .. MaxBacklog, NEW s \in Ends(n)
        PROVE  Msgs(n, s) \in Seq(NodeMsgs)
    BY <1>1
  <2> HIDE DEF Ends, Msgs
  <2>3. backlog = << >> \/ \E n \in 1 .. MaxBacklog : \E s \in Ends(n) : backlog = Msgs(n, s)
    BY <2>1, Zenon
  <2> QED BY <1>2, <2>2, <2>3
<1>4. zmq \in Seq(NodeMsgs)
  BY <1>3 DEF NodeInit
<1> QED BY <1>4, StartAssumption DEF NodeInit, NodeOK

------------------------------------------------------------------------------
\* The steps of the node preserve that.

\* Announcing a set of txs or their removal gives messages.
LEMMA RemovedMsgs ==
  ASSUME NEW S \in SUBSET Tx, NEW o \in SetToSeqs(S), NEW n \in Nat
  PROVE  /\ [i \in DOMAIN o |-> RemovedMsg(o[i], n + i - 1)] \in Seq(NodeMsgs)
         /\ [i \in DOMAIN o |-> AddedMsg(o[i], n + i - 1)] \in Seq(NodeMsgs)
<1>1. o \in Seq(S) /\ DOMAIN o = 1 .. Len(o) /\ Len(o) \in Nat
  BY OrdersAreSequences
<1>2. \A i \in DOMAIN o : o[i] \in Tx /\ n + i - 1 \in Nat
  BY <1>1
<1>3. \A i \in DOMAIN o : /\ RemovedMsg(o[i], n + i - 1) \in NodeMsgs
                          /\ AddedMsg(o[i], n + i - 1) \in NodeMsgs
  BY <1>2, Messages
<1> QED BY <1>1, <1>3

\* A disconnect gives the block's txs back and evicts others.
LEMMA DisconnectTipNodeOK ==
  ASSUME NodeOK, DisconnectTip PROVE NodeOK'
<1>1. /\ node_tip' = Parent[node_tip] /\ Parent[node_tip] # NoBlock
      /\ node_txs' = node_txs \cup BlockTxs[node_tip]
      /\ node_seq' = node_seq + Cardinality(BlockTxs[node_tip])
  BY DEF DisconnectTip
<1>2. node_tip \in Block /\ BlockTxs[node_tip] \in SUBSET Tx
  BY BlockTxsAssumption DEF NodeOK
<1>3. node_tip' \in Block /\ node_txs' \in SUBSET Tx /\ node_seq' \in Nat
  BY <1>1, <1>2, CardinalityOfTxs, ParentAssumption DEF NodeOK
<1>4. PICK o \in SetToSeqs(BlockTxs[node_tip]) :
        zmq' = Append(zmq, DisconnectedMsg(node_tip))
                 \o [i \in DOMAIN o |-> AddedMsg(o[i], node_seq + i - 1)]
  BY DEF DisconnectTip, TopologicalOrders
<1>5. DisconnectedMsg(node_tip) \in NodeMsgs
  BY <1>1, <1>2, Messages
<1>6. Append(zmq, DisconnectedMsg(node_tip)) \in Seq(NodeMsgs)
  BY <1>5 DEF NodeOK
<1>7. [i \in DOMAIN o |-> AddedMsg(o[i], node_seq + i - 1)] \in Seq(NodeMsgs)
  BY <1>2, RemovedMsgs DEF NodeOK
<1>8. zmq' \in Seq(NodeMsgs)
  BY <1>4, <1>6, <1>7, ConcatProperties
<1> QED BY <1>3, <1>8 DEF NodeOK

\* Every step of the node preserves NodeOK.
LEMMA NodeStepNodeOK ==
  ASSUME NodeOK, NodeNext PROVE NodeOK'
<1>1. ASSUME NEW t \in Tx, NodeAddTx(t) PROVE NodeOK'
  <2>1. AddedMsg(t, node_seq) \in NodeMsgs
    BY Messages DEF NodeOK
  <2> QED BY <1>1, <2>1 DEF NodeAddTx, NodeOK
<1>2. ASSUME NEW t \in Tx, NodeRemoveTx(t) PROVE NodeOK'
  <2> DEFINE gone == {t} \cup DescendantsIn(node_txs, {t})
  <2>1. gone \in SUBSET Tx
    BY DEF DescendantsIn, LeastClosed, NodeOK
  <2>2. /\ node_txs' = node_txs \ gone /\ node_tip' = node_tip
        /\ node_seq' = node_seq + Cardinality(gone)
        /\ \E order \in SetToSeqs(gone) :
             zmq' = zmq \o [i \in DOMAIN order |-> RemovedMsg(order[i], node_seq + i - 1)]
    BY <1>2 DEF NodeRemoveTx
  <2> HIDE DEF gone
  <2>3. PICK o \in SetToSeqs(gone) :
          zmq' = zmq \o [i \in DOMAIN o |-> RemovedMsg(o[i], node_seq + i - 1)]
    BY <2>2
  <2>4. [i \in DOMAIN o |-> RemovedMsg(o[i], node_seq + i - 1)] \in Seq(NodeMsgs)
    BY <2>1, RemovedMsgs DEF NodeOK
  <2>5. zmq' \in Seq(NodeMsgs)
    BY <2>3, <2>4, ConcatProperties DEF NodeOK
  <2>6. Cardinality(gone) \in Nat
    BY <2>1, CardinalityOfTxs
  <2>7. node_seq' \in Nat
    BY <2>2, <2>6 DEF NodeOK
  <2> QED BY <2>2, <2>5, <2>7 DEF NodeOK
<1>3. ASSUME NEW b \in Block, NodeConnect(b) PROVE NodeOK'
  <2>1. ConnectedMsg(b) \in NodeMsgs
    BY Messages
  <2>2. zmq' \in Seq(NodeMsgs)
    BY <1>3, <2>1 DEF NodeConnect, NodeOK
  <2>3. node_seq' \in Nat
    BY <1>3, CardinalityOfTxs DEF NodeConnect, NodeOK
  <2> QED BY <1>3, <2>2, <2>3 DEF NodeConnect, NodeOK
<1>4. ASSUME NodeReorg PROVE NodeOK'
  BY <1>4, DisconnectTipNodeOK DEF NodeReorg
<1>5. ASSUME NodeInvalidateTip PROVE NodeOK'
  BY <1>5 DEF NodeInvalidateTip, NodeOK
<1>6. ASSUME NodeInvalidates PROVE NodeOK'
  BY <1>6, DisconnectTipNodeOK DEF NodeInvalidates
<1> QED BY <1>1, <1>2, <1>3, <1>4, <1>5, <1>6 DEF NodeNext

\* The node's tip stays clear of any blocks that are invalid for the node.
LEMMA NodeStaysClear ==
  ASSUME NodeNext, node_tip \in Block,
         NEW set \in SUBSET node_invalid, Ancestors[node_tip] \cap set = {}
  PROVE  Ancestors[node_tip'] \cap set = {}
<1>1. ASSUME NEW t \in Tx, NodeAddTx(t) \/ NodeRemoveTx(t)
      PROVE  node_tip' = node_tip
  BY <1>1 DEF NodeAddTx, NodeRemoveTx
<1>2. ASSUME NEW b \in Block, NodeConnect(b)
      PROVE  Ancestors[node_tip'] \cap set = {}
  BY <1>2 DEF NodeConnect
<1>3. ASSUME DisconnectTip
      PROVE  Ancestors[node_tip'] \cap set = {}
  BY <1>3, AncestorsOfChild DEF DisconnectTip
<1>4. ASSUME NodeInvalidateTip
      PROVE  node_tip' = node_tip
  BY <1>4 DEF NodeInvalidateTip
<1> QED BY <1>1, <1>2, <1>3, <1>4 DEF NodeNext, NodeReorg, NodeInvalidates

\* The node does not forget an invalid block.
LEMMA InvalidStays ==
  ASSUME NodeNext PROVE node_invalid \subseteq node_invalid'
<1>1. ASSUME NEW t \in Tx, NodeAddTx(t) \/ NodeRemoveTx(t)
      PROVE  node_invalid' = node_invalid
  BY <1>1 DEF NodeAddTx, NodeRemoveTx
<1>2. ASSUME NEW b \in Block, NodeConnect(b)
      PROVE  node_invalid' = node_invalid
  BY <1>2 DEF NodeConnect
<1>3. ASSUME DisconnectTip
      PROVE  node_invalid' = node_invalid
  BY <1>3 DEF DisconnectTip
<1>4. ASSUME NodeInvalidateTip
      PROVE  node_invalid \subseteq node_invalid'
  BY <1>4 DEF NodeInvalidateTip
<1> QED BY <1>1, <1>2, <1>3, <1>4 DEF NodeNext, NodeReorg, NodeInvalidates

------------------------------------------------------------------------------
\* Where messages lead.  Sync actions are messages here, too.

\* A message moves whoever follows the chain from x to y.
Moves(m, x, y) ==
  CASE m.event = "Connected" -> Parent[m.block] = x /\ y = m.block
    [] m.event = "Disconnected" -> m.block = x /\ y = Parent[x]
    [] OTHER -> y = x

IsTxMsg(m) == m.event \notin {"Connected", "Disconnected"}

\* w are the blocks that the messages msgs lead over, from the first to the last.
Walk(msgs, w) ==
  /\ w \in [0 .. Len(msgs) -> Block]
  /\ \A i \in 1 .. Len(msgs) : Moves(msgs[i], w[i - 1], w[i])

Path(msgs, from, to) == \E w : Walk(msgs, w) /\ w[0] = from /\ w[Len(msgs)] = to

\* No message leads nowhere.
LEMMA PathEmpty ==
  ASSUME NEW x, NEW y
  PROVE  Path(<< >>, x, y) <=> x = y /\ x \in Block
<1>1. ASSUME Path(<< >>, x, y) PROVE x = y /\ x \in Block
  BY <1>1 DEF Path, Walk
<1>2. ASSUME x \in Block PROVE Path(<< >>, x, x)
  <2>1. Walk(<< >>, [i \in 0 .. 0 |-> x])
    BY <1>2 DEF Walk
  <2> QED BY <2>1 DEF Path
<1> QED BY <1>1, <1>2

\* A path starts and ends at a block.
LEMMA PathEnds ==
  ASSUME NEW M, NEW msgs \in Seq(M), NEW x, NEW y, Path(msgs, x, y)
  PROVE  x \in Block /\ y \in Block
BY DEF Path, Walk

\* Two paths make one if the second starts where the first ends.
LEMMA PathConcat ==
  ASSUME NEW M, NEW s \in Seq(M), NEW t \in Seq(M), NEW x, NEW y, NEW z,
         Path(s, x, y), Path(t, y, z)
  PROVE  Path(s \o t, x, z)
<1>1. PICK v : Walk(s, v) /\ v[0] = x /\ v[Len(s)] = y
  BY DEF Path
<1>2. PICK w : Walk(t, w) /\ w[0] = y /\ w[Len(t)] = z
  BY DEF Path
<1> DEFINE n == Len(s)
           k == Len(t)
           u == [i \in 0 .. n + k |-> IF i <= n THEN v[i] ELSE w[i - n]]
<1>3. /\ n \in Nat /\ k \in Nat /\ Len(s \o t) = n + k
      /\ \A i \in 1 .. n + k : (s \o t)[i] = IF i <= n THEN s[i] ELSE t[i - n]
  OBVIOUS
<1>4. u \in [0 .. n + k -> Block]
  BY <1>1, <1>2, <1>3 DEF Walk
<1>5. ASSUME NEW i \in 1 .. n + k PROVE Moves((s \o t)[i], u[i - 1], u[i])
  <2>1. CASE i <= n
    <3>1. i \in 1 .. n /\ u[i] = v[i] /\ u[i - 1] = v[i - 1]
      BY <1>3, <2>1
    <3> QED BY <1>1, <1>3, <2>1, <3>1 DEF Walk
  <2>2. CASE i > n
    <3>1. i - n \in 1 .. k /\ u[i] = w[i - n]
      BY <1>3, <2>2
    <3>2. u[i - 1] = w[i - n - 1]
      <4>1. CASE i = n + 1
        <5>1. i - 1 = n /\ i - n - 1 = 0 /\ u[n] = v[n]
          BY <1>3, <4>1
        <5> QED BY <1>1, <1>2, <5>1
      <4>2. CASE i # n + 1
        <5>1. i - 1 \in 0 .. n + k /\ ~(i - 1 <= n) /\ i - 1 - n = i - n - 1
          BY <1>3, <2>2, <4>2
        <5> QED BY <5>1
      <4> QED BY <4>1, <4>2
    <3>3. (s \o t)[i] = t[i - n]
      BY <1>3, <2>2
    <3>4. Moves(t[i - n], w[i - n - 1], w[i - n])
      BY <1>2, <3>1 DEF Walk
    <3> QED BY <3>1, <3>2, <3>3, <3>4
  <2> QED BY <1>3, <2>1, <2>2
<1>6. u[0] = x /\ u[n + k] = z
  BY <1>1, <1>2, <1>3
<1> HIDE DEF u
<1>7. Walk(s \o t, u) /\ u[Len(s \o t)] = z
  BY <1>3, <1>4, <1>5, <1>6 DEF Walk
<1> QED BY <1>6, <1>7 DEF Path

\* A path can be followed one message at a time.
LEMMA PathTail ==
  ASSUME NEW M, NEW s \in Seq(M), s # << >>, NEW x, NEW z, Path(s, x, z)
  PROVE  \E y \in Block : Moves(Head(s), x, y) /\ Path(Tail(s), y, z)
<1>1. PICK w : Walk(s, w) /\ w[0] = x /\ w[Len(s)] = z
  BY DEF Path
<1> DEFINE n == Len(s)
           u == [i \in 0 .. n - 1 |-> w[i + 1]]
<1>2. /\ n \in Nat \ {0} /\ Len(Tail(s)) = n - 1 /\ Head(s) = s[1]
      /\ \A i \in 1 .. n - 1 : Tail(s)[i] = s[i + 1]
  OBVIOUS
<1>3. u \in [0 .. n - 1 -> Block] /\ u[0] = w[1] /\ u[n - 1] = z
  BY <1>1, <1>2 DEF Walk
<1>4. ASSUME NEW i \in 1 .. n - 1 PROVE Moves(Tail(s)[i], u[i - 1], u[i])
  <2>1. i + 1 \in 1 .. n /\ u[i - 1] = w[i] /\ u[i] = w[i + 1] /\ i + 1 - 1 = i
    BY <1>2
  <2> QED BY <1>1, <1>2, <2>1 DEF Walk
<1> HIDE DEF u
<1>5. Path(Tail(s), w[1], z)
  BY <1>2, <1>3, <1>4 DEF Path, Walk
<1>6. w[1] \in Block /\ Moves(Head(s), x, w[1])
  BY <1>1, <1>2 DEF Walk
<1> QED BY <1>5, <1>6

\* One message makes a path.
LEMMA PathOne ==
  ASSUME NEW x \in Block, NEW y \in Block, NEW m, Moves(m, x, y)
  PROVE  Path(<<m>>, x, y)
<1> DEFINE w == [i \in 0 .. 1 |-> IF i = 0 THEN x ELSE y]
<1>1. Walk(<<m>>, w) /\ w[0] = x /\ w[1] = y
  BY DEF Walk
<1> QED BY <1>1 DEF Path

\* Messages about txs lead nowhere.
LEMMA PathStays ==
  ASSUME NEW M, NEW s \in Seq(M), NEW x \in Block, \A i \in DOMAIN s : IsTxMsg(s[i])
  PROVE  Path(s, x, x)
<1>1. Walk(s, [i \in 0 .. Len(s) |-> x])
  BY DEF Walk, Moves, IsTxMsg
<1> QED BY <1>1 DEF Path

\* A backlog connects blocks up to StartTip.
LEMMA BacklogBelowStart ==
  ASSUME NodeInit
  PROVE  \A i \in DOMAIN zmq : /\ zmq[i].event = "Connected"
                               /\ zmq[i].block \in Ancestors[StartTip]
<1> DEFINE Ends(n) == {s \in [1 .. n -> Block] :
                         /\ s[n] = StartTip
                         /\ \A i \in 1 .. (n - 1) : s[i] = Parent[s[i + 1]]}
           Msgs(n, s) == [i \in 1 .. n |-> ConnectedMsg(s[i])]
<1>1. Backlogs =
        {<< >>} \cup UNION {{Msgs(n, s) : s \in Ends(n)} : n \in 1 .. MaxBacklog}
  BY DEF Backlogs
<1>2. ASSUME NEW n \in 1 .. MaxBacklog, NEW s \in Ends(n), NEW i \in 1 .. n
      PROVE  s[i] \in Ancestors[StartTip]
  <2>1. n \in Nat /\ n >= 1
    BY BoundsAssumption
  <2> DEFINE T == {j \in Nat : j < n => s[n - j] \in Ancestors[StartTip]}
  <2>2. 0 \in T
    BY <2>1, AncestorsClosed, StartAssumption
  <2>3. ASSUME NEW j \in T PROVE j + 1 \in T
    <3>1. SUFFICES ASSUME j + 1 < n PROVE s[n - (j + 1)] \in Ancestors[StartTip]
      OBVIOUS
    <3>2. n - (j + 1) \in 1 .. (n - 1) /\ n - (j + 1) + 1 = n - j
      BY <2>1, <3>1
    <3>3. s[n - (j + 1)] = Parent[s[n - j]] /\ s[n - (j + 1)] \in Block
      BY <3>2
    <3>4. s[n - j] \in Ancestors[StartTip]
      BY <2>1, <3>1
    <3> QED BY <3>3, <3>4, AncestorsClosed, StartAssumption, NoBlockAssumption
  <2> HIDE DEF T
  <2>4. Nat \subseteq T
    BY <2>2, <2>3, NatInduct DEF T
  <2>5. n - i \in Nat /\ n - i < n /\ n - (n - i) = i
    BY <2>1
  <2> QED BY <2>4, <2>5 DEF T
<1>3. ASSUME NEW n \in 1 .. MaxBacklog, NEW s \in Ends(n)
      PROVE  \A i \in DOMAIN Msgs(n, s) :
               /\ Msgs(n, s)[i].event = "Connected"
               /\ Msgs(n, s)[i].block \in Ancestors[StartTip]
  BY <1>2 DEF ConnectedMsg
<1> HIDE DEF Ends, Msgs
<1>4. zmq = << >> \/ \E n \in 1 .. MaxBacklog : \E s \in Ends(n) : zmq = Msgs(n, s)
  BY <1>1, Zenon DEF NodeInit
<1> QED BY <1>3, <1>4

\* Announcing txs or their removal leads nowhere.
LEMMA TxMsgsStay ==
  ASSUME NEW S \in SUBSET Tx, NEW o \in SetToSeqs(S), NEW n \in Nat, NEW x \in Block
  PROVE  /\ Path([i \in DOMAIN o |-> RemovedMsg(o[i], n + i - 1)], x, x)
         /\ Path([i \in DOMAIN o |-> AddedMsg(o[i], n + i - 1)], x, x)
<1> DEFINE removed == [i \in DOMAIN o |-> RemovedMsg(o[i], n + i - 1)]
           added == [i \in DOMAIN o |-> AddedMsg(o[i], n + i - 1)]
<1>1. removed \in Seq(NodeMsgs) /\ added \in Seq(NodeMsgs)
  BY RemovedMsgs
<1>2. \A i \in DOMAIN removed : IsTxMsg(removed[i])
  BY DEF RemovedMsg, IsTxMsg
<1>3. \A i \in DOMAIN added : IsTxMsg(added[i])
  BY DEF AddedMsg, IsTxMsg
<1> HIDE DEF removed, added
<1>4. Path(removed, x, x) /\ Path(added, x, x)
  BY <1>1, <1>2, <1>3, PathStays
<1> QED BY <1>4 DEF removed, added

\* What the node publishes leads from its old tip to its new one.
LEMMA DisconnectTipPublishes ==
  ASSUME NodeOK, DisconnectTip
  PROVE  \E s \in Seq(NodeMsgs) : zmq' = zmq \o s /\ Path(s, node_tip, node_tip')
<1> DEFINE m == DisconnectedMsg(node_tip)
<1>1. /\ node_tip' = Parent[node_tip] /\ Parent[node_tip] # NoBlock
      /\ node_tip \in Block /\ zmq \in Seq(NodeMsgs) /\ node_seq \in Nat
      /\ BlockTxs[node_tip] \in SUBSET Tx
  BY BlockTxsAssumption DEF DisconnectTip, NodeOK
<1>2. PICK o \in SetToSeqs(BlockTxs[node_tip]) :
        zmq' = Append(zmq, m) \o [i \in DOMAIN o |-> AddedMsg(o[i], node_seq + i - 1)]
  BY DEF DisconnectTip, TopologicalOrders
<1> DEFINE added == [i \in DOMAIN o |-> AddedMsg(o[i], node_seq + i - 1)]
<1>3. node_tip' \in Block
  BY <1>1, ParentAssumption
<1>4. added \in Seq(NodeMsgs) /\ Path(added, node_tip', node_tip')
  BY <1>1, <1>3, RemovedMsgs, TxMsgsStay
<1>5. m \in NodeMsgs
  BY <1>1, Messages
<1>6. Path(<<m>>, node_tip, node_tip')
  BY <1>1, <1>3, PathOne DEF Moves, DisconnectedMsg
<1> HIDE DEF m, added
<1>7. <<m>> \in Seq(NodeMsgs)
  BY <1>5
<1>8. Path(<<m>> \o added, node_tip, node_tip')
  BY <1>4, <1>6, <1>7, PathConcat
<1>9. <<m>> \o added \in Seq(NodeMsgs)
  BY <1>4, <1>7, ConcatProperties
<1>10. zmq' = zmq \o (<<m>> \o added)
  <2>1. zmq' = Append(zmq, m) \o added
    BY <1>2 DEF added
  <2>2. Append(zmq, m) = zmq \o <<m>>
    BY <1>1, <1>5
  <2> QED BY <1>1, <1>4, <1>7, <2>1, <2>2, ConcatAssociative
<1> QED BY <1>8, <1>9, <1>10

LEMMA NodePublishes ==
  ASSUME NodeOK, NodeNext
  PROVE  \E s \in Seq(NodeMsgs) : zmq' = zmq \o s /\ Path(s, node_tip, node_tip')
<1>1. node_tip \in Block /\ zmq \in Seq(NodeMsgs) /\ node_seq \in Nat
  BY DEF NodeOK
<1>2. ASSUME NEW t \in Tx, NodeAddTx(t)
      PROVE  \E s \in Seq(NodeMsgs) : zmq' = zmq \o s /\ Path(s, node_tip, node_tip')
  <2> DEFINE m == AddedMsg(t, node_seq)
  <2>1. m \in NodeMsgs /\ Moves(m, node_tip, node_tip)
    BY <1>1, Messages DEF AddedMsg, Moves
  <2>2. zmq' = Append(zmq, m) /\ node_tip' = node_tip
    BY <1>2 DEF NodeAddTx
  <2> HIDE DEF m
  <2>3. zmq' = zmq \o <<m>> /\ <<m>> \in Seq(NodeMsgs)
    BY <1>1, <2>1, <2>2
  <2> QED BY <1>1, <2>1, <2>2, <2>3, PathOne
<1>3. ASSUME NEW t \in Tx, NodeRemoveTx(t)
      PROVE  \E s \in Seq(NodeMsgs) : zmq' = zmq \o s /\ Path(s, node_tip, node_tip')
  <2> DEFINE gone == {t} \cup DescendantsIn(node_txs, {t})
  <2>1. gone \in SUBSET Tx
    BY DEF DescendantsIn, LeastClosed, NodeOK
  <2>2. /\ node_tip' = node_tip
        /\ \E order \in SetToSeqs(gone) :
             zmq' = zmq \o [i \in DOMAIN order |-> RemovedMsg(order[i], node_seq + i - 1)]
    BY <1>3 DEF NodeRemoveTx
  <2> HIDE DEF gone
  <2>3. PICK o \in SetToSeqs(gone) :
          zmq' = zmq \o [i \in DOMAIN o |-> RemovedMsg(o[i], node_seq + i - 1)]
    BY <2>2
  <2> DEFINE s == [i \in DOMAIN o |-> RemovedMsg(o[i], node_seq + i - 1)]
  <2>4. s \in Seq(NodeMsgs) /\ Path(s, node_tip, node_tip)
    BY <1>1, <2>1, RemovedMsgs, TxMsgsStay
  <2> QED BY <2>2, <2>3, <2>4
<1>4. ASSUME NEW b \in Block, NodeConnect(b)
      PROVE  \E s \in Seq(NodeMsgs) : zmq' = zmq \o s /\ Path(s, node_tip, node_tip')
  <2> DEFINE m == ConnectedMsg(b)
  <2>1. zmq' = Append(zmq, m) /\ node_tip' = b /\ Parent[b] = node_tip
    BY <1>4 DEF NodeConnect
  <2>2. m \in NodeMsgs /\ Moves(m, node_tip, b)
    BY <2>1, Messages DEF ConnectedMsg, Moves
  <2> HIDE DEF m
  <2>3. zmq' = zmq \o <<m>> /\ <<m>> \in Seq(NodeMsgs)
    BY <1>1, <2>1, <2>2
  <2> QED BY <1>1, <2>1, <2>2, <2>3, PathOne
<1>5. ASSUME NodeInvalidateTip
      PROVE  \E s \in Seq(NodeMsgs) : zmq' = zmq \o s /\ Path(s, node_tip, node_tip')
  <2>1. zmq' = zmq \o << >> /\ node_tip' = node_tip /\ << >> \in Seq(NodeMsgs)
    BY <1>1, <1>5 DEF NodeInvalidateTip
  <2> QED BY <1>1, <2>1, PathEmpty
<1> QED BY <1>2, <1>3, <1>4, <1>5, DisconnectTipPublishes
        DEF NodeNext, NodeReorg, NodeInvalidates

==============================================================================
