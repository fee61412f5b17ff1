---------------------------- MODULE EnforcerSync ----------------------------
(***************************************************************************)
(* lib/cusf_enforcer.rs: the initial sync of an enforcer to a node whose   *)
(* tip moves meanwhile (initial_sync, sync_to_tip), and the task that keeps*)
(* it in step afterwards (task).  The enforcer is a Compose of two.        *)
(*                                                                         *)
(* The sync subscribes to the node's messages first, asks for the best     *)
(* block, syncs the enforcer to it, and asks again.  If the best block is  *)
(* another one by then, it reads messages and follows them with block_hash *)
(* and block_parent until it stands at that block.                         *)
(***************************************************************************)
EXTENDS BitcoinNode

CONSTANTS
  Rejects,        \* Rejects[e]: the blocks that enforcer e finds invalid
  SyncedTo,       \* the block that the enforcers were at when they last ran
  Interruptions   \* TRUE if RPCs and the stream may fail, or a shutdown arrive

\* The two halves of Compose, fields 0 and 1.
Enforcers == {"left", "right"}

ASSUME RejectsAssumption ==
  /\ Rejects \in [Enforcers -> SUBSET Block]
  /\ \A e \in Enforcers : \A b \in Rejects[e] : Parent[b] # NoBlock
ASSUME SyncedToAssumption == SyncedTo \in Block
ASSUME InterruptionsAssumption == Interruptions \in BOOLEAN

VARIABLES
  enforcer,            \* the block each enforcer's state is synced to
  \* locals of initial_sync
  block_hash, block_parent, best_block_hash,
  \* locals of sync_to_tip
  sync_tip,            \* `tip`
  invalidated_blocks,
  \* control
  phase,
  fresh                \* history: no unread block message was about a change
                       \* before the one that the first best block shows

cursorVars == <<block_hash, block_parent, best_block_hash, fresh>>

syncVars == <<sync_tip, invalidated_blocks>>

vars == <<nodeVars, enforcer, cursorVars, syncVars, phase>>

\* The sync or the task ends with an error.
Stop(error) ==
  /\ phase' = error
  /\ UNCHANGED <<nodeVars, enforcer, cursorVars, syncVars>>

IsBlockMsg(msg) == msg.event \in {"Connected", "Disconnected"}

------------------------------------------------------------------------------
\* initial_sync, from the moment at which subscribe_sequence has returned.

Init ==
  /\ NodeInit
  /\ enforcer = [e \in Enforcers |-> SyncedTo]
  /\ block_hash = NoBlock /\ block_parent = NoBlock /\ best_block_hash = NoBlock
  /\ sync_tip = NoBlock /\ invalidated_blocks = {}
  /\ phase = "subscribed"
  /\ fresh = FALSE

\* sync_to_tip is entered, the left enforcer first.
SyncToTip(tip) ==
  /\ sync_tip' = tip
  /\ invalidated_blocks' = {}
  /\ phase' = "left"

\* getbestblockhash and getblockheader
FetchBestBlock ==
  /\ phase = "subscribed"
  /\ block_hash' = node_tip
  /\ block_parent' = Parent[node_tip]
  /\ fresh' = \A i \in DOMAIN zmq : ~IsBlockMsg(zmq[i])
  /\ SyncToTip(node_tip)
  /\ UNCHANGED <<nodeVars, enforcer, best_block_hash>>

\* Compose::sync_to_tip: an enforcer syncs to the tip, with or without looking
\* at the blocks on the way.  The right one's turn comes after the left one's.
EnforcerSyncs(e) ==
  /\ phase = e
  /\ enforcer' = [enforcer EXCEPT ![e] = sync_tip]
  /\ phase' = IF e = "left" THEN "right" ELSE "synced"
  /\ UNCHANGED <<nodeVars, cursorVars, syncVars>>

\* Wrong: the sync is tried again with the same tip.
EnforcerReportsAgain(e, b) ==
  /\ phase = e
  /\ b \in Ancestors[sync_tip] \cap Rejects[e]
  /\ \E a \in Ancestors[Parent[b]] : enforcer' = [enforcer EXCEPT ![e] = a]
  /\ IF b \in invalidated_blocks
     THEN phase' = "panicked" /\ UNCHANGED <<node_invalid, invalidated_blocks>>
     ELSE /\ invalidated_blocks' = invalidated_blocks \cup {b}
          /\ node_invalid' = node_invalid \cup {b}
          /\ phase' = "left"
  /\ UNCHANGED <<node_tip, node_txs, node_seq, node_events, zmq, cursorVars, sync_tip>>

\* SyncToTipError::InvalidBlock: the enforcer has stopped at an ancestor of a
\* block that it finds invalid.  invalidateblock is called, and must not have
\* been for the same block before.
EnforcerReportsInvalid(e, b) ==
  /\ phase = e
  /\ b \in Ancestors[sync_tip] \cap Rejects[e]
  /\ \E a \in Ancestors[Parent[b]] : enforcer' = [enforcer EXCEPT ![e] = a]
  /\ IF b \in invalidated_blocks
     THEN phase' = "panicked" /\ UNCHANGED <<node_invalid, invalidated_blocks>>
     ELSE /\ invalidated_blocks' = invalidated_blocks \cup {b}
          /\ node_invalid' = node_invalid \cup {b}
          /\ phase' = "invalidating"
  /\ UNCHANGED <<node_tip, node_txs, node_seq, node_events, zmq, cursorVars, sync_tip>>

\* invalidateblock returns when the node has left the block's chain.  The sync
\* starts over with what getbestblockhash then says.
RetrySync ==
  /\ phase = "invalidating"
  /\ Ancestors[node_tip] \cap invalidated_blocks = {}
  /\ sync_tip' = node_tip
  /\ phase' = "left"
  /\ UNCHANGED <<nodeVars, enforcer, cursorVars, invalidated_blocks>>

\* Wrong: the best block is looked up once, and what sync_to_tip returns is
\* taken to be it.
BestBlockUnchecked ==
  /\ phase = "synced"
  /\ phase' = "done"
  /\ UNCHANGED <<nodeVars, enforcer, cursorVars, syncVars>>

\* Wrong: the best block that the messages led to is not looked up again.
BestBlockUnchanged ==
  /\ phase = "synced"
  /\ block_hash \in {node_tip, best_block_hash}
  /\ phase' = "done"
  /\ UNCHANGED <<nodeVars, enforcer, cursorVars, syncVars>>

\* getbestblockhash says that the enforcer is at the node's tip.
BestBlockReached ==
  /\ phase = "synced"
  /\ block_hash = node_tip
  /\ phase' = "done"
  /\ UNCHANGED <<nodeVars, enforcer, cursorVars, syncVars>>

BestBlockChanged ==
  /\ phase = "synced"
  /\ block_hash # node_tip
  /\ best_block_hash' = node_tip
  /\ phase' = "reading"
  /\ UNCHANGED <<nodeVars, enforcer, block_hash, block_parent, fresh, syncVars>>

\* The next message of the stream.
Reads(msg) ==
  /\ zmq # << >>
  /\ msg = Head(zmq)
  /\ zmq' = Tail(zmq)
  /\ UNCHANGED <<node_tip, node_txs, node_seq, node_invalid, node_events>>

\* A message of the loop 'drop_seq_msgs that moves block_hash: it is the last
\* one if this is the best block.
Follows(hash, parent) ==
  /\ block_hash' = hash
  /\ block_parent' = parent
  /\ IF hash = best_block_hash
     THEN SyncToTip(hash)
     ELSE UNCHANGED <<syncVars, phase>>
  /\ UNCHANGED <<enforcer, best_block_hash, fresh>>

\* Wrong: a disconnect goes to the message's block.
DropsDisconnectOf ==
  /\ phase = "reading"
  /\ \E b \in Block : /\ Reads(DisconnectedMsg(b))
                      /\ Follows(b, Parent[b])

\* Wrong: block_parent is left as it was.
DropsConnectKeepsParent ==
  /\ phase = "reading"
  /\ \E b \in Block : /\ Reads(ConnectedMsg(b))
                      /\ Follows(b, block_parent)

DropsConnect ==
  /\ phase = "reading"
  /\ \E b \in Block : /\ Reads(ConnectedMsg(b))
                      /\ Follows(b, block_hash)

\* The parent's parent is asked for, with getblockheader.
DropsDisconnect ==
  /\ phase = "reading"
  /\ block_parent # NoBlock
  /\ \E b \in Block : /\ Reads(DisconnectedMsg(b))
                      /\ Follows(block_parent, Parent[block_parent])

\* There is no header for BlockHash::all_zeros.
DropsDisconnectOfFirst ==
  /\ phase = "reading"
  /\ block_parent = NoBlock
  /\ zmq # << >> /\ Head(zmq).event = "Disconnected"
  /\ Stop("JsonRpc")

DropsTxMsg ==
  /\ phase = "reading"
  /\ \E msg \in ToSet(zmq) : ~IsBlockMsg(msg) /\ Reads(msg)
  /\ UNCHANGED <<enforcer, cursorVars, syncVars, phase>>

InitialSync ==
  \/ FetchBestBlock
  \/ \E e \in Enforcers : \/ EnforcerSyncs(e)
                          \/ \E b \in Block : EnforcerReportsInvalid(e, b)
  \/ RetrySync
  \/ BestBlockReached \/ BestBlockChanged
  \/ DropsConnect \/ DropsDisconnect \/ DropsDisconnectOfFirst \/ DropsTxMsg

------------------------------------------------------------------------------
\* task, after initial_sync.  An enforcer that keeps a chain of its own fails
\* to connect a block that does not extend it, and to disconnect any other
\* than its last.

TaskStarts ==
  /\ phase = "done"
  /\ phase' = "task"
  /\ UNCHANGED <<nodeVars, enforcer, cursorVars, syncVars>>

TaskSkipsTxMsg ==
  /\ phase = "task"
  /\ \E msg \in ToSet(zmq) : ~IsBlockMsg(msg) /\ Reads(msg)
  /\ UNCHANGED <<enforcer, cursorVars, syncVars, phase>>

\* CusfEnforcer::connect_block, disconnect_block of one of the two.
ConnectOne(state, e, b) ==
  IF b \in Rejects[e] THEN state ELSE [state EXCEPT ![e] = b]

DisconnectOne(state, e, b) == [state EXCEPT ![e] = Parent[b]]

\* Wrong: the left enforcer keeps a block that the right one rejects.
ComposeConnectKeeps(b) ==
  LET left == ConnectOne(enforcer, "left", b)
  IN  IF b \in Rejects["left"] THEN enforcer
      ELSE ConnectOne(left, "right", b)

\* Compose::connect_block: what the right one rejects is taken back from the
\* left one.
ComposeConnect(b) ==
  LET left == ConnectOne(enforcer, "left", b)
  IN  IF b \in Rejects["left"] THEN enforcer
      ELSE IF b \in Rejects["right"] THEN DisconnectOne(left, "left", b)
      ELSE ConnectOne(left, "right", b)

\* A block is connected, or rejected and invalidated.
TaskConnects(b) ==
  /\ phase = "task"
  /\ zmq # << >> /\ Head(zmq) = ConnectedMsg(b)
  /\ \A e \in Enforcers : enforcer[e] = Parent[b]
  /\ zmq' = Tail(zmq)
  /\ enforcer' = ComposeConnect(b)
  /\ node_invalid' = IF \E e \in Enforcers : b \in Rejects[e]
                     THEN node_invalid \cup {b} ELSE node_invalid
  /\ UNCHANGED <<node_tip, node_txs, node_seq, node_events, cursorVars, syncVars, phase>>

TaskConnectFails(b) ==
  /\ phase = "task"
  /\ zmq # << >> /\ Head(zmq) = ConnectedMsg(b)
  /\ \E e \in Enforcers : enforcer[e] # Parent[b]
  /\ Stop("ConnectBlock")

TaskDisconnects(b) ==
  /\ phase = "task"
  /\ \A e \in Enforcers : enforcer[e] = b
  /\ Reads(DisconnectedMsg(b))
  /\ enforcer' = DisconnectOne(DisconnectOne(enforcer, "left", b), "right", b)
  /\ UNCHANGED <<cursorVars, syncVars, phase>>

TaskDisconnectFails(b) ==
  /\ phase = "task"
  /\ zmq # << >> /\ Head(zmq) = DisconnectedMsg(b)
  /\ \E e \in Enforcers : enforcer[e] # b
  /\ Stop("DisconnectBlock")

Task ==
  \/ TaskStarts
  \/ TaskSkipsTxMsg
  \/ \E b \in Block : \/ TaskConnects(b) \/ TaskConnectFails(b)
                      \/ TaskDisconnects(b) \/ TaskDisconnectFails(b)

Ended == {"panicked", "JsonRpc", "ConnectBlock", "DisconnectBlock", "Interrupted"}

Interrupted ==
  /\ Interruptions
  /\ phase \notin Ended
  /\ Stop("Interrupted")

NodeStep ==
  /\ NodeNext
  /\ UNCHANGED <<enforcer, cursorVars, syncVars, phase>>

Next == NodeStep \/ InitialSync \/ Task \/ Interrupted

Spec == Init /\ [][Next]_vars

\* The node carries out an `invalidateblock`, and the sync is polled.
Fairness ==
  /\ WF_vars(NodeInvalidates /\ UNCHANGED <<enforcer, cursorVars, syncVars, phase>>)
  /\ WF_vars(InitialSync)

FairSpec == Spec /\ Fairness

------------------------------------------------------------------------------

Phases == {"subscribed", "left", "right", "invalidating", "synced", "reading",
           "done", "task"} \cup Ended

\* Type correctness: enforcers and the node are at blocks, the cursor at blocks
\* as soon as it has been set, and its parent is a block unless it has none.
TypeOK ==
  /\ enforcer \in [Enforcers -> Block]
  /\ node_tip \in Block
  /\ {block_hash, block_parent, best_block_hash, sync_tip} \subseteq Block \cup {NoBlock}
  /\ invalidated_blocks \subseteq Block
  /\ phase \in Phases
  /\ phase \notin {"subscribed"} \cup Ended => {block_hash, sync_tip} \subseteq Block

\* initial_sync returns the block that both enforcers are at.  This is not what
\* the code compares: it throws away the tip that sync_to_tip reports, which is
\* another one if a block was invalidated, and relies on the node never having
\* an invalidated block in its chain again.
SyncedTogether ==
  phase = "done" => enforcer = [e \in Enforcers |-> block_hash]

\* The block before and after a block message.
Before(msg) == IF msg.event = "Connected" THEN Parent[msg.block] ELSE msg.block

After(msg) == IF msg.event = "Connected" THEN msg.block ELSE Parent[msg.block]

\* Where the first n messages lead.
StandsAt(msgs, from, n) ==
  LET seen == {i \in 1 .. n : IsBlockMsg(msgs[i])}
  IN  IF seen = {} THEN from ELSE After(msgs[Max(seen)])

\* The messages lead from one block to the other, each from where the one
\* before led.
Leads(msgs, from, to) ==
  /\ StandsAt(msgs, from, Len(msgs)) = to
  /\ \A i \in DOMAIN msgs :
       IsBlockMsg(msgs[i]) => Before(msgs[i]) = StandsAt(msgs, from, i - 1)

\* No change of the chain is lost between the sync and what reads the stream
\* after it: from some message on, the unread ones lead from the block that
\* initial_sync returns to the node's tip.
NothingMissed ==
  phase = "done" =>
    \E n \in 0 .. Len(zmq) : Leads(SubSeq(zmq, n + 1, Len(zmq)), block_hash, node_tip)

\* And if no unread message was about a change before the first best block, the
\* reader can start with the first: nothing is left over from what the enforcer
\* was synced across, least of all the disconnects of an invalidation.
CleanHandover ==
  fresh /\ phase = "done" => Leads(zmq, block_hash, node_tip)

\* The assertion in sync_to_tip does not fail: no enforcer is given a chain
\* with a block in it that it has reported already.
NeverPanics == phase # "panicked"

\* Between two messages the halves of a Compose are at the same block, however
\* they judged the one before.
EnforcersAgree == phase \in {"done", "task"} => enforcer["left"] = enforcer["right"]

\* The initial sync comes to an end, under the same condition.
FreshSyncCompletes ==
  (fresh /\ phase = "left") ~> (phase \in {"done", "task", "Interrupted"})

==============================================================================
