------------------------ MODULE EnforcerSync_proofs -------------------------
(***************************************************************************)
(* Theorems about the initial sync and the task of lib/cusf_enforcer.rs,   *)
(* for every chain of blocks, every pair of enforcers and any number of    *)
(* node events.                                                            *)
(***************************************************************************)
EXTENDS EnforcerSync, BitcoinNode_proofs

------------------------------------------------------------------------------
\* The inductive invariant.

\* The sync has been started, and has neither returned nor failed.
Syncing == {"left", "right", "invalidating", "synced"}

\* What was reported is invalid for the node as well.  Once the node has worked
\* it off, nothing reported is below its tip, nor below the tip synced to.
ReportedOK ==
  /\ phase \in Syncing => invalidated_blocks \subseteq node_invalid
  /\ phase \in {"left", "right", "synced"} =>
       /\ Ancestors[node_tip] \cap invalidated_blocks = {}
       /\ Ancestors[sync_tip] \cap invalidated_blocks = {}

\* The tip synced to is block_hash, or something below block_hash is invalid.
RequestedOK ==
  phase \in Syncing =>
    \/ phase # "invalidating" /\ invalidated_blocks = {} /\ sync_tip = block_hash
    \/ Ancestors[block_hash] \cap invalidated_blocks # {}

\* Where the enforcers are.
EnforcersOK ==
  /\ phase = "right" => enforcer["left"] = sync_tip
  /\ phase = "synced" => enforcer = [e \in Enforcers |-> sync_tip]
  /\ phase = "done" => enforcer = [e \in Enforcers |-> block_hash]
  /\ phase = "task" => enforcer["left"] = enforcer["right"]

SyncInv == TypeOK /\ ReportedOK /\ RequestedOK /\ EnforcersOK /\ NeverPanics

IInv == NodeOK /\ SyncInv

\* The invariant holds when subscribe_sequence has returned.
THEOREM InitIInv == Init => IInv
BY StartAssumption, NodeInitOK, SyncedToAssumption
   DEF Init, NodeInit, IInv, SyncInv, TypeOK, ReportedOK, RequestedOK, EnforcersOK,
       NeverPanics, Phases, Ended, Syncing

\* The node stays clear of what was invalidated, and touches nothing else.
LEMMA NodeStepIInv ==
  ASSUME IInv, NodeStep PROVE IInv'
<1>1. /\ NodeNext /\ node_tip \in Block
      /\ UNCHANGED <<enforcer, cursorVars, syncVars, phase>>
  BY DEF NodeStep, IInv, SyncInv, TypeOK
<1>2. NodeOK' /\ node_invalid \subseteq node_invalid'
  BY <1>1, NodeStepNodeOK, InvalidStays DEF IInv, SyncInv
<1>3. TypeOK'
  BY <1>1, <1>2 DEF IInv, SyncInv, TypeOK, NodeOK, cursorVars, syncVars
<1>4. ReportedOK'
  <2>1. phase \in {"left", "right", "synced"} =>
          Ancestors[node_tip'] \cap invalidated_blocks = {}
    BY <1>1, NodeStaysClear DEF IInv, SyncInv, ReportedOK, Syncing
  <2> QED BY <1>1, <1>2, <2>1 DEF IInv, SyncInv, ReportedOK, syncVars
<1>5. RequestedOK' /\ EnforcersOK' /\ NeverPanics'
  BY <1>1 DEF IInv, SyncInv, RequestedOK, EnforcersOK, NeverPanics, cursorVars, syncVars
<1> QED BY <1>2, <1>3, <1>4, <1>5 DEF IInv, SyncInv

------------------------------------------------------------------------------
\* The steps of the initial sync.

\* A sync that starts anew has nothing to answer for.
LEMMA SyncToTipOK ==
  ASSUME NEW b \in Block, SyncToTip(b), block_hash' = b
  PROVE  ReportedOK' /\ RequestedOK' /\ EnforcersOK' /\ NeverPanics'
BY DEF SyncToTip, ReportedOK, RequestedOK, EnforcersOK, NeverPanics, Syncing

\* The sync starts at the best block of the node.
LEMMA FetchBestBlockIInv ==
  ASSUME IInv, FetchBestBlock PROVE SyncInv'
<1>1. TypeOK'
  BY ParentAssumption
     DEF IInv, SyncInv, FetchBestBlock, SyncToTip, TypeOK, nodeVars, Phases, Ended
<1>2. ReportedOK' /\ RequestedOK' /\ EnforcersOK' /\ NeverPanics'
  BY SyncToTipOK DEF FetchBestBlock, IInv, SyncInv, TypeOK
<1> QED BY <1>1, <1>2 DEF IInv, SyncInv

\* An enforcer that has had its turn is at the tip.
LEMMA EnforcerSyncsIInv ==
  ASSUME IInv, NEW e \in Enforcers, EnforcerSyncs(e) PROVE SyncInv'
<1>1. /\ phase = e /\ phase' = IF e = "left" THEN "right" ELSE "synced"
      /\ enforcer' = [enforcer EXCEPT ![e] = sync_tip]
      /\ UNCHANGED <<nodeVars, cursorVars, syncVars>>
  BY DEF EnforcerSyncs
<1>2. e \in {"left", "right"} /\ enforcer \in [Enforcers -> Block] /\ sync_tip \in Block
  BY <1>1 DEF IInv, SyncInv, TypeOK, Enforcers, Ended
<1>3. TypeOK'
  BY <1>1, <1>2 DEF IInv, SyncInv, TypeOK, Phases, Ended, nodeVars, cursorVars, syncVars
<1>4. ReportedOK' /\ RequestedOK' /\ NeverPanics'
  BY <1>1, <1>2 DEF IInv, SyncInv, ReportedOK, RequestedOK, NeverPanics, Syncing, nodeVars,
                    cursorVars, syncVars
<1>5. EnforcersOK'
  BY <1>1, <1>2 DEF IInv, SyncInv, EnforcersOK, Enforcers, cursorVars, syncVars
<1> QED BY <1>3, <1>4, <1>5 DEF IInv, SyncInv

\* What is reported is below the tip synced to, and hence new.
LEMMA EnforcerReportsIInv ==
  ASSUME IInv, NEW e \in Enforcers, NEW b \in Block, EnforcerReportsInvalid(e, b)
  PROVE  SyncInv'
<1>1. /\ phase = e /\ e \in {"left", "right"}
      /\ b \in Ancestors[sync_tip] /\ b \in Rejects[e]
      /\ UNCHANGED <<node_tip, cursorVars, sync_tip>>
  BY DEF EnforcerReportsInvalid, Enforcers
<1>2. b \notin invalidated_blocks
  BY <1>1 DEF IInv, SyncInv, ReportedOK
<1>3. /\ phase' = "invalidating"
      /\ invalidated_blocks' = invalidated_blocks \cup {b}
      /\ node_invalid' = node_invalid \cup {b}
  BY <1>2 DEF EnforcerReportsInvalid
<1>4. enforcer' \in [Enforcers -> Block]
  <2>1. Parent[b] \in Block
    BY <1>1, RejectsAssumption, ParentAssumption
  <2>2. PICK a \in Ancestors[Parent[b]] : enforcer' = [enforcer EXCEPT ![e] = a]
    BY DEF EnforcerReportsInvalid
  <2>3. a \in Block
    BY <2>1, <2>2, AncestorsClosed
  <2> QED BY <2>2, <2>3 DEF IInv, SyncInv, TypeOK
<1>5. TypeOK'
  BY <1>1, <1>3, <1>4 DEF IInv, SyncInv, TypeOK, Phases, Ended, cursorVars
<1>6. ReportedOK'
  BY <1>1, <1>3 DEF IInv, SyncInv, ReportedOK, Syncing
<1>7. RequestedOK'
  BY <1>1, <1>3 DEF IInv, SyncInv, RequestedOK, Syncing, cursorVars
<1> QED BY <1>3, <1>5, <1>6, <1>7 DEF IInv, SyncInv, EnforcersOK, NeverPanics

\* The sync starts over with a tip that nothing reported is below.
LEMMA RetrySyncIInv ==
  ASSUME IInv, RetrySync PROVE SyncInv'
<1>1. /\ phase = "invalidating" /\ phase' = "left"
      /\ Ancestors[node_tip] \cap invalidated_blocks = {} /\ sync_tip' = node_tip
      /\ UNCHANGED <<nodeVars, enforcer, cursorVars, invalidated_blocks>>
  BY DEF RetrySync
<1>2. TypeOK'
  BY <1>1 DEF IInv, SyncInv, TypeOK, Phases, Ended, nodeVars, cursorVars
<1>3. ReportedOK'
  BY <1>1 DEF IInv, SyncInv, ReportedOK, Syncing, nodeVars
<1>4. RequestedOK'
  BY <1>1 DEF IInv, SyncInv, RequestedOK, Syncing, cursorVars
<1>5. EnforcersOK' /\ NeverPanics'
  BY <1>1 DEF EnforcersOK, NeverPanics
<1> QED BY <1>2, <1>3, <1>4, <1>5 DEF IInv, SyncInv

\* The block that the sync returns is the node's tip, so nothing reported is
\* below it: then nothing was reported, and it is the tip synced to.
LEMMA BestBlockReachedIInv ==
  ASSUME IInv, BestBlockReached PROVE SyncInv'
<1>1. /\ phase = "synced" /\ phase' = "done" /\ block_hash = node_tip
      /\ UNCHANGED <<nodeVars, enforcer, cursorVars, syncVars>>
  BY DEF BestBlockReached
<1>2. sync_tip = block_hash
  BY <1>1 DEF IInv, SyncInv, ReportedOK, RequestedOK, Syncing
<1>3. TypeOK'
  BY <1>1 DEF IInv, SyncInv, TypeOK, Phases, Ended, nodeVars, cursorVars, syncVars
<1>4. EnforcersOK'
  BY <1>1, <1>2 DEF IInv, SyncInv, EnforcersOK, cursorVars
<1>5. ReportedOK' /\ RequestedOK' /\ NeverPanics'
  BY <1>1 DEF ReportedOK, RequestedOK, NeverPanics, Syncing
<1> QED BY <1>3, <1>4, <1>5 DEF IInv, SyncInv

\* Outside of Syncing, "done" and "task" only types matter.
LEMMA OtherPhase ==
  ASSUME phase' \notin Syncing \cup {"done", "task", "panicked"}
  PROVE  ReportedOK' /\ RequestedOK' /\ EnforcersOK' /\ NeverPanics'
BY DEF ReportedOK, RequestedOK, EnforcersOK, NeverPanics, Syncing

\* The best block is another one: the sync stands by.
LEMMA BestBlockChangedIInv ==
  ASSUME IInv, BestBlockChanged PROVE SyncInv'
<1>1. TypeOK'
  BY DEF BestBlockChanged, IInv, SyncInv, TypeOK, Phases, Ended, nodeVars, syncVars
<1>2. phase' = "reading"
  BY DEF BestBlockChanged
<1> QED BY <1>1, <1>2, OtherPhase DEF IInv, SyncInv, Syncing

\* A block message is followed, and the sync may start anew at its block.
LEMMA FollowsIInv ==
  ASSUME IInv, phase = "reading", NEW hash \in Block, NEW parent \in Block \cup {NoBlock},
         NEW msg, Reads(msg), Follows(hash, parent)
  PROVE  SyncInv'
<1>1. TypeOK'
  BY DEF Reads, Follows, SyncToTip, IInv, SyncInv, TypeOK, Phases, Ended, syncVars
<1>2. CASE hash = best_block_hash
  BY <1>1, <1>2, SyncToTipOK DEF Follows, IInv, SyncInv
<1>3. CASE hash # best_block_hash
  <2>1. phase' = "reading"
    BY <1>3 DEF Follows
  <2> QED BY <1>1, <2>1, OtherPhase DEF IInv, SyncInv, Syncing
<1> QED BY <1>2, <1>3

\* An error ends the sync or the task.
LEMMA StopIInv ==
  ASSUME IInv, NEW error \in Ended \ {"panicked"}, Stop(error) PROVE SyncInv'
<1>1. TypeOK'
  BY DEF Stop, IInv, SyncInv, TypeOK, Phases, nodeVars, cursorVars, syncVars
<1>2. phase' \notin Syncing \cup {"done", "task", "panicked"}
  BY DEF Stop, Ended, Syncing
<1> QED BY <1>1, <1>2, OtherPhase DEF IInv, SyncInv

\* The loop 'drop_seq_msgs.
LEMMA DropsIInv ==
  ASSUME IInv,
         DropsConnect \/ DropsDisconnect \/ DropsDisconnectOfFirst \/ DropsTxMsg
  PROVE  SyncInv'
<1>1. CASE DropsConnect
  <2>1. block_hash \in Block
    BY <1>1 DEF DropsConnect, IInv, SyncInv, TypeOK, Ended
  <2> QED BY <1>1, <2>1, FollowsIInv DEF DropsConnect
<1>2. CASE DropsDisconnect
  <2>1. block_parent \in Block /\ Parent[block_parent] \in Block \cup {NoBlock}
    BY <1>2, ParentAssumption DEF DropsDisconnect, IInv, SyncInv, TypeOK
  <2> QED BY <1>2, <2>1, FollowsIInv DEF DropsDisconnect
<1>3. CASE DropsDisconnectOfFirst
  BY <1>3, StopIInv DEF DropsDisconnectOfFirst, Ended
<1>4. CASE DropsTxMsg
  <2>1. TypeOK'
    BY <1>4 DEF DropsTxMsg, Reads, IInv, SyncInv, TypeOK, cursorVars, syncVars
  <2>2. phase' = "reading"
    BY <1>4 DEF DropsTxMsg
  <2> QED BY <2>1, <2>2, OtherPhase DEF IInv, SyncInv, Syncing
<1> QED BY <1>1, <1>2, <1>3, <1>4

\* All of initial_sync and sync_to_tip.
LEMMA InitialSyncIInv ==
  ASSUME IInv, InitialSync PROVE SyncInv'
BY FetchBestBlockIInv, EnforcerSyncsIInv, EnforcerReportsIInv, RetrySyncIInv,
   BestBlockReachedIInv, BestBlockChangedIInv, DropsIInv DEF InitialSync

------------------------------------------------------------------------------
\* The steps of the task.

\* A block that both may connect is connected by both or by none.
LEMMA ComposeConnects ==
  ASSUME NEW b \in Block, enforcer \in [Enforcers -> Block],
         \A e \in Enforcers : enforcer[e] = Parent[b]
  PROVE  /\ ComposeConnect(b) \in [Enforcers -> Block]
         /\ ComposeConnect(b)["left"] = ComposeConnect(b)["right"]
<1>1. enforcer["left"] = Parent[b] /\ enforcer["right"] = Parent[b] /\ Parent[b] \in Block
  BY DEF Enforcers
<1> QED BY <1>1 DEF ComposeConnect, ConnectOne, DisconnectOne, Enforcers

\* Between two messages of the task both enforcers are at the same block.
LEMMA TaskIInv ==
  ASSUME IInv, Task PROVE SyncInv'
<1> USE DEF Syncing
<1>1. CASE TaskStarts
  <2>1. TypeOK'
    BY <1>1 DEF TaskStarts, IInv, SyncInv, TypeOK, Phases, Ended, nodeVars, cursorVars,
                syncVars
  <2>2. EnforcersOK'
    BY <1>1 DEF TaskStarts, IInv, SyncInv, EnforcersOK, Enforcers
  <2> QED BY <1>1, <2>1, <2>2 DEF TaskStarts, IInv, SyncInv, ReportedOK, RequestedOK,
                                  NeverPanics
<1>2. CASE TaskSkipsTxMsg
  <2>1. TypeOK'
    BY <1>2 DEF TaskSkipsTxMsg, Reads, IInv, SyncInv, TypeOK, cursorVars, syncVars
  <2> QED BY <1>2, <2>1 DEF TaskSkipsTxMsg, IInv, SyncInv, ReportedOK, RequestedOK,
                            EnforcersOK, NeverPanics
<1>3. ASSUME NEW b \in Block, TaskConnects(b) PROVE SyncInv'
  <2>1. /\ enforcer' \in [Enforcers -> Block]
        /\ enforcer'["left"] = enforcer'["right"]
    BY <1>3, ComposeConnects DEF TaskConnects, IInv, SyncInv, TypeOK
  <2>2. TypeOK'
    BY <1>3, <2>1 DEF TaskConnects, IInv, SyncInv, TypeOK, cursorVars, syncVars
  <2> QED BY <1>3, <2>1, <2>2 DEF TaskConnects, IInv, SyncInv, ReportedOK, RequestedOK,
                                  EnforcersOK, NeverPanics
<1>4. ASSUME NEW b \in Block, TaskDisconnects(b) PROVE SyncInv'
  <2>1. /\ enforcer \in [Enforcers -> Block]
        /\ enforcer' = DisconnectOne(DisconnectOne(enforcer, "left", b), "right", b)
    BY <1>4 DEF TaskDisconnects, IInv, SyncInv, TypeOK
  <2>2. enforcer' = [e \in Enforcers |-> Parent[b]]
    BY <2>1 DEF DisconnectOne, Enforcers
  <2>3. Parent[b] \in Block
    <3>1. DisconnectedMsg(b) \in NodeMsgs
      BY <1>4, HeadTailProperties DEF TaskDisconnects, Reads, IInv, NodeOK
    <3> QED BY <3>1, ParentAssumption DEF NodeMsgs, DisconnectedMsg
  <2>4. TypeOK'
    BY <1>4, <2>2, <2>3 DEF TaskDisconnects, Reads, IInv, SyncInv, TypeOK, cursorVars, syncVars
  <2>5. EnforcersOK'
    BY <1>4, <2>2 DEF TaskDisconnects, EnforcersOK, Enforcers
  <2> QED BY <1>4, <2>4, <2>5 DEF TaskDisconnects, IInv, SyncInv, ReportedOK, RequestedOK,
                                  NeverPanics
<1>5. ASSUME NEW b \in Block, TaskConnectFails(b) \/ TaskDisconnectFails(b) PROVE SyncInv'
  BY <1>5, StopIInv DEF TaskConnectFails, TaskDisconnectFails, Ended
<1> QED BY <1>1, <1>2, <1>3, <1>4, <1>5 DEF Task

\* Only the node publishes.
LEMMA OthersNodeOK ==
  ASSUME NodeOK, InitialSync \/ Task \/ Interrupted \/ UNCHANGED vars PROVE NodeOK'
<1>1. /\ UNCHANGED <<node_tip, node_txs, node_seq>>
      /\ \/ UNCHANGED zmq
         \/ zmq # << >> /\ zmq' = Tail(zmq)
  <2> USE DEF nodeVars, Reads, Stop
  <2>1. CASE InitialSync
    BY <2>1 DEF InitialSync, FetchBestBlock, EnforcerSyncs, EnforcerReportsInvalid,
                RetrySync, BestBlockReached, BestBlockChanged, DropsConnect,
                DropsDisconnect, DropsDisconnectOfFirst, DropsTxMsg
  <2>2. CASE Task
    BY <2>2 DEF Task, TaskStarts, TaskSkipsTxMsg, TaskConnects, TaskConnectFails,
                TaskDisconnects, TaskDisconnectFails
  <2>3. CASE Interrupted
    BY <2>3 DEF Interrupted
  <2>4. CASE UNCHANGED vars
    BY <2>4 DEF vars
  <2> QED BY <2>1, <2>2, <2>3, <2>4
<1> QED BY <1>1, HeadTailProperties DEF NodeOK

------------------------------------------------------------------------------
\* Every step of node, sync, task and failures preserves the invariant.
THEOREM NextIInv == IInv /\ [Next]_vars => IInv'
<1> SUFFICES ASSUME IInv, [Next]_vars PROVE IInv'
  OBVIOUS
<1>1. CASE NodeStep
  BY <1>1, NodeStepIInv
<1>2. CASE InitialSync
  BY <1>2, InitialSyncIInv, OthersNodeOK DEF IInv
<1>3. CASE Task
  BY <1>3, TaskIInv, OthersNodeOK DEF IInv
<1>4. CASE Interrupted
  <2>1. SyncInv'
    BY <1>4, StopIInv DEF Interrupted, Ended
  <2> QED BY <1>4, <2>1, OthersNodeOK DEF IInv
<1>5. CASE UNCHANGED vars
  <2>1. SyncInv'
    BY <1>5 DEF IInv, SyncInv, TypeOK, ReportedOK, RequestedOK, EnforcersOK, NeverPanics,
                vars, nodeVars, cursorVars, syncVars
  <2> QED BY <1>5, <2>1, OthersNodeOK DEF IInv
<1> QED BY <1>1, <1>2, <1>3, <1>4, <1>5 DEF Next

\* The node is in order, what was reported stays out of the tip synced to, and
\* the enforcers are at the blocks their turns have taken them to.
THEOREM InductiveInvariant == Spec => []IInv
BY InitIInv, NextIInv, PTL DEF Spec

\* The locals of the sync keep their types, and block_hash and tip are blocks
\* of the chain once they have been set.
THEOREM TypeCorrect == Spec => []TypeOK
<1>1. IInv => TypeOK
  BY DEF IInv, SyncInv
<1> QED BY <1>1, InductiveInvariant, PTL

\* initial_sync never returns a block that an enforcer is not at, although it
\* throws away the tip that sync_to_tip returns.
THEOREM SyncedTogetherHolds == Spec => []SyncedTogether
<1>1. IInv => SyncedTogether
  BY DEF IInv, SyncInv, EnforcersOK, SyncedTogether
<1> QED BY <1>1, InductiveInvariant, PTL

\* sync_to_tip's assertion never fails.
THEOREM NeverPanicsHolds == Spec => []NeverPanics
<1>1. IInv => NeverPanics
  BY DEF IInv, SyncInv
<1> QED BY <1>1, InductiveInvariant, PTL

\* The halves of a Compose never drift apart, whichever of them rejects what.
THEOREM EnforcersAgreeHolds == Spec => []EnforcersAgree
<1>1. IInv => EnforcersAgree
  BY DEF IInv, SyncInv, EnforcersOK, EnforcersAgree, Enforcers
<1> QED BY <1>1, InductiveInvariant, PTL

------------------------------------------------------------------------------
\* The handover of the message stream.

\* A path leads to where it ends, and each message of it starts where the one
\* before led.
LEMMA PathLeads ==
  ASSUME NEW msgs \in Seq(NodeMsgs), NEW from, NEW to, Path(msgs, from, to)
  PROVE  Leads(msgs, from, to)
<1>1. PICK w : Walk(msgs, w) /\ w[0] = from /\ w[Len(msgs)] = to
  BY DEF Path
<1>2. /\ Len(msgs) \in Nat /\ DOMAIN msgs = 1 .. Len(msgs)
      /\ \A i \in 1 .. Len(msgs) : Moves(msgs[i], w[i - 1], w[i])
  BY <1>1 DEF Walk
<1> DEFINE T == {n \in Nat : n <= Len(msgs) => StandsAt(msgs, from, n) = w[n]}
           seen(n) == {i \in 1 .. n : IsBlockMsg(msgs[i])}
<1>3. 0 \in T
  <2>1. seen(0) = {}
    OBVIOUS
  <2> QED BY <1>1, <2>1 DEF StandsAt
<1>4. ASSUME NEW n \in T PROVE n + 1 \in T
  <2>1. SUFFICES ASSUME n + 1 <= Len(msgs) PROVE StandsAt(msgs, from, n + 1) = w[n + 1]
    OBVIOUS
  <2>2. /\ n \in Nat /\ n + 1 \in 1 .. Len(msgs) /\ n + 1 - 1 = n
        /\ StandsAt(msgs, from, n) = w[n]
    BY <1>2, <2>1
  <2>3. Moves(msgs[n + 1], w[n], w[n + 1])
    BY <1>2, <2>2
  <2>4. CASE IsBlockMsg(msgs[n + 1])
    <3>1. n + 1 \in seen(n + 1) /\ \A i \in seen(n + 1) : i \in Int /\ n + 1 >= i
      BY <2>2, <2>4
    <3>2. Max(seen(n + 1)) = n + 1
      BY <2>2, <3>1 DEF Max
    <3>3. StandsAt(msgs, from, n + 1) = After(msgs[n + 1])
      BY <3>1, <3>2 DEF StandsAt
    <3>4. After(msgs[n + 1]) = w[n + 1]
      BY <2>3, <2>4 DEF IsBlockMsg, Moves, After
    <3> QED BY <3>3, <3>4
  <2>5. CASE ~IsBlockMsg(msgs[n + 1])
    <3>1. seen(n + 1) = seen(n)
      BY <2>2, <2>5
    <3>2. w[n + 1] = w[n]
      BY <2>3, <2>5 DEF IsBlockMsg, Moves
    <3>3. StandsAt(msgs, from, n + 1) = StandsAt(msgs, from, n)
      BY <3>1 DEF StandsAt
    <3> QED BY <2>2, <3>2, <3>3
  <2> QED BY <2>4, <2>5
<1> HIDE DEF T
<1>5. T \in SUBSET Nat
  BY DEF T
<1>6. Nat \subseteq T
  BY <1>3, <1>4, <1>5, NatInduct
<1>7. \A n \in 0 .. Len(msgs) : StandsAt(msgs, from, n) = w[n]
  BY <1>2, <1>6 DEF T
<1>8. ASSUME NEW i \in DOMAIN msgs, IsBlockMsg(msgs[i])
      PROVE  Before(msgs[i]) = StandsAt(msgs, from, i - 1)
  <2>1. i - 1 \in 0 .. Len(msgs) /\ Moves(msgs[i], w[i - 1], w[i])
    BY <1>2
  <2>2. Before(msgs[i]) = w[i - 1]
    BY <1>8, <2>1 DEF IsBlockMsg, Moves, Before
  <2> QED BY <1>7, <2>1, <2>2
<1> QED BY <1>1, <1>2, <1>7, <1>8 DEF Leads

\* The phases in which block_hash is set and initial_sync has not been left.
Handing == Syncing \cup {"reading", "done"}

\* If the first best block was asked for when no block message was unread, the
\* unread messages lead from block_hash to the node's tip all the time.
CursorOK ==
  fresh /\ phase \in Handing =>
    block_parent = Parent[block_hash] /\ Path(zmq, block_hash, node_tip)

\* When initial_sync returns, those that are published from then on do.
HandedOverOK ==
  phase = "done" =>
    \E n \in 0 .. Len(zmq) : Path(SubSeq(zmq, n + 1, Len(zmq)), block_hash, node_tip)

StreamOK == CursorOK /\ HandedOverOK

\* What is appended to a sequence is appended to what is left of it.
LEMMA RestOfConcat ==
  ASSUME NEW M, NEW z \in Seq(M), NEW s \in Seq(M), NEW n \in 0 .. Len(z)
  PROVE  SubSeq(z \o s, n + 1, Len(z \o s)) = SubSeq(z, n + 1, Len(z)) \o s
<1> DEFINE k == Len(z) - n
           rest == SubSeq(z, n + 1, Len(z))
           more == SubSeq(z \o s, n + 1, Len(z \o s))
<1>1. /\ Len(z) \in Nat /\ Len(s) \in Nat /\ n \in Nat /\ k \in Nat
      /\ z \o s \in Seq(M) /\ Len(z \o s) = Len(z) + Len(s)
      /\ \A i \in 1 .. Len(z) + Len(s) :
           (z \o s)[i] = IF i <= Len(z) THEN z[i] ELSE s[i - Len(z)]
  OBVIOUS
<1>2. rest \in Seq(M) /\ Len(rest) = k /\ \A i \in 1 .. k : rest[i] = z[n + i]
  OBVIOUS
<1> DEFINE zs == z \o s
           m == Len(z) + Len(s)
<1>3. zs \in Seq(M) /\ Len(zs) = m /\ m \in Nat /\ n <= m
  BY <1>1
<1> HIDE DEF zs, m
<1>4. /\ SubSeq(zs, n + 1, m) \in Seq(M) /\ Len(SubSeq(zs, n + 1, m)) = m - n
      /\ \A i \in 1 .. m - n : SubSeq(zs, n + 1, m)[i] = zs[n + i]
  BY <1>1, <1>3
<1>5. /\ more \in Seq(M) /\ Len(more) = k + Len(s)
      /\ \A i \in 1 .. k + Len(s) : more[i] = (z \o s)[n + i]
  BY <1>1, <1>3, <1>4 DEF zs, m
<1> HIDE DEF rest, more
<1>6. /\ rest \o s \in Seq(M) /\ Len(rest \o s) = k + Len(s)
      /\ \A i \in 1 .. k + Len(s) : (rest \o s)[i] = IF i <= k THEN rest[i] ELSE s[i - k]
  <2>1. ASSUME NEW r \in Seq(M)
        PROVE  /\ r \o s \in Seq(M) /\ Len(r \o s) = Len(r) + Len(s)
               /\ \A i \in 1 .. Len(r) + Len(s) :
                    (r \o s)[i] = IF i <= Len(r) THEN r[i] ELSE s[i - Len(r)]
    OBVIOUS
  <2> HIDE DEF k
  <2> QED BY <1>2, <2>1
<1>7. ASSUME NEW i \in 1 .. k + Len(s) PROVE more[i] = (rest \o s)[i]
  <2>1. /\ n + i \in 1 .. Len(z) + Len(s)
        /\ i <= k <=> n + i <= Len(z)
        /\ i - k = n + i - Len(z)
    BY <1>1
  <2>2. CASE i <= k
    <3>1. i \in 1 .. k /\ more[i] = z[n + i] /\ (rest \o s)[i] = rest[i]
      BY <1>1, <1>5, <1>6, <2>1, <2>2
    <3> QED BY <1>2, <3>1
  <2>3. CASE ~(i <= k)
    <3>1. more[i] = s[n + i - Len(z)] /\ (rest \o s)[i] = s[i - k]
      BY <1>1, <1>5, <1>6, <2>1, <2>3
    <3> QED BY <2>1, <3>1
  <2> QED BY <2>2, <2>3
<1>8. more = rest \o s
  BY <1>5, <1>6, <1>7, SeqEqual
<1> QED BY <1>8 DEF more, rest

\* What the node publishes goes on where the last message led.
LEMMA NodeStepStreamOK ==
  ASSUME IInv, StreamOK, NodeStep PROVE StreamOK'
<1>1. PICK s \in Seq(NodeMsgs) : zmq' = zmq \o s /\ Path(s, node_tip, node_tip')
  BY NodePublishes DEF NodeStep, IInv
<1>2. zmq \in Seq(NodeMsgs) /\ UNCHANGED <<block_hash, block_parent, fresh, phase>>
  BY DEF NodeStep, cursorVars, IInv, NodeOK
<1>3. CursorOK'
  <2>1. Path(zmq, block_hash, node_tip) => Path(zmq', block_hash, node_tip')
    BY <1>1, <1>2, PathConcat
  <2> QED BY <1>2, <2>1 DEF StreamOK, CursorOK
<1>4. HandedOverOK'
  <2>1. SUFFICES ASSUME phase = "done"
                 PROVE  \E n \in 0 .. Len(zmq') :
                          Path(SubSeq(zmq', n + 1, Len(zmq')), block_hash, node_tip')
    BY <1>2 DEF HandedOverOK
  <2>2. PICK n \in 0 .. Len(zmq) : Path(SubSeq(zmq, n + 1, Len(zmq)), block_hash, node_tip)
    BY <2>1 DEF StreamOK, HandedOverOK
  <2> DEFINE rest == SubSeq(zmq, n + 1, Len(zmq))
  <2>3. rest \in Seq(NodeMsgs) /\ n \in 0 .. Len(zmq')
    BY <1>1, <1>2
  <2>4. SubSeq(zmq', n + 1, Len(zmq')) = rest \o s
    BY <1>1, <1>2, RestOfConcat
  <2> HIDE DEF rest
  <2>5. Path(rest \o s, block_hash, node_tip')
    BY <1>1, <2>2, <2>3, PathConcat DEF rest
  <2> QED BY <2>3, <2>4, <2>5
<1> QED BY <1>3, <1>4 DEF StreamOK

\* The cursor starts at the best block, with nothing but txs unread.
LEMMA FetchBestBlockStreamOK ==
  ASSUME IInv, FetchBestBlock PROVE StreamOK'
<1>1. /\ phase' = "left" /\ block_hash' = node_tip /\ block_parent' = Parent[node_tip]
      /\ fresh' = \A i \in DOMAIN zmq : ~IsBlockMsg(zmq[i])
      /\ node_tip' = node_tip /\ zmq' = zmq
  BY DEF FetchBestBlock, SyncToTip, nodeVars
<1>2. fresh' => Path(zmq, node_tip, node_tip)
  BY <1>1, PathStays DEF IInv, NodeOK, IsTxMsg, IsBlockMsg
<1> QED BY <1>1, <1>2 DEF StreamOK, CursorOK, HandedOverOK

\* It follows each message that is read.
LEMMA DropsStreamOK ==
  ASSUME IInv, StreamOK, DropsConnect \/ DropsDisconnect \/ DropsTxMsg
  PROVE  StreamOK'
<1>1. /\ phase = "reading" /\ phase' # "done" /\ fresh' = fresh
      /\ zmq # << >> /\ zmq' = Tail(zmq) /\ node_tip' = node_tip
  BY DEF DropsConnect, DropsDisconnect, DropsTxMsg, Reads, Follows, SyncToTip, cursorVars
<1>2. HandedOverOK'
  BY <1>1 DEF HandedOverOK
<1>3. SUFFICES ASSUME fresh
               PROVE  block_parent' = Parent[block_hash'] /\ Path(zmq', block_hash', node_tip')
  BY <1>1, <1>2 DEF StreamOK, CursorOK
<1>4. PICK y \in Block : Moves(Head(zmq), block_hash, y) /\ Path(Tail(zmq), y, node_tip)
  BY <1>1, <1>3, PathTail DEF StreamOK, CursorOK, Handing, IInv, NodeOK
<1>5. block_parent = Parent[block_hash]
  BY <1>1, <1>3 DEF StreamOK, CursorOK, Handing
<1>6. CASE DropsConnect
  <2>1. PICK b \in Block : Head(zmq) = ConnectedMsg(b) /\ block_hash' = b /\ block_parent' = block_hash
    BY <1>6 DEF DropsConnect, Reads, Follows
  <2> QED BY <1>1, <1>4, <2>1 DEF Moves, ConnectedMsg
<1>7. CASE DropsDisconnect
  <2>1. PICK b \in Block : /\ Head(zmq) = DisconnectedMsg(b) /\ block_hash' = block_parent
                           /\ block_parent' = Parent[block_parent]
    BY <1>7 DEF DropsDisconnect, Reads, Follows
  <2> QED BY <1>1, <1>4, <1>5, <2>1 DEF Moves, DisconnectedMsg
<1>8. CASE DropsTxMsg
  <2>1. ~IsBlockMsg(Head(zmq)) /\ UNCHANGED <<block_hash, block_parent>>
    BY <1>8 DEF DropsTxMsg, Reads, cursorVars
  <2> QED BY <1>1, <1>4, <1>5, <2>1 DEF Moves, IsBlockMsg
<1> QED BY <1>6, <1>7, <1>8

\* initial_sync returns where the node is.
LEMMA BestBlockReachedStreamOK ==
  ASSUME IInv, StreamOK, BestBlockReached PROVE StreamOK'
<1>1. /\ phase = "synced" /\ phase' = "done" /\ block_hash = node_tip
      /\ UNCHANGED <<node_tip, zmq, block_hash, block_parent, fresh>>
  BY DEF BestBlockReached, nodeVars, cursorVars
<1>2. CursorOK'
  BY <1>1 DEF StreamOK, CursorOK, Handing, Syncing
<1>3. zmq \in Seq(NodeMsgs) /\ node_tip \in Block
  BY DEF IInv, NodeOK
<1>4. SubSeq(zmq, Len(zmq) + 1, Len(zmq)) = << >> /\ Len(zmq) \in 0 .. Len(zmq)
  BY <1>3
<1>5. Path(SubSeq(zmq, Len(zmq) + 1, Len(zmq)), node_tip, node_tip)
  BY <1>3, <1>4, PathEmpty
<1>6. HandedOverOK'
  BY <1>1, <1>4, <1>5 DEF HandedOverOK
<1> QED BY <1>2, <1>6 DEF StreamOK

LEMMA NextStreamOK ==
  ASSUME IInv, StreamOK, [Next]_vars PROVE StreamOK'
<1>1. ASSUME phase' \notin Handing PROVE StreamOK'
  BY <1>1 DEF StreamOK, CursorOK, HandedOverOK, Handing
<1>2. ASSUME UNCHANGED <<node_tip, zmq, block_hash, block_parent, fresh>>,
             phase \in Handing, phase' # "done"
      PROVE  StreamOK'
  BY <1>2 DEF StreamOK, CursorOK, HandedOverOK
<1>3. ASSUME NEW error \in Ended, Stop(error) PROVE StreamOK'
  BY <1>1, <1>3 DEF Stop, Ended, Handing, Syncing
<1>4. CASE InitialSync
  <2>1. ASSUME NEW e \in Enforcers, EnforcerSyncs(e) PROVE StreamOK'
    BY <1>2, <2>1 DEF EnforcerSyncs, nodeVars, cursorVars, Handing, Syncing, Enforcers
  <2>2. ASSUME NEW e \in Enforcers, NEW b \in Block, EnforcerReportsInvalid(e, b)
        PROVE  StreamOK'
    BY <1>2, <2>2 DEF EnforcerReportsInvalid, cursorVars, Handing, Syncing, Enforcers
  <2>3. CASE RetrySync \/ BestBlockChanged
    BY <1>2, <2>3 DEF RetrySync, BestBlockChanged, nodeVars, cursorVars, Handing, Syncing
  <2>4. CASE DropsDisconnectOfFirst
    BY <1>3, <2>4 DEF DropsDisconnectOfFirst, Ended
  <2> QED BY <1>4, <2>1, <2>2, <2>3, <2>4, FetchBestBlockStreamOK, DropsStreamOK,
             BestBlockReachedStreamOK DEF InitialSync
<1>5. CASE Task
  <2>1. phase' \notin Handing
    BY <1>5 DEF Task, TaskStarts, TaskSkipsTxMsg, TaskConnects, TaskConnectFails,
                TaskDisconnects, TaskDisconnectFails, Stop, Handing, Syncing
  <2> QED BY <1>1, <2>1
<1>6. CASE Interrupted
  BY <1>3, <1>6 DEF Interrupted, Ended
<1>7. CASE UNCHANGED vars
  BY <1>7 DEF vars, nodeVars, cursorVars, StreamOK, CursorOK, HandedOverOK
<1> QED BY <1>4, <1>5, <1>6, <1>7, NodeStepStreamOK DEF Next

\* What the stream still yields leads from where the enforcer is to the node's
\* tip.
THEOREM StreamInvariant == Spec => [](IInv /\ StreamOK)
<1>1. Init => StreamOK
  BY DEF Init, StreamOK, CursorOK, HandedOverOK, Handing, Syncing
<1>2. IInv /\ StreamOK /\ [Next]_vars => StreamOK'
  BY NextStreamOK
<1> QED BY <1>1, <1>2, InductiveInvariant, PTL DEF Spec

\* No change of the chain is lost between the sync and what reads the stream
\* after it, whatever the node did meanwhile.
THEOREM NothingMissedHolds == Spec => []NothingMissed
<1>1. IInv /\ StreamOK => NothingMissed
  <2> SUFFICES ASSUME IInv, StreamOK, phase = "done"
               PROVE  \E n \in 0 .. Len(zmq) :
                        Leads(SubSeq(zmq, n + 1, Len(zmq)), block_hash, node_tip)
    BY DEF NothingMissed
  <2>1. PICK n \in 0 .. Len(zmq) : Path(SubSeq(zmq, n + 1, Len(zmq)), block_hash, node_tip)
    BY DEF StreamOK, HandedOverOK
  <2>2. SubSeq(zmq, n + 1, Len(zmq)) \in Seq(NodeMsgs)
    BY DEF IInv, NodeOK
  <2> QED BY <2>1, <2>2, PathLeads
<1> QED BY <1>1, StreamInvariant, PTL

\* If the sync started without an unread block message, all that it leaves
\* unread leads on from the block that it returns, however often it had to
\* follow the node and invalidate blocks.
THEOREM CleanHandoverHolds == Spec => []CleanHandover
<1>1. IInv /\ StreamOK => CleanHandover
  BY PathLeads DEF IInv, NodeOK, StreamOK, CursorOK, Handing, CleanHandover
<1> QED BY <1>1, StreamInvariant, PTL

==============================================================================
