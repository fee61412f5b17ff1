---------------------------- MODULE MCConfirmed -----------------------------
(***************************************************************************)
(* MempoolSync for TLC with a node that goes back to blocks it had left.   *)
(* What the node does is fixed, when it does it depends on the task, and   *)
(* the task is free: every behaviour is one of MempoolSync's.              *)
(***************************************************************************)
EXTENDS MempoolSync

CONSTANTS f, p,                    \* txs: p spends f
          G, B1, B2, C1, C2, C3    \* blocks, the digit is the height

ChainVin == [t \in Tx |-> IF t = p THEN {f} ELSE {}]

\* B1 - B2 and C1 - C2 - C3 fork from G.
ForkParent ==
  [b \in Block |-> CASE b = G -> NoBlock [] b \in {B1, C1} -> G [] b = B2 -> B1
                     [] b = C2 -> C1 [] b = C3 -> C2]

ForkHeight ==
  [b \in Block |-> CASE b = G -> 0 [] b \in {B1, C1} -> 1 [] b \in {B2, C2} -> 2 [] b = C3 -> 3]

MineBoth == [b \in Block |-> CASE b = B1 -> {f} [] b = B2 -> {p} [] OTHER -> {}]

NoTxs == [b \in Block |-> {}]

\* The node leaves B2 and B1 for a while, during which f goes and both txs come
\* back.  B1 has been asked for, and is asked for once more, when it is left, and
\* is connected again when p has been abandoned.
NodeReturns ==
  \/ node_events = 0 /\ synced /\ NodeReorg
  \/ node_events = 1 /\ BlockReq(B1) \in Outstanding /\ NodeReorg
  \/ node_events = 2 /\ NodeRemoveTx(f)
  \/ node_events = 3 /\ f \notin unfiltered_txs /\ NodeAddTx(f)
  \/ node_events = 4 /\ NodeAddTx(p)
  \/ node_events = 5 /\ p \in DOMAIN abandoned_pool /\ NodeConnect(B1)
  \/ node_events = 6 /\ NodeConnect(B2)

ReturnsNext ==
  \/ /\ NodeReturns
     /\ UNCHANGED <<innerVars, syncVars, snapshotVars, rpc, phase, synced>>
  \/ Snapshot
  \/ HandleSeq
  \/ TakeRequest \/ ServeRequest \/ HandleResp
  \/ Apply

ReturnsSpec == Init /\ [][ReturnsNext]_vars
==============================================================================
