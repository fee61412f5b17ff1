------------------------------- MODULE Mempool -------------------------------
(***************************************************************************)
(* The mempool as its callers use it: the sync task applies what the node  *)
(* announces to it (lib/mempool/sync/task.rs), and block templates are     *)
(* chosen from a clone (Mempool::propose_txs).                             *)
(*                                                                         *)
(* MempoolSync says which call the task makes when; here the calls come in *)
(* every order that a node's blocks, reorgs, additions and evictions allow *)
(* once all txs are fetched.                                               *)
(***************************************************************************)
EXTENDS MempoolTxs

CONSTANTS
  Rejectable,     \* txs that accept_tx may reject, when first seen or later
  Dropped,        \* txs that remove_mempool_txs may name
  WeightLimits,   \* the weight_limits that propose_txs is called with
  MaxBlocks,      \* bound: length of the chain
  MaxReorgs       \* bound: blocks disconnected

ASSUME RejectableAssumption == Rejectable \subseteq Tx /\ Dropped \subseteq Tx
ASSUME WeightLimitsAssumption == WeightLimits \subseteq Nat
ASSUME BlocksAssumption == MaxBlocks \in Nat /\ MaxReorgs \in Nat

VARIABLES
  \* the caller
  chain,         \* txs of the connected blocks, the last block first
  unfiltered_txs, \* unfiltered_mempool.txs: what the node has announced
  rejected_txs,  \* txs that the enforcer did not accept, or later removed
  reorgs,        \* blocks disconnected so far
  evicted,       \* announced as removed, with `Removed` not yet applied
  \* the mempool, behind the lock
  pool,
  under_child,   \* history: a tx was inserted while it had a child in the pool
  left_behind,   \* history: a tx was evicted from the pool while a child stayed in it
  \* calls that are made under one write lock, or on the clone
  calls,         \* the calls to come
  remove_stack,  \* remove_stack of remove_with_descendants
  error,         \* the error that a call ended with
  \* propose_txs_mut
  proposing,     \* calls are for the clone
  clone,
  weight_limit,
  weight_remaining,
  to_add,        \* the txs of the package chosen last, still to be added
  template       \* res

callerVars == <<chain, unfiltered_txs, rejected_txs, reorgs, evicted>>
poolVars == <<pool, under_child, left_behind>>
proposalVars == <<proposing, clone, weight_limit, weight_remaining, to_add, template>>
vars == <<callerVars, poolVars, calls, remove_stack, error, proposalVars>>

ConfirmedTxs == UNION ToSet(chain)

RemoveCall(t) == [with_descendants |-> FALSE, tx |-> t]

RemoveWithDescendantsCall(t) == [with_descendants |-> TRUE, tx |-> t]

RemoveCalls(order) == [i \in DOMAIN order |-> RemoveCall(order[i])]

RemoveWithDescendantsCalls(txs) ==
  {[i \in DOMAIN order |-> RemoveWithDescendantsCall(order[i])] : order \in SetToSeqs(txs)}

Init ==
  /\ chain = << >> /\ unfiltered_txs = {} /\ rejected_txs = {}
  /\ reorgs = 0 /\ evicted = {}
  /\ pool = EmptyMempool /\ under_child = FALSE /\ left_behind = FALSE
  /\ calls = << >> /\ remove_stack = {} /\ error = "none"
  /\ proposing = FALSE /\ clone = EmptyMempool
  /\ weight_limit = 0 /\ weight_remaining = 0 /\ to_add = {} /\ template = << >>

\* No lock is held: the last call has returned.
Unlocked == calls = << >> /\ remove_stack = {} /\ error = "none" /\ ~proposing

------------------------------------------------------------------------------
\* What the sync task applies.

\* A tx is announced after the txs that it spends, which may have been removed
\* from the mempool, and is not there for the task yet.
Announced(t) ==
  /\ Unlocked /\ evicted = {}
  /\ t \notin ConfirmedTxs \cup unfiltered_txs
  /\ Vin[t] \subseteq unfiltered_txs \cup InPool(pool) \cup ConfirmedTxs
  /\ unfiltered_txs' = unfiltered_txs \cup {t}

\* try_add_tx_from_caches, the enforcer accepts
AddTx(t) ==
  /\ Announced(t)
  /\ Vin[t] \cap rejected_txs = {}
  /\ pool' = MempoolInsert(pool, t)
  /\ under_child' = (under_child \/ (t \notin InPool(pool) /\ pool.tx_childs[t] # {}))
  /\ UNCHANGED <<chain, rejected_txs, reorgs, evicted, left_behind, calls, remove_stack, error,
                 proposalVars>>

\* try_add_tx_from_caches, the enforcer rejects
RejectTx(t) ==
  /\ Announced(t)
  /\ Vin[t] \cap rejected_txs = {} /\ t \in Rejectable
  /\ rejected_txs' = rejected_txs \cup {t} \cup DescendantsIn(InPool(pool), {t})
  /\ calls' = <<RemoveWithDescendantsCall(t)>>
  /\ UNCHANGED <<chain, reorgs, evicted, poolVars, remove_stack, error, proposalVars>>

\* try_add_tx_from_caches, a parent was rejected
AddWithRejectedParent(t) ==
  /\ Announced(t)
  /\ Vin[t] \cap rejected_txs # {}
  /\ rejected_txs' = rejected_txs \cup {t}
  /\ UNCHANGED <<chain, reorgs, evicted, poolVars, calls, remove_stack, error, proposalVars>>

\* The node evicts t and what spends from it.
Evict(t) ==
  /\ Unlocked /\ evicted = {}
  /\ t \in unfiltered_txs
  /\ evicted' = {t} \cup DescendantsIn(unfiltered_txs, {t})
  /\ UNCHANGED <<chain, unfiltered_txs, rejected_txs, reorgs, poolVars, calls, remove_stack,
                 error, proposalVars>>

\* try_apply_seq_message for a `Removed`; these come in no particular order
ApplyRemoved(t) ==
  /\ Unlocked /\ t \in evicted
  /\ evicted' = evicted \ {t}
  /\ unfiltered_txs' = unfiltered_txs \ {t}
  /\ calls' = <<RemoveCall(t)>>
  /\ left_behind' = (left_behind \/ (t \in InPool(pool) /\ ~(pool.tx_childs[t] \subseteq evicted')))
  /\ UNCHANGED <<chain, rejected_txs, reorgs, pool, under_child, remove_stack, error,
                 proposalVars>>

\* The node has a new block.
Mined(txs) ==
  /\ Unlocked /\ evicted = {}
  /\ txs \cap ConfirmedTxs = {}
  /\ \A t \in txs : Vin[t] \subseteq ConfirmedTxs \cup txs
  /\ unfiltered_txs' = unfiltered_txs \ txs

\* connect_block, accepted: the block's txs, then remove_mempool_txs.
ConnectBlock(txs, dropped) ==
  /\ Mined(txs)
  /\ Len(chain) < MaxBlocks
  /\ \E order \in TopologicalOrders(txs) :
       \E drops \in RemoveWithDescendantsCalls(dropped) :
         calls' = RemoveCalls(order) \o drops
  /\ rejected_txs' = rejected_txs \cup (dropped \ txs)
  /\ chain' = <<txs>> \o chain
  /\ UNCHANGED <<reorgs, evicted, poolVars, remove_stack, error, proposalVars>>

\* connect_block, rejected: the mempool keeps the block's txs.  They are
\* announced again once the node has invalidated the block.
RejectBlock(txs) ==
  /\ Mined(txs)
  /\ txs \cap unfiltered_txs # {}
  /\ UNCHANGED <<chain, rejected_txs, reorgs, evicted, poolVars, calls, remove_stack, error,
                 proposalVars>>

\* handle_disconnected_block.  The txs of the block are announced afterwards.
DisconnectBlock(dropped) ==
  /\ Unlocked /\ evicted = {}
  /\ chain # << >> /\ reorgs < MaxReorgs
  /\ calls' \in RemoveWithDescendantsCalls(dropped)
  /\ chain' = Tail(chain)
  /\ reorgs' = reorgs + 1
  /\ UNCHANGED <<unfiltered_txs, rejected_txs, evicted, poolVars, remove_stack, error,
                 proposalVars>>

------------------------------------------------------------------------------
\* Calls of remove and remove_with_descendants.

\* The mempool that the calls are for.
Subject == IF proposing THEN clone ELSE pool

\* Mempool::remove.  After an error nothing follows, and what it leaves behind is
\* of no interest.
RunRemove(t) ==
  /\ error' = RemoveError(Subject, t)
  /\ IF proposing
     THEN clone' = MempoolRemove(clone, t) /\ UNCHANGED pool
     ELSE pool' = MempoolRemove(pool, t) /\ UNCHANGED clone
  /\ UNCHANGED <<callerVars, under_child, left_behind, proposing, weight_limit, weight_remaining>>

\* The children of t that remove_with_descendants goes on with.
RemainingChilds(t) == UnlinkChild(Subject.tx_childs, t)[t]

RunCall ==
  /\ calls # << >> /\ remove_stack = {} /\ error = "none"
  /\ RunRemove(Head(calls).tx)
  /\ remove_stack' = IF Head(calls).with_descendants
                     THEN RemainingChilds(Head(calls).tx) ELSE {}
  /\ calls' = Tail(calls)
  /\ UNCHANGED <<to_add, template>>

\* One turn of the loop in remove_with_descendants, children in any order.
PopRemoveStack(t) ==
  /\ t \in remove_stack /\ error = "none"
  /\ RunRemove(t)
  /\ remove_stack' = (remove_stack \ {t}) \cup RemainingChilds(t)
  /\ UNCHANGED <<calls, to_add, template>>

------------------------------------------------------------------------------
\* propose_txs

StartProposal(limit) ==
  /\ Unlocked
  /\ proposing' = TRUE
  /\ clone' = pool
  /\ weight_limit' = limit /\ weight_remaining' = limit
  /\ UNCHANGED <<callerVars, poolVars, calls, remove_stack, error, to_add, template>>

Proposes == proposing /\ calls = << >> /\ remove_stack = {} /\ error = "none"

\* Entries whose tx fits into what is left, together with its ancestors.
Fitting ==
  {e \in clone.by_ancestor_fee_rate : 4 * e.rate.vsize <= weight_remaining}

\* The best of them is taken.  A tx that is gone is passed over with a
\* warning.
ChoosePackage ==
  /\ Proposes /\ to_add = {}
  /\ \E e \in Fitting :
       /\ \A other \in Fitting : ~HigherRate(other.rate, e.rate)
       /\ weight_remaining' = weight_remaining - 4 * e.rate.vsize
       /\ to_add' = ({e.txid} \cup AncestorsMut(clone.txs, e.txid)) \cap InPool(clone)
  /\ UNCHANGED <<callerVars, poolVars, calls, remove_stack, error,
                 proposing, clone, weight_limit, template>>

\* Mutant: the package is added in any order.
AddFromPackageUnordered(t) ==
  /\ Proposes /\ t \in to_add
  /\ RunRemove(t)
  /\ template' = Append(template, t)
  /\ to_add' = to_add \ {t}
  /\ IF to_add' = {}
     THEN calls' \in RemoveWithDescendantsCalls(clone.txs[t].conflicts_with)
     ELSE UNCHANGED calls
  /\ UNCHANGED remove_stack

\* The txs of the package come after the ones that they depend on.  The
\* conflicts of the last one are removed.
AddFromPackage(t) ==
  /\ Proposes /\ t \in to_add
  /\ clone.txs[t].depends = {}
  /\ RunRemove(t)
  /\ template' = Append(template, t)
  /\ to_add' = to_add \ {t}
  /\ IF to_add' = {}
     THEN calls' \in RemoveWithDescendantsCalls(clone.txs[t].conflicts_with)
     ELSE UNCHANGED calls
  /\ UNCHANGED remove_stack

\* The txs before the i-th of the template.
Before(i) == {template[j] : j \in 1 .. (i - 1)}

\* propose_txs looks up the mempool ancestors of each tx in what comes before.
FindsDepends ==
  \A i \in DOMAIN template : AncestorsMut(pool.txs, template[i]) \subseteq Before(i)

FinishProposal ==
  /\ Proposes /\ to_add = {} /\ Fitting = {}
  /\ error' = IF FindsDepends THEN "none" ELSE "MissingAncestor"
  /\ proposing' = FALSE
  /\ clone' = EmptyMempool
  /\ weight_limit' = 0 /\ weight_remaining' = 0
  /\ template' = << >>
  /\ UNCHANGED <<callerVars, poolVars, calls, remove_stack, to_add>>

Next ==
  \/ \E t \in Tx : \/ AddTx(t) \/ RejectTx(t) \/ AddWithRejectedParent(t)
                   \/ Evict(t) \/ ApplyRemoved(t)
                   \/ PopRemoveStack(t) \/ AddFromPackage(t)
  \/ \E dropped \in SUBSET Dropped :
       \/ DisconnectBlock(dropped)
       \/ \E txs \in SUBSET Tx : ConnectBlock(txs, dropped)
  \/ \E txs \in SUBSET Tx : RejectBlock(txs)
  \/ RunCall
  \/ \E limit \in WeightLimits : StartProposal(limit)
  \/ ChoosePackage
  \/ FinishProposal

Spec == Init /\ [][Next]_vars

------------------------------------------------------------------------------
\* Properties.

\* tx_childs maps each tx, in the mempool or not, to exactly its children that
\* are in the mempool (mod.rs:410): what remove_with_descendants relies on.
ChildsExact ==
  error = "none" => \A m \in {pool, clone} : \A u \in Tx :
    m.tx_childs[u] = {t \in InPool(m) : u \in Vin[t]}

\* As long as no tx came back under a child of its own, each tx is indexed
\* exactly once and under its current ancestor fee rate.
IndexAgrees ==
  ~under_child =>
    \A m \in {pool, clone} :
      m.by_ancestor_fee_rate = {Entry(m.txs, t) : t \in InPool(m)}

\* The members of P that t spends, directly or through others.
AncestorsIn(P, t) ==
  LeastClosed(P, LAMBDA found, a : \E y \in found \cup {t} : a \in Vin[y])

\* The links between the txs are those that their inputs make, also while a
\* call is half done.
LinksExact ==
  ~under_child =>
    \A m \in {pool, clone} : \A t \in InPool(m) :
      /\ m.txs[t].depends = Vin[t] \cap InPool(m)
      /\ m.txs[t].spent_by = {c \in InPool(m) : t \in Vin[c]}

\* With no lock held and nothing evicted halfway, the totals of a tx are those
\* of what it spends in the mempool, directly or not.  (The totals of a tx that
\* stays when its parent is evicted, because the node does not have it after a
\* rejected block, go on counting what lay behind that parent.)
TotalsExact ==
  Unlocked /\ evicted = {} /\ ~under_child /\ ~left_behind =>
    \A t \in InPool(pool) :
      LET package == {t} \cup AncestorsIn(InPool(pool), t)
      IN  /\ pool.txs[t].ancestor_fee = TotalFee(package)
          /\ pool.txs[t].ancestor_weight = TotalWeight(package)

\* No call ends with an error as long as no tx came back under a child.
CallsSucceed == ~under_child => error = "none"

\* A tx of a template comes after the mempool txs that it spends.
TemplateOrdered ==
  ~under_child =>
    \A i \in DOMAIN template : Vin[template[i]] \cap InPool(pool) \subseteq Before(i)

\* Of two txs that conflict, accept_tx names the other when either comes last.
MutualConflicts == \A t, u \in Tx : u \in ConflictsWith[t] <=> t \in ConflictsWith[u]

\* The enforcer accepts no tx that spends from txs in conflict with each other,
\* or with itself.
CoherentPackages ==
  \A t \in Tx : \A a, b \in {t} \cup AncestorsIn(Tx, t) : b \notin ConflictsWith[a]

\* No two txs of a template conflict, as far as the enforcer has told: under
\* MutualConflicts and CoherentPackages.
TemplateConflictFree ==
  ~under_child =>
    \A t, x \in ToSet(template) : x \notin ConflictsWith[t]

\* "A reorg restores a confirmed tx to the local mempool, and the sync task
\* stays healthy" (integration_tests/test_reorg_re_inserts_tx.rs:1).
ReorgStaysHealthy == error = "none"
==============================================================================
