----------------------------- MODULE MempoolTxs ------------------------------
(***************************************************************************)
(* The mempool data structure of lib/mempool/mod.rs: the txs with the      *)
(* links between them and the totals over their ancestors, the map from a  *)
(* tx to its children, and the index by ancestor fee rate.  Left out are   *)
(* the totals over descendants and `ancestor_vsize`, which are maintained  *)
(* but never read, and the saturation of weights.                          *)
(***************************************************************************)
EXTENDS TxGraph

CONSTANTS
  Fee,              \* Fee[t]: the fee of t
  ModifiedWeight,   \* ModifiedWeight[t]: its weight after the weight_tweak
  ConflictsWith     \* ConflictsWith[t]: what accept_tx names as conflicts

ASSUME FeeAssumption == Fee \in [Tx -> Nat]
ASSUME ModifiedWeightAssumption == ModifiedWeight \in [Tx -> Nat \ {0}]
ASSUME ConflictsWithAssumption == ConflictsWith \in [Tx -> SUBSET Tx]

TotalFee(txs) == MapThenSumSet(LAMBDA t : Fee[t], txs)

TotalWeight(txs) == MapThenSumSet(LAMBDA t : ModifiedWeight[t], txs)

------------------------------------------------------------------------------
\* struct FeeRate

\* Weight::to_vbytes_ceil
VbytesCeil(weight) == (weight + 3) \div 4

\* The fee rate of a tx together with its ancestors.
AncestorFeeRate(info) ==
  [fee |-> info.ancestor_fee, vsize |-> VbytesCeil(info.ancestor_weight)]

\* FeeRate::refinement_cmp is Greater
HigherRate(r, s) ==
  \/ r.fee * s.vsize > s.fee * r.vsize
  \/ r.fee * s.vsize = s.fee * r.vsize /\ r.vsize > s.vsize

\* FeeRate::refinement_cmp is Equal
SameRate(r, s) == r.fee * s.vsize = s.fee * r.vsize /\ r.vsize = s.vsize

------------------------------------------------------------------------------
\* struct Mempool, without its chain

EmptyMempool ==
  [txs |-> [t \in {} |-> 0], tx_childs |-> [t \in Tx |-> {}], by_ancestor_fee_rate |-> {}]

InPool(pool) == DOMAIN pool.txs

\* What ancestors_mut visits: all txs that `depends` leads to.
AncestorsMut(txs, t) ==
  LeastClosed(Tx, LAMBDA found, a : \E x \in (found \cup {t}) \cap DOMAIN txs : a \in txs[x].depends)

\* What descendants_mut visits after t itself.
DescendantsMut(txs, t) ==
  LeastClosed(Tx, LAMBDA found, d : \E x \in (found \cup {t}) \cap DOMAIN txs : d \in txs[x].spent_by)

\* ByAncestorFeeRate, one entry per rate and txid.
Entry(txs, t) == [rate |-> AncestorFeeRate(txs[t]), txid |-> t]

\* ByAncestorFeeRate::remove finds the set of txids for the rate of t, which
\* need not hold t.
HasKey(pool, t) ==
  \E e \in pool.by_ancestor_fee_rate : SameRate(e.rate, Entry(pool.txs, t).rate)

\* The entries that ByAncestorFeeRate::remove takes out for the txs `ts`.
EntriesOf(pool, ts) ==
  {e \in pool.by_ancestor_fee_rate :
     e.txid \in ts /\ SameRate(e.rate, Entry(pool.txs, e.txid).rate)}

\* Mutant: the child stays.
UnlinkNoChild(tx_childs, t) == tx_childs

\* TxChilds::insert and TxChilds::remove for each input of t.
LinkChild(tx_childs, t) ==
  [u \in Tx |-> IF u \in Vin[t] THEN tx_childs[u] \cup {t} ELSE tx_childs[u]]

UnlinkChild(tx_childs, t) ==
  [u \in Tx |-> IF u \in Vin[t] THEN tx_childs[u] \ {t} ELSE tx_childs[u]]

------------------------------------------------------------------------------
\* Mempool::insert

\* Mutant: the conflicts of the parents are not passed on.
InsertLinkedOwnConflicts(pool, t) ==
  LET depends == Vin[t] \cap InPool(pool)
      info == [depends |-> depends, spent_by |-> LinkChild(pool.tx_childs, t)[t],
               conflicts_with |-> ConflictsWith[t],
               ancestor_fee |-> Fee[t], ancestor_weight |-> ModifiedWeight[t]]
  IN  [u \in InPool(pool) \cup {t} |->
         IF u = t THEN info
         ELSE IF u \in depends THEN [pool.txs[u] EXCEPT !.spent_by = @ \cup {t}]
         ELSE pool.txs[u]]

\* The new tx and the links from its parents, before the totals.
InsertLinked(pool, t) ==
  LET depends == Vin[t] \cap InPool(pool)
      info == [depends         |-> depends,
               spent_by        |-> LinkChild(pool.tx_childs, t)[t],
               conflicts_with  |-> ConflictsWith[t]
                                     \cup UNION {pool.txs[d].conflicts_with : d \in depends},
               ancestor_fee    |-> Fee[t],
               ancestor_weight |-> ModifiedWeight[t]]
  IN  [u \in InPool(pool) \cup {t} |->
         IF u = t THEN info
         ELSE IF u \in depends THEN [pool.txs[u] EXCEPT !.spent_by = @ \cup {t}]
         ELSE pool.txs[u]]

\* The mempool txs that conflict with t, with their descendants.
Contested(txs, t) ==
  LET direct == ConflictsWith[t] \cap DOMAIN txs
  IN  direct \cup UNION {DescendantsMut(txs, x) : x \in direct}

\* The totals over ancestors and the conflicts, once t is linked.
InsertTotals(txs, t) ==
  LET above == AncestorsMut(txs, t)
      below == DescendantsMut(txs, t)
      contested == Contested(txs, t)
  IN  [u \in DOMAIN txs |->
         [depends         |-> txs[u].depends,
          spent_by        |-> txs[u].spent_by,
          conflicts_with  |-> txs[u].conflicts_with
                                \cup (IF u \in below THEN ConflictsWith[t] ELSE {})
                                \cup (IF u \in contested THEN {t} ELSE {}),
          ancestor_fee    |-> IF u = t THEN Fee[t] + TotalFee(above)
                              ELSE IF u \in below THEN txs[u].ancestor_fee + Fee[t]
                              ELSE txs[u].ancestor_fee,
          ancestor_weight |-> IF u = t THEN ModifiedWeight[t] + TotalWeight(above)
                              ELSE IF u \in below THEN txs[u].ancestor_weight + ModifiedWeight[t]
                              ELSE txs[u].ancestor_weight]]

\* Descendants get new totals but keep the key under which they are indexed.
\* TxAlreadyExists leaves the mempool alone, and all callers ignore it.
MempoolInsert(pool, t) ==
  IF t \in InPool(pool) THEN pool
  ELSE LET txs == InsertTotals(InsertLinked(pool, t), t)
       IN  [txs                  |-> txs,
            tx_childs            |-> LinkChild(pool.tx_childs, t),
            by_ancestor_fee_rate |-> pool.by_ancestor_fee_rate \cup {Entry(txs, t)}]

------------------------------------------------------------------------------
\* Mempool::remove

\* The error that remove ends with, if any.  All keys are looked up in the index
\* as it is before the call; the code looks each of them up after it has indexed
\* the descendants before it anew.
RemoveError(pool, t) ==
  LET above == AncestorsMut(pool.txs, t)
      below == DescendantsMut(pool.txs, t)
  IN  IF t \notin InPool(pool) THEN "none"
      ELSE IF ~(below \subseteq InPool(pool)) THEN "MissingDescendant"
      ELSE IF ~(above \subseteq InPool(pool)) THEN "MissingAncestor"
      ELSE IF \E d \in below \cup {t} : ~HasKey(pool, d) THEN "MissingByAncestorFeeRateKey"
      ELSE "none"

\* The txs that are left: what depends on t, directly or not, loses t and
\* `fee` and `weight`; what t depends on is no longer spent by it.
LinksWithout(txs, t, fee, weight, above) ==
  LET below == DescendantsMut(txs, t)
  IN  [u \in DOMAIN txs \ {t} |->
         [depends         |-> IF u \in below THEN txs[u].depends \ {t} ELSE txs[u].depends,
          spent_by        |-> IF u \in above THEN txs[u].spent_by \ {t} ELSE txs[u].spent_by,
          conflicts_with  |-> txs[u].conflicts_with,
          ancestor_fee    |-> IF u \in below THEN txs[u].ancestor_fee - fee
                              ELSE txs[u].ancestor_fee,
          ancestor_weight |-> IF u \in below THEN txs[u].ancestor_weight - weight
                              ELSE txs[u].ancestor_weight]]

\* Mutant: the weight stays in the totals of the descendants.
RemoveLinksKeepWeight(txs, t) ==
  LinksWithout(txs, t, Fee[t], 0, AncestorsMut(txs, t))

\* Mutant: ancestors are still spent by the tx that is gone.
RemoveLinksKeepSpentBy(txs, t) ==
  LinksWithout(txs, t, Fee[t], ModifiedWeight[t], {})

RemoveLinks(txs, t) ==
  LinksWithout(txs, t, Fee[t], ModifiedWeight[t], AncestorsMut(txs, t))

\* Mutant: descendants keep their keys, as in insert.
MempoolRemoveKeepsKeys(pool, t) ==
  IF t \notin InPool(pool) THEN pool
  ELSE [txs                  |-> RemoveLinks(pool.txs, t),
        tx_childs            |-> UnlinkChild(pool.tx_childs, t),
        by_ancestor_fee_rate |-> pool.by_ancestor_fee_rate \ EntriesOf(pool, {t})]

\* Descendants are indexed anew, t no more.
MempoolRemove(pool, t) ==
  IF t \notin InPool(pool) THEN pool
  ELSE LET txs   == RemoveLinks(pool.txs, t)
           below == DescendantsMut(pool.txs, t)
       IN  [txs                  |-> txs,
            tx_childs            |-> UnlinkChild(pool.tx_childs, t),
            by_ancestor_fee_rate |->
              (pool.by_ancestor_fee_rate \ EntriesOf(pool, below \cup {t}))
                \cup {Entry(txs, d) : d \in below \cap DOMAIN txs}]
==============================================================================
