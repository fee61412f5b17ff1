---------------------------- MODULE AbandonedPool ----------------------------
(***************************************************************************)
(* What lib/mempool/sync/abandoned_pool.rs promises to its caller: a pool  *)
(* of txs that cannot be validated because a parent is gone.  A pool is a  *)
(* function from the abandoned txs to the parents that each is missing,    *)
(* AbandonedTx::abandoned_parent_txids and absent_parent_txids together.   *)
(*                                                                         *)
(* The pool also remembers some of the parents that were available when a  *)
(* tx came in.  Which ones it still knows depends on its history, so what  *)
(* follows from them is a choice here.  AbandonedPoolMaps has the maps that *)
(* the code keeps, and implements this.                                    *)
(***************************************************************************)
EXTENDS TxGraph

EmptyPool == [t \in {} |-> {}]

\* insert, the pools that may result: an existing entry is kept; t misses the
\* parents that are members or said to be absent; and the members that spend t
\* now miss it, if the pool still knows that they do.
PoolInserts(pool, t, absent) ==
  IF t \in DOMAIN pool THEN {pool}
  ELSE {[c \in DOMAIN pool \cup {t} |->
           IF c = t THEN Vin[t] \cap (DOMAIN pool \cup absent)
           ELSE pool[c] \cup ({t} \cap (IF c \in known THEN Vin[c] ELSE {}))]
        : known \in SUBSET {c \in DOMAIN pool : t \in Vin[c]}}

\* remove: t becomes an absent parent, so its children still miss it.
PoolRemove(pool, t) == [c \in DOMAIN pool \ {t} |-> pool[c]]

\* remove_descendant_txs, called for each of txs, the sets of txs that it may
\* return: with a tx those that miss it, and nothing but descendants.
PoolRejects(pool, txs) ==
  {D \in SUBSET (DOMAIN pool \cap (txs \cup DescendantsIn(Tx, txs))) :
     \A c \in DOMAIN pool : c \in txs \/ pool[c] \cap (txs \cup D) # {} => c \in D}

\* The pool without the members of D.
PoolWithout(pool, D) == [c \in DOMAIN pool \ D |-> pool[c]]

\* restore_descendant_txs, called for each of txs, the txs returned: those that
\* miss nothing but txs and others that are restored.  A tx that is itself in
\* the pool restores nothing.
PoolRestored(pool, txs) ==
  LeastClosed(DOMAIN pool,
              LAMBDA found, c : pool[c] \subseteq (txs \ DOMAIN pool) \cup found)

\* The orders in which restore_descendant_txs may return them: a tx after those
\* that it missed.
RestoreOrders(pool, t) ==
  {o \in SetToSeqs(PoolRestored(pool, {t})) :
     \A i, j \in DOMAIN o : o[i] \in pool[o[j]] => i < j}

\* The orders in which the caller queues what it restores for the txs of a
\* block: it calls for the last tx first, and each result goes to the front.
BlockRestoreOrders(pool, block) ==
  LET from(k) == PoolRestored(pool, {block[n] : n \in k .. Len(block)})
  IN  {o \in SetToSeqs(from(1)) :
         \A i, j \in DOMAIN o :
           \/ \E k \in DOMAIN block : o[j] \in from(k) /\ o[i] \notin from(k)
           \/ /\ o[i] \in pool[o[j]]
              /\ \A k \in DOMAIN block : o[i] \in from(k) => o[j] \in from(k)
           => i < j}

\* restore_descendant_txs, the pool that is left.
PoolAfterRestore(pool, txs) ==
  LET restored == PoolRestored(pool, txs)
  IN  [c \in DOMAIN pool \ restored |-> pool[c] \ ((txs \ DOMAIN pool) \cup restored)]
==============================================================================
