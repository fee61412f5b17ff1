-------------------------- MODULE AbandonedPoolSpec ---------------------------
(***************************************************************************)
(* The abandoned pool as an abstract machine: one action per method of     *)
(* lib/mempool/sync/abandoned_pool.rs, each a single step.  The caller     *)
(* inserts only txs that miss a parent.                                    *)
(***************************************************************************)
EXTENDS AbandonedPool

VARIABLES
  pool,      \* abandoned tx -> the parents it misses
  returned   \* the last call, and the txs that it gave back in order

Init == pool = EmptyPool /\ returned = << >>

Insert(t, absent) ==
  /\ t \in DOMAIN pool \/ Vin[t] \cap (DOMAIN pool \cup absent) # {}
  /\ pool' \in PoolInserts(pool, t, absent)
  /\ returned' = <<"insert", t, << >>>>

RemoveTx(t) ==
  /\ pool' = PoolRemove(pool, t)
  /\ returned' = <<"remove", t, IF t \in DOMAIN pool THEN <<t>> ELSE << >>>>

RemoveDescendants(t) ==
  \E D \in PoolRejects(pool, {t}) :
    /\ pool' = PoolWithout(pool, D)
    /\ \E o \in SetToSeqs(D) : returned' = <<"remove_descendants", t, o>>

RestoreDescendants(t) ==
  /\ pool' = PoolAfterRestore(pool, {t})
  /\ \E o \in RestoreOrders(pool, t) : returned' = <<"restore_descendants", t, o>>

Next ==
  \E t \in Tx :
    \/ \E absent \in SUBSET Vin[t] : Insert(t, absent)
    \/ RemoveTx(t) \/ RemoveDescendants(t) \/ RestoreDescendants(t)

Spec == Init /\ [][Next]_<<pool, returned>>
==============================================================================
