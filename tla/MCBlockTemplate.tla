---------------------------- MODULE MCBlockTemplate ----------------------------
(***************************************************************************)
(* BlockTemplate for TLC, with the txs of MCMempool and g, which a         *)
(* producer makes.                                                         *)
(***************************************************************************)
EXTENDS BlockTemplate, MCMempool

CONSTANT g

MCTemplates ==
  {t \in [coinbase_txn : BOOLEAN, prefix_txs : {<< >>, <<f>>, <<f, p>>, <<f, x>>},
          suffix_txs : {<< >>, <<f>>, <<x>>, <<p>>}, reserved : {0, 8, 40},
          exclude_mempool_txs : SUBSET {f, p, x}, coinbase_txouts : {<< >>, <<3>>}] :
     /\ KeepsContract(t, t.suffix_txs)
     /\ ~t.coinbase_txn => t.coinbase_txouts = << >>}

\* A tx or a txout comes on top, or what was there is gone.
MCFinalized ==
  [t \in MCTemplates |->
     {final \in [suffix_txs : {t.suffix_txs, Append(t.suffix_txs, g), <<g>>},
                coinbase_txouts : {t.coinbase_txouts, Append(t.coinbase_txouts, 1), << >>}] :
        ~t.coinbase_txn => final.coinbase_txouts = << >>}]

\* f counts for less than it weighs, p, c and x count for more.
MCRealWeight == [t \in Tx |-> CASE t = f -> 15 [] t \in {p, c, x} -> 6 [] OTHER -> 7]

ASSUME MCContractAssumption == ProducerContract
================================================================================
