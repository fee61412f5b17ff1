------------------------------ MODULE TxGraph -------------------------------
(***************************************************************************)
(* Transactions and blocks as the other modules need them: which txs a tx  *)
(* spends from, and which parent, height and txs a block has.  Amounts,    *)
(* weights and scripts are left out.                                       *)
(***************************************************************************)
EXTENDS Integers, FiniteSets, SequencesExt

CONSTANTS
  Tx,        \* transactions
  Block,     \* blocks
  NoBlock,   \* BlockHash::all_zeros, the parent of a block without parent
  Vin,       \* Vin[t]: the txs whose outputs t spends
  Parent,    \* Parent[b]: previousblockhash
  Height,    \* Height[b]
  BlockTxs   \* BlockTxs[b]: the txs of b

ASSUME TxAssumption == IsFiniteSet(Tx)
ASSUME VinAssumption == Vin \in [Tx -> SUBSET Tx]
ASSUME NoBlockAssumption == NoBlock \notin Block
ASSUME ParentAssumption == Parent \in [Block -> Block \cup {NoBlock}]
ASSUME HeightAssumption ==
  /\ Height \in [Block -> Nat]
  /\ \A b \in Block : Parent[b] # NoBlock => Height[b] = Height[Parent[b]] + 1
ASSUME BlockTxsAssumption == BlockTxs \in [Block -> SUBSET Tx]

\* The least subset of S that contains each member that it entails.
LeastClosed(S, Entails(_, _)) ==
  {x \in S : \A set \in SUBSET S :
                (\A y \in S : Entails(set, y) => y \in set) => x \in set}

\* b and the blocks below it.
Ancestors[b \in Block] ==
  LeastClosed(Block, LAMBDA below, a : a = b \/ \E x \in below : Parent[x] = a)

\* The txs confirmed by the chain that ends in b.
Confirmed(b) == UNION {BlockTxs[a] : a \in Ancestors[b]}

\* The members of `pool` that spend from `roots`, directly or through other
\* members of `pool`.
DescendantsIn(pool, roots) ==
  LeastClosed(pool, LAMBDA found, t : Vin[t] \cap (roots \cup found) # {})

\* All orders of the set txs in which a tx comes after the ones it spends.
TopologicalOrders(txs) ==
  {o \in SetToSeqs(txs) :
     \A i, j \in DOMAIN o : o[i] \in Vin[o[j]] => i < j}
==============================================================================
