-------------------------- MODULE MCAbandonedPool ---------------------------
(***************************************************************************)
(* AbandonedPoolMaps for TLC: a diamond of txs, of which the last spends   *)
(* the two in the middle, and no blocks.                                   *)
(***************************************************************************)
EXTENDS AbandonedPoolMaps

CONSTANTS f, p, q, c

DiamondVin ==
  [t \in Tx |-> CASE t = f -> {} [] t \in {p, q} -> {f} [] t = c -> {f, p, q}]

NoParents == [b \in Block |-> NoBlock]

NoHeights == [b \in Block |-> 0]

NoTxs == [b \in Block |-> {}]
==============================================================================
