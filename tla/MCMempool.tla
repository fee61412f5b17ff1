------------------------------ MODULE MCMempool ------------------------------
(***************************************************************************)
(* Mempool for TLC: p spends f, c spends both, x spends f and conflicts    *)
(* with p.                                                                 *)
(***************************************************************************)
EXTENDS Mempool

CONSTANTS f, p, c, x

MCVin ==
  [t \in Tx |-> (CASE t = f -> {} [] t \in {p, x} -> {f} [] t = c -> {f, p}
               [] OTHER -> {}) \cap Tx]

\* c pays for its parents.
MCFee == [t \in Tx |-> CASE t = f -> 1 [] t = p -> 2 [] t = c -> 9 [] OTHER -> 3]

\* Not multiples of 4: vsizes are rounded up.
MCWeight == [t \in Tx |-> IF t = f THEN 5 ELSE 7]

MCConflicts ==
  [t \in Tx |-> (CASE t = p -> {x} [] t = x -> {p} [] OTHER -> {}) \cap Tx]

NoBlocks == [b \in {} |-> 0]

ASSUME MCConflictsAssumption == MutualConflicts /\ CoherentPackages
==============================================================================
