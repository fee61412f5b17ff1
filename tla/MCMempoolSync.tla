--------------------------- MODULE MCMempoolSync ----------------------------
(***************************************************************************)
(* MempoolSync for TLC: small graphs of txs and blocks.                    *)
(***************************************************************************)
EXTENDS MempoolSync

CONSTANTS f, p, c,                 \* txs: c spends p, p spends f
          G, B1, B2, B3, B4, C3    \* blocks, the digit is the height

ChainVin ==
  [t \in Tx |-> CASE t = f -> {} [] t = p -> {f} \cap Tx [] t = c -> {p}]

\* B3 - B4 and C3 fork from B2.
ForkParent ==
  [b \in Block |-> CASE b = G -> NoBlock [] b = B1 -> G [] b = B2 -> B1
                     [] b \in {B3, C3} -> B2 [] b = B4 -> B3]

ForkHeight ==
  [b \in Block |-> CASE b = G -> 0 [] b = B1 -> 1 [] b = B2 -> 2 [] b = B4 -> 4 [] OTHER -> 3]

NoTxs == [b \in Block |-> {}]

\* The first block confirms f, or p.
MineF == [NoTxs EXCEPT ![B1] = {f}]

MineP == [NoTxs EXCEPT ![B1] = {p}]

\* B2 confirms f and C3 confirms p, whose child the enforcer then removes.
MineOnFork == [NoTxs EXCEPT ![B2] = {f}, ![C3] = {p}]

DropOnFork == [NoTxs EXCEPT ![C3] = {c}]
==============================================================================
