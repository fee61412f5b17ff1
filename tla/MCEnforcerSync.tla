--------------------------- MODULE MCEnforcerSync ---------------------------
(***************************************************************************)
(* EnforcerSync for TLC: a small fork.                                     *)
(***************************************************************************)
EXTENDS EnforcerSync

CONSTANTS t,                   \* a tx
          G, B1, B2, C1, C2    \* blocks, the digit is the height

NoVin == [x \in Tx |-> {}]

\* B1 - B2 and C1 - C2 fork from G.
ForkParent ==
  [b \in Block |-> CASE b = G -> NoBlock [] b \in {B1, C1} -> G
                     [] b = B2 -> B1 [] b = C2 -> C1]

ForkHeight ==
  [b \in Block |-> CASE b = G -> 0 [] b \in {B1, C1} -> 1 [] OTHER -> 2]

MineT == [b \in Block |-> IF b = B1 THEN Tx ELSE {}]

\* The left enforcer finds B2 invalid, the right one B1 and C2.
BothReject == [e \in Enforcers |-> IF e = "left" THEN {B2} ELSE {B1, C2}]
==============================================================================
