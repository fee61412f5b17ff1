------------------------- MODULE MCBlockTemplateServer ------------------------
(* Instances of BlockTemplateServer: two clients and a node that may go from  *)
(* one tip to the next and back.                                              *)
EXTENDS BlockTemplateServer

CONSTANTS a, b, coinbasevalue, client1, client2

\* One that both accept, and one that the enforcer rejects.
Proposals ==
  {[prev |-> b, node_accepts |-> TRUE, enforcer_accepts |-> TRUE],
   [prev |-> a, node_accepts |-> TRUE, enforcer_accepts |-> FALSE]}

\* No property tells one target from another.
SameTarget == [t \in Tips |-> a]
===============================================================================
