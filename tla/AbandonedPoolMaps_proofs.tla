---------------------- MODULE AbandonedPoolMaps_proofs -----------------------
(***************************************************************************)
(* AbandonedPoolMaps implements AbandonedPoolSpec, for every graph of txs  *)
(* and any calls in any order.                                             *)
(***************************************************************************)
EXTENDS AbandonedPoolMaps, FiniteSetTheorems, SequenceTheorems, TLAPS

------------------------------------------------------------------------------
\* The inductive invariant.

\* The fields of an entry.
AbandonedOf(c) == abandoned_txs[c].abandoned_parent_txids
AbsentOf(c) == abandoned_txs[c].absent_parent_txids
ChildrenOf(c) == abandoned_txs[c].child_txids

Spenders(x) == {c \in Tx : x \in Vin[c]}

\* Types.
Shape ==
  /\ Members \in SUBSET Tx
  /\ abandoned_txs \in [Members -> Entries]
  /\ absent_parent_to_child_txids \in ParentMaps
  /\ available_parent_to_child_txids \in ParentMaps

\* What is listed as a child is one, what is listed as missing a parent.  A
\* member has no entry among the absent parents, and those of its children that
\* are members know of it.
Related ==
  /\ \A x \in Tx : /\ absent_parent_to_child_txids[x] \subseteq Spenders(x)
                   /\ available_parent_to_child_txids[x] \subseteq Spenders(x)
  /\ \A x \in Members :
       /\ absent_parent_to_child_txids[x] = {}
       /\ ChildrenOf(x) \subseteq Spenders(x)
       /\ \A c \in ChildrenOf(x) \cap Members : x \in AbandonedOf(c)
       /\ AbandonedOf(x) \cup AbsentOf(x) \subseteq Vin[x]

\* Every member misses something, and members lead to those that miss them.
Misses ==
  \A c \in Members :
    /\ AbandonedOf(c) \cup AbsentOf(c) # {}
    /\ AbsentOf(c) \cap Members = {}
    /\ \A x \in AbandonedOf(c) \cap Members : c \in ChildrenOf(x)

\* Between calls, what is absent leads to those that miss it.
IdleOK ==
  \A c \in Members :
    /\ AbandonedOf(c) \subseteq Members
    /\ \A x \in AbsentOf(c) : c \in absent_parent_to_child_txids[x]

\* A call is under way that found the pool as call.before and has so far taken
\* out the txs of call.res.
CallOK ==
  /\ {"op", "tx", "before", "res", "stack"} \subseteq DOMAIN call
  /\ call.tx \in Tx
  /\ DOMAIN call.before = Members \cup ToSet(call.res)
  /\ Members \cap ToSet(call.res) = {}
  /\ \A c \in DOMAIN call.before : call.before[c] # {} /\ call.before[c] \subseteq Vin[c]
  /\ call.res \in Seq(Tx)
  /\ \A i, j \in DOMAIN call.res : i # j => call.res[i] # call.res[j]

\* While descendants are removed: members miss what they missed before, and
\* those that miss a removed tx are on the stack.
RemoveOK ==
  /\ CallOK
  /\ call.stack \subseteq DescendantsIn(Tx, {call.tx})
  /\ ToSet(call.res) \subseteq {call.tx} \cup DescendantsIn(Tx, {call.tx})
  /\ call.tx \notin Members
  /\ \A x \in {call.tx} \cup ToSet(call.res) : absent_parent_to_child_txids[x] = {}
  /\ \A c \in Members :
       /\ call.before[c] = AbandonedOf(c) \cup AbsentOf(c)
       /\ AbandonedOf(c) \subseteq Members
       /\ \A x \in AbsentOf(c) : c \in absent_parent_to_child_txids[x] \cup call.stack

\* While descendants are restored: the txs to look at next.
FramesOK ==
  /\ {"parent", "children"} \subseteq DOMAIN call
  /\ call.children \subseteq Tx
  /\ call.stack \in Seq([tx : Tx, child_txids : SUBSET Tx])
  /\ \A i \in DOMAIN call.stack : call.stack[i].tx \in ToSet(call.res)
  /\ call.parent \in {call.tx} \cup ToSet(call.res)
  /\ absent_parent_to_child_txids[call.tx] = {}
  /\ call.tx \in DOMAIN call.before =>
       call.parent = call.tx /\ call.children = {} /\ call.stack = << >> /\ call.res = << >>

\* What was restored missed only txs that came before it.
RestoredOK ==
  /\ \A j \in DOMAIN call.res : \A x \in call.before[call.res[j]] :
       x \in {call.tx} \ DOMAIN call.before \/ \E i \in 1 .. (j - 1) : x = call.res[i]
  /\ ToSet(call.res) \subseteq PoolRestored(call.before, {call.tx})

\* Members miss what they missed before, less txs that are back.  Those that are
\* back but still count as missing are being looked at, or will be.
RemainingOK ==
  \A c \in Members :
    /\ AbandonedOf(c) \cup AbsentOf(c) \subseteq call.before[c]
    /\ call.before[c] \subseteq AbandonedOf(c) \cup AbsentOf(c) \cup ToSet(call.res)
                                  \cup ({call.tx} \ DOMAIN call.before)
    /\ AbandonedOf(c) \subseteq DOMAIN call.before
    /\ AbsentOf(c) \cap DOMAIN call.before = {}
    /\ \A x \in AbsentOf(c) :
         \/ c \in absent_parent_to_child_txids[x]
         \/ x = call.tx /\ call.parent = call.tx /\ c \in call.children
    /\ \A x \in AbandonedOf(c) \ Members :
         \/ x = call.parent /\ c \in call.children
         \/ \E i \in DOMAIN call.stack :
              call.stack[i].tx = x /\ c \in call.stack[i].child_txids

RestoreOK == CallOK /\ FramesOK /\ RestoredOK /\ RemainingOK

IInv ==
  /\ Shape /\ Related /\ Misses
  /\ \/ call = NoCall /\ IdleOK
     \/ call.op = "remove_descendants" /\ RemoveOK
     \/ call.op = "restore_descendants" /\ RestoreOK

------------------------------------------------------------------------------
\* insert.

\* The pool is empty at first.
LEMMA InitIInv == Init => IInv
BY DEF Init, IInv, Shape, Related, Misses, IdleOK, Members, EmptyPool, ParentMaps, Entries

\* What InsertNew does to the entries.
LEMMA InsertNewEntries ==
  ASSUME Shape, Related, NEW t \in Tx, NEW absent \in SUBSET Vin[t], InsertNew(t, absent)
  PROVE  /\ t \notin Members
         /\ Members' = Members \cup {t}
         /\ Shape'
         /\ AbandonedOf(t)' = Vin[t] \cap Members
         /\ AbsentOf(t)' = (Vin[t] \cap absent) \ Members
         /\ ChildrenOf(t)' = absent_parent_to_child_txids[t]
                               \cup available_parent_to_child_txids[t]
         /\ \A c \in Members :
              /\ AbandonedOf(c)' = AbandonedOf(c) \cup Only(t, c \in ChildrenOf(t)')
              /\ AbsentOf(c)' = AbsentOf(c) \ Only(t, c \in ChildrenOf(t)')
              /\ ChildrenOf(c)' = ChildrenOf(c) \cup Only(t, c \in Vin[t])
<1> DEFINE children == absent_parent_to_child_txids[t] \cup available_parent_to_child_txids[t]
           gone == (Vin[t] \cap absent) \ Members
<1>1. /\ t \notin Members
      /\ abandoned_txs' =
           [c \in Members \cup {t} |->
              IF c = t
              THEN [abandoned_parent_txids |-> Vin[t] \cap Members,
                    absent_parent_txids |-> gone, child_txids |-> children]
              ELSE [abandoned_parent_txids |-> abandoned_txs[c].abandoned_parent_txids
                                                 \cup Only(t, c \in children),
                    absent_parent_txids |-> abandoned_txs[c].absent_parent_txids
                                              \ Only(t, c \in children),
                    child_txids |-> abandoned_txs[c].child_txids
                                      \cup Only(t, c \in Vin[t])]]
  BY DEF InsertNew
<1>2. /\ absent_parent_to_child_txids' =
           [x \in Tx |-> IF x = t THEN {}
                         ELSE absent_parent_to_child_txids[x] \cup Only(t, x \in gone)]
      /\ available_parent_to_child_txids' =
           [x \in Tx |-> IF x = t THEN {}
                         ELSE available_parent_to_child_txids[x]
                                \cup Only(t, x \in Vin[t] \ (Members \cup gone))]
  BY DEF InsertNew
<1>3. Members' = Members \cup {t}
  BY <1>1 DEF Members
<1>4. children \in SUBSET Tx /\ gone \in SUBSET Tx /\ Vin[t] \in SUBSET Tx
  BY VinAssumption DEF Shape, ParentMaps
<1>5. \A S : Only(t, S) \in SUBSET Tx
  BY DEF Only
<1>6. \A c \in Members : /\ abandoned_txs[c].abandoned_parent_txids \in SUBSET Tx
                         /\ abandoned_txs[c].absent_parent_txids \in SUBSET Tx
                         /\ abandoned_txs[c].child_txids \in SUBSET Tx
  BY DEF Shape, Entries
<1>7. \A c \in Members' : abandoned_txs'[c] \in Entries
  BY <1>1, <1>3, <1>4, <1>5, <1>6 DEF Entries
<1>8. abandoned_txs' \in [Members' -> Entries]
  BY <1>1, <1>3, <1>7
<1>9. Shape'
  BY <1>2, <1>3, <1>4, <1>5, <1>8 DEF Shape, ParentMaps
<1>10. AbandonedOf(t)' = Vin[t] \cap Members /\ AbsentOf(t)' = gone /\ ChildrenOf(t)' = children
  BY <1>1 DEF AbandonedOf, AbsentOf, ChildrenOf
<1>11. \A c \in Members :
         /\ AbandonedOf(c)' = AbandonedOf(c) \cup Only(t, c \in children)
         /\ AbsentOf(c)' = AbsentOf(c) \ Only(t, c \in children)
         /\ ChildrenOf(c)' = ChildrenOf(c) \cup Only(t, c \in Vin[t])
  BY <1>1 DEF AbandonedOf, AbsentOf, ChildrenOf
<1> QED BY <1>1, <1>3, <1>9, <1>10, <1>11

\* A new member keeps the invariant.
LEMMA InsertNewIInv ==
  ASSUME IInv, NEW t \in Tx, NEW absent \in SUBSET Vin[t], InsertNew(t, absent)
  PROVE  IInv'
<1> DEFINE children == absent_parent_to_child_txids[t] \cup available_parent_to_child_txids[t]
           gone == (Vin[t] \cap absent) \ Members
<1>1. call = NoCall /\ call' = NoCall /\ Shape /\ Related /\ Misses /\ IdleOK
  BY DEF InsertNew, Return, IInv, NoCall
<1>2. /\ t \notin Members /\ Members' = Members \cup {t} /\ Shape'
      /\ AbandonedOf(t)' = Vin[t] \cap Members
      /\ AbsentOf(t)' = gone
      /\ ChildrenOf(t)' = children
  BY <1>1, InsertNewEntries
<1>3. \A c \in Members :
        /\ AbandonedOf(c)' = AbandonedOf(c) \cup Only(t, c \in children)
        /\ AbsentOf(c)' = AbsentOf(c) \ Only(t, c \in children)
        /\ ChildrenOf(c)' = ChildrenOf(c) \cup Only(t, c \in Vin[t])
  BY <1>1, <1>2, InsertNewEntries
<1>4. \A x \in Tx :
        /\ x = t => absent_parent_to_child_txids'[x] = {}
        /\ x # t /\ x \in gone =>
             absent_parent_to_child_txids'[x] = absent_parent_to_child_txids[x] \cup {t}
        /\ x # t /\ x \notin gone =>
             absent_parent_to_child_txids'[x] = absent_parent_to_child_txids[x]
        /\ available_parent_to_child_txids'[x] \subseteq
             available_parent_to_child_txids[x] \cup (IF x \in Vin[t] THEN {t} ELSE {})
  BY DEF InsertNew, Only
<1>5. Vin[t] \cap (Members \cup absent) # {} /\ t \notin Vin[t] /\ Vin[t] \in SUBSET Tx
  BY NoSelfSpend, VinAssumption DEF InsertNew
<1>6. children \subseteq Spenders(t) /\ Members \subseteq Tx
  BY <1>1 DEF Related, Shape
<1>7. Related'
  <2>1. \A x \in Tx : /\ absent_parent_to_child_txids'[x] \subseteq Spenders(x)
                      /\ available_parent_to_child_txids'[x] \subseteq Spenders(x)
    <3>1. \A x \in Tx : x \in Vin[t] => t \in Spenders(x)
      BY DEF Spenders
    <3>2. \A x \in Tx : absent_parent_to_child_txids'[x] \subseteq Spenders(x)
      BY <1>1, <1>4, <3>1 DEF Related
    <3>3. \A x \in Tx : available_parent_to_child_txids'[x] \subseteq Spenders(x)
      BY <1>1, <1>4, <3>1 DEF Related
    <3> QED BY <3>2, <3>3
  <2>2. \A x \in Members' : absent_parent_to_child_txids'[x] = {}
    BY <1>1, <1>2, <1>4, <1>6 DEF Related, Only
  <2>3. \A x \in Members' : ChildrenOf(x)' \subseteq Spenders(x)
    BY <1>1, <1>2, <1>3, <1>5, <1>6 DEF Related, Only, Spenders
  <2>4. \A x \in Members' : \A c \in ChildrenOf(x)' \cap Members' : x \in AbandonedOf(c)'
    <3> SUFFICES ASSUME NEW x \in Members', NEW c \in Members', c \in ChildrenOf(x)'
                 PROVE  x \in AbandonedOf(c)'
      OBVIOUS
    <3>1. CASE x = t
      BY <1>2, <1>3, <1>5, <1>6, <3>1 DEF Only, Spenders
    <3>2. CASE x # t /\ c = t
      BY <1>1, <1>2, <1>3, <3>2 DEF Only, Related, Spenders
    <3>3. CASE x # t /\ c # t
      BY <1>1, <1>2, <1>3, <3>3 DEF Only, Related
    <3> QED BY <3>1, <3>2, <3>3
  <2>5. \A x \in Members' : AbandonedOf(x)' \cup AbsentOf(x)' \subseteq Vin[x]
    BY <1>1, <1>2, <1>3, <1>6 DEF Related, Only, Spenders
  <2> QED BY <2>1, <2>2, <2>3, <2>4, <2>5 DEF Related, Spenders
<1>8. Misses'
  <2>1. \A c \in Members' : AbandonedOf(c)' \cup AbsentOf(c)' # {}
    BY <1>1, <1>2, <1>3, <1>5 DEF Misses, Only
  <2>2. \A c \in Members' : AbsentOf(c)' \cap Members' = {}
    <3>1. \A c \in Members : t \in AbsentOf(c) => c \in children
      BY <1>1 DEF IdleOK
    <3> QED BY <1>1, <1>2, <1>3, <1>5, <3>1 DEF Misses, Only
  <2>3. \A c \in Members' : \A x \in AbandonedOf(c)' \cap Members' : c \in ChildrenOf(x)'
    <3> SUFFICES ASSUME NEW c \in Members', NEW x \in Members', x \in AbandonedOf(c)'
                 PROVE  c \in ChildrenOf(x)'
      OBVIOUS
    <3>1. CASE c = t
      BY <1>2, <1>3, <1>5, <3>1 DEF Only
    <3>2. CASE c # t /\ x = t
      BY <1>1, <1>2, <1>3, <3>2 DEF Only, IdleOK
    <3>3. CASE c # t /\ x # t
      BY <1>1, <1>2, <1>3, <3>3 DEF Only, Misses
    <3> QED BY <3>1, <3>2, <3>3
  <2> QED BY <2>1, <2>2, <2>3 DEF Misses
<1>9. IdleOK'
  <2>1. \A c \in Members' : AbandonedOf(c)' \subseteq Members'
    BY <1>1, <1>2, <1>3 DEF IdleOK, Only
  <2>2. \A c \in Members' : \A x \in AbsentOf(c)' : x \in Tx
    BY <1>2 DEF Shape, Entries, AbsentOf
  <2>3. ASSUME NEW c \in Members', NEW x \in AbsentOf(c)'
        PROVE  c \in absent_parent_to_child_txids'[x]
    <3>1. CASE c = t
      <4>1. x \in gone /\ x # t /\ x \in Tx
        BY <1>2, <1>5, <2>3, <3>1
      <4> QED BY <1>4, <3>1, <4>1 DEF Only
    <3>2. CASE c # t
      BY <1>1, <1>2, <1>3, <1>4, <2>2, <2>3, <3>2 DEF Only, IdleOK
    <3> QED BY <3>1, <3>2
  <2> QED BY <2>1, <2>3 DEF IdleOK
<1> QED BY <1>1, <1>2, <1>7, <1>8, <1>9 DEF IInv

\* The promise speaks of the same operators.
LEMMA PromiseOperators ==
  /\ Promise!EmptyPool = EmptyPool
  /\ \A p, t, S : Promise!PoolInserts(p, t, S) = PoolInserts(p, t, S)
  /\ \A p, t : Promise!PoolRemove(p, t) = PoolRemove(p, t)
  /\ \A p, S : Promise!PoolWithout(p, S) = PoolWithout(p, S)
  /\ \A p, S : Promise!PoolRejects(p, S) = PoolRejects(p, S)
  /\ \A p, S : Promise!PoolRestored(p, S) = PoolRestored(p, S)
  /\ \A p, t : Promise!RestoreOrders(p, t) = RestoreOrders(p, t)
  /\ \A p, S : Promise!PoolAfterRestore(p, S) = PoolAfterRestore(p, S)
  /\ \A S : Promise!SetToSeqs(S) = SetToSeqs(S)
<1>1. \A S : Promise!Cardinality(S) = Cardinality(S)
  BY DEF Promise!Cardinality, Cardinality
<1>2. \A p, S : Promise!PoolRestored(p, S) = PoolRestored(p, S)
  BY DEF Promise!PoolRestored, PoolRestored, Promise!LeastClosed, LeastClosed
<1>3. \A S : Promise!DescendantsIn(Tx, S) = DescendantsIn(Tx, S)
  BY DEF Promise!DescendantsIn, DescendantsIn, Promise!LeastClosed, LeastClosed
<1>4. \A p, S : Promise!PoolRejects(p, S) = PoolRejects(p, S)
  BY <1>3 DEF Promise!PoolRejects, PoolRejects
<1>5. \A p, t : Promise!RestoreOrders(p, t) = RestoreOrders(p, t)
  BY <1>1, <1>2 DEF Promise!RestoreOrders, RestoreOrders, Promise!SetToSeqs, SetToSeqs
<1>6. \A p, S : Promise!PoolAfterRestore(p, S) = PoolAfterRestore(p, S)
  BY <1>2 DEF Promise!PoolAfterRestore, PoolAfterRestore
<1>7. \A p, t, S : Promise!PoolInserts(p, t, S) = PoolInserts(p, t, S)
  BY DEF Promise!PoolInserts, PoolInserts
<1> QED BY <1>1, <1>2, <1>4, <1>5, <1>6, <1>7
      DEF Promise!EmptyPool, EmptyPool, Promise!PoolRemove, PoolRemove,
          Promise!PoolWithout, PoolWithout, Promise!SetToSeqs, SetToSeqs

\* What a member misses.
LEMMA MissingOf ==
  /\ DOMAIN Missing = Members
  /\ \A c \in Members : Missing[c] = AbandonedOf(c) \cup AbsentOf(c)
BY DEF Missing, AbandonedOf, AbsentOf

\* InsertNew does what Insert promises; the members that the pool knows to
\* spend t are those that the two maps have.
LEMMA InsertNewPromise ==
  ASSUME IInv, NEW t \in Tx, NEW absent \in SUBSET Vin[t], InsertNew(t, absent)
  PROVE  Promise!Insert(t, absent)
<1> DEFINE children == absent_parent_to_child_txids[t] \cup available_parent_to_child_txids[t]
           known == children \cap Members
<1>1. /\ call = NoCall /\ call' = NoCall /\ Shape /\ Related
      /\ returned' = <<"insert", t, << >>>>
      /\ Vin[t] \cap (Members \cup absent) # {}
  BY DEF InsertNew, Return, IInv, NoCall
<1>2. /\ t \notin Members /\ Members' = Members \cup {t}
      /\ AbandonedOf(t)' = Vin[t] \cap Members
      /\ AbsentOf(t)' = (Vin[t] \cap absent) \ Members
      /\ ChildrenOf(t)' = children
      /\ \A c \in Members :
           /\ AbandonedOf(c)' = AbandonedOf(c) \cup Only(t, c \in children)
           /\ AbsentOf(c)' = AbsentOf(c) \ Only(t, c \in children)
  BY <1>1, InsertNewEntries
<1>3. /\ DOMAIN Missing' = Members'
      /\ \A c \in Members' : Missing'[c] = AbandonedOf(c)' \cup AbsentOf(c)'
  BY DEF Missing, AbandonedOf, AbsentOf, Members
<1>4. Missing'[t] = Vin[t] \cap (Members \cup absent)
  BY <1>2, <1>3
<1>5. \A c \in known : t \in Vin[c]
  BY <1>1 DEF Related, Spenders
<1>6. \A c \in Members : Missing'[c] = Missing[c] \cup (IF c \in known THEN {t} ELSE {})
  BY <1>2, <1>3, MissingOf DEF Only
<1>7. \A c \in Members :
        Missing'[c] = Missing[c] \cup ({t} \cap (IF c \in known THEN Vin[c] ELSE {}))
  BY <1>5, <1>6
<1>8. Missing' = [c \in Members \cup {t} |->
                    IF c = t THEN Vin[t] \cap (Members \cup absent)
                    ELSE Missing[c] \cup ({t} \cap (IF c \in known THEN Vin[c] ELSE {}))]
  <2>1. Missing' = [c \in Members \cup {t} |-> Missing'[c]]
    BY <1>2, <1>3 DEF Missing, Members
  <2> QED BY <1>2, <1>4, <1>7, <2>1
<1>9. known \in SUBSET {c \in Members : t \in Vin[c]}
  BY <1>5
<1>10. Missing' \in PoolInserts(Missing, t, absent)
  <2> DEFINE F(k) == [c \in Members \cup {t} |->
                        IF c = t THEN Vin[t] \cap (Members \cup absent)
                        ELSE Missing[c] \cup ({t} \cap (IF c \in k THEN Vin[c] ELSE {}))]
  <2>1. PoolInserts(Missing, t, absent) =
          {F(k) : k \in SUBSET {c \in Members : t \in Vin[c]}}
    BY <1>2, MissingOf DEF PoolInserts
  <2>2. Missing' = F(known)
    BY <1>8
  <2> QED BY <1>9, <2>1, <2>2
<1> QED BY <1>1, <1>10, MissingOf, PromiseOperators DEF Promise!Insert

------------------------------------------------------------------------------
\* remove.

\* The entries and maps without t, as remove leaves them.  The loop of
\* remove_descendant_txs also takes t out of the maps.
LEMMA WithoutEntries ==
  ASSUME Shape, Related, Misses, \A c \in Members : AbandonedOf(c) \subseteq Members,
         NEW t \in Tx,
         abandoned_txs' = TxsWithout(t),
         absent_parent_to_child_txids' \in
           {AbsentWithout(t), [AbsentWithout(t) EXCEPT ![t] = {}]},
         available_parent_to_child_txids' \in
           {AvailableWithout(t), [AvailableWithout(t) EXCEPT ![t] = {}]}
  PROVE  /\ Shape' /\ Related' /\ Misses'
         /\ Members' = Members \ {t}
         /\ \A c \in Members' : /\ AbandonedOf(c)' = AbandonedOf(c) \ {t}
                                /\ AbsentOf(c)' = AbsentOf(c) \cup (AbandonedOf(c) \cap {t})
         /\ \A c \in Members', x \in Tx \ {t} :
              c \in absent_parent_to_child_txids'[x] <=> c \in absent_parent_to_child_txids[x]
         /\ \A c \in Members' : t \in AbandonedOf(c) => c \in AbsentWithout(t)[t]
         /\ t \in Members \/ AbsentWithout(t)[t] = absent_parent_to_child_txids[t]
         /\ AbsentWithout(t)[t] \subseteq Spenders(t)
         /\ AvailableWithout(t)[t] \subseteq Spenders(t)
<1>1. Members' = Members \ {t}
  BY DEF Members, TxsWithout
<1>2. ChildsOf(t) = IF t \in Members THEN ChildrenOf(t) ELSE {}
  <2>1. CASE t \in Members
    BY <2>1 DEF ChildsOf, ChildrenOf
  <2>2. CASE t \notin Members
    BY <2>2 DEF ChildsOf
  <2> QED BY <2>1, <2>2
<1>3. ChildsOf(t) \subseteq Spenders(t) /\ ChildsOf(t) \in SUBSET Tx
  BY <1>2 DEF Related, Spenders
<1>4. \A c \in Members : c \in ChildsOf(t) <=> t \in AbandonedOf(c)
  BY <1>2 DEF Related, Misses
<1>5. \A c \in Members' : /\ AbandonedOf(c)' = AbandonedOf(c) \ {t}
                          /\ AbsentOf(c)' = AbsentOf(c) \cup (AbandonedOf(c) \cap {t})
                          /\ ChildrenOf(c)' \subseteq ChildrenOf(c)
                          /\ ChildrenOf(c) \subseteq ChildrenOf(c)' \cup {t}
  <2>1. \A c \in Members' :
          /\ AbandonedOf(c)' = AbandonedOf(c) \ Only(t, c \in ChildsOf(t))
          /\ AbsentOf(c)' = AbsentOf(c) \cup Only(t, c \in ChildsOf(t))
          /\ ChildrenOf(c)' = ChildrenOf(c) \ Only(t, t \in Members /\ c \in Vin[t])
    BY <1>1 DEF AbandonedOf, AbsentOf, ChildrenOf, TxsWithout
  <2> QED BY <1>1, <1>4, <2>1 DEF Only
<1>6. Shape'
  <2>1. \A c \in Members : /\ abandoned_txs[c].abandoned_parent_txids \in SUBSET Tx
                           /\ abandoned_txs[c].absent_parent_txids \in SUBSET Tx
                           /\ abandoned_txs[c].child_txids \in SUBSET Tx
    BY DEF Shape, Entries
  <2>2. abandoned_txs' \in [Members' -> Entries]
    BY <1>1, <2>1 DEF TxsWithout, Entries, Only
  <2>3. AbsentWithout(t) \in ParentMaps /\ AvailableWithout(t) \in ParentMaps
    BY <1>3 DEF AbsentWithout, AvailableWithout, Shape, ParentMaps, Only
  <2>4. absent_parent_to_child_txids' \in ParentMaps /\ available_parent_to_child_txids' \in ParentMaps
    BY <2>3 DEF ParentMaps
  <2> QED BY <1>1, <2>2, <2>4 DEF Shape
<1>7. \A x \in Tx \ {t} :
        /\ absent_parent_to_child_txids'[x] \subseteq absent_parent_to_child_txids[x]
        /\ absent_parent_to_child_txids[x] \subseteq absent_parent_to_child_txids'[x] \cup {t}
        /\ available_parent_to_child_txids'[x] \subseteq available_parent_to_child_txids[x]
  BY DEF AbsentWithout, AvailableWithout, Only
<1>8. /\ AbsentWithout(t)[t] = IF ChildsOf(t) = {} THEN absent_parent_to_child_txids[t]
                               ELSE ChildsOf(t)
      /\ AvailableWithout(t)[t] \subseteq available_parent_to_child_txids[t]
  BY DEF AbsentWithout, AvailableWithout
<1>9. AbsentWithout(t)[t] \subseteq Spenders(t) /\ AvailableWithout(t)[t] \subseteq Spenders(t)
  BY <1>3, <1>8 DEF Related
<1>10. /\ absent_parent_to_child_txids'[t] \subseteq AbsentWithout(t)[t]
       /\ available_parent_to_child_txids'[t] \subseteq AvailableWithout(t)[t]
  BY DEF AbsentWithout, AvailableWithout
<1>11. Related'
  <2>1. \A x \in Tx : /\ absent_parent_to_child_txids'[x] \subseteq Spenders(x)
                      /\ available_parent_to_child_txids'[x] \subseteq Spenders(x)
    BY <1>7, <1>9, <1>10 DEF Related
  <2>2. Members \subseteq Tx
    BY DEF Shape
  <2>3. \A x \in Members' :
          /\ absent_parent_to_child_txids'[x] = {}
          /\ ChildrenOf(x)' \subseteq Spenders(x)
    BY <1>1, <1>5, <1>7, <2>2 DEF Related
  <2>4. \A x \in Members' : \A c \in ChildrenOf(x)' \cap Members' : x \in AbandonedOf(c)'
    BY <1>1, <1>5 DEF Related
  <2>5. \A x \in Members' : AbandonedOf(x)' \cup AbsentOf(x)' \subseteq Vin[x]
    BY <1>1, <1>5 DEF Related
  <2> QED BY <2>1, <2>3, <2>4, <2>5 DEF Related, Spenders
<1>12. Misses'
  <2>1. \A c \in Members' : /\ AbandonedOf(c)' \cup AbsentOf(c)' # {}
                            /\ AbsentOf(c)' \cap Members' = {}
    BY <1>1, <1>5 DEF Misses
  <2>2. \A c \in Members' : \A x \in AbandonedOf(c)' \cap Members' : c \in ChildrenOf(x)'
    BY <1>1, <1>5 DEF Misses
  <2> QED BY <2>1, <2>2 DEF Misses
<1>13. \A c \in Members', x \in Tx \ {t} :
         c \in absent_parent_to_child_txids'[x] <=> c \in absent_parent_to_child_txids[x]
  BY <1>1, <1>7
<1>14. \A c \in Members' : t \in AbandonedOf(c) => c \in AbsentWithout(t)[t]
  BY <1>1, <1>4, <1>8
<1>15. t \in Members \/ AbsentWithout(t)[t] = absent_parent_to_child_txids[t]
  BY <1>2, <1>8
<1> QED BY <1>1, <1>5, <1>6, <1>9, <1>11, <1>12, <1>13, <1>14, <1>15

\* remove leaves the pool without t, and keeps the invariant.
LEMMA RemoveTxStep ==
  ASSUME IInv, NEW t \in Tx, RemoveTx(t)
  PROVE  IInv' /\ Promise!RemoveTx(t)
<1>1. /\ call = NoCall /\ call' = NoCall /\ Shape /\ Related /\ Misses /\ IdleOK
      /\ returned' = <<"remove", t, Removes(t)>>
  BY DEF RemoveTx, Return, IInv, NoCall
<1>2. /\ abandoned_txs' = TxsWithout(t)
      /\ absent_parent_to_child_txids' = AbsentWithout(t)
      /\ available_parent_to_child_txids' = AvailableWithout(t)
  BY DEF RemoveTx
<1>3. /\ Shape' /\ Related' /\ Misses'
      /\ Members' = Members \ {t}
      /\ \A c \in Members' : /\ AbandonedOf(c)' = AbandonedOf(c) \ {t}
                             /\ AbsentOf(c)' = AbsentOf(c) \cup (AbandonedOf(c) \cap {t})
                             /\ t \in AbandonedOf(c) => c \in AbsentWithout(t)[t]
      /\ \A c \in Members', x \in Tx \ {t} :
           c \in absent_parent_to_child_txids'[x] <=> c \in absent_parent_to_child_txids[x]
      /\ t \in Members \/ AbsentWithout(t)[t] = absent_parent_to_child_txids[t]
  BY <1>1, <1>2, WithoutEntries DEF IdleOK
<1>4. \A c \in Members : AbandonedOf(c) \subseteq Tx /\ AbsentOf(c) \subseteq Tx
  BY <1>1 DEF Shape, Entries, AbandonedOf, AbsentOf
<1>5. IdleOK'
  <2>1. \A c \in Members' : AbandonedOf(c)' \subseteq Members'
    BY <1>1, <1>3 DEF IdleOK
  <2>2. ASSUME NEW c \in Members', NEW x \in AbsentOf(c)'
        PROVE  c \in absent_parent_to_child_txids'[x]
    <3>1. CASE x # t
      BY <1>1, <1>3, <1>4, <2>2, <3>1 DEF IdleOK
    <3>2. CASE x = t /\ t \in AbandonedOf(c)
      BY <1>2, <1>3, <3>2
    <3>3. CASE x = t /\ t \notin AbandonedOf(c)
      <4>1. t \in AbsentOf(c) /\ c \in Members
        BY <1>3, <2>2, <3>3
      <4>2. t \notin Members
        BY <1>1, <4>1 DEF Misses
      <4> QED BY <1>1, <1>2, <1>3, <3>3, <4>1, <4>2 DEF IdleOK
    <3> QED BY <3>1, <3>2, <3>3
  <2> QED BY <2>1, <2>2 DEF IdleOK
<1>6. Missing' = PoolRemove(Missing, t)
  <2>1. Missing' = [c \in Members' |-> AbandonedOf(c)' \cup AbsentOf(c)']
    BY DEF Missing, AbandonedOf, AbsentOf, Members
  <2>2. Missing' = [c \in Members \ {t} |-> AbandonedOf(c) \cup AbsentOf(c)]
    BY <1>3, <2>1
  <2> QED BY <2>2, MissingOf DEF PoolRemove
<1>7. Promise!RemoveTx(t)
  BY <1>1, <1>6, MissingOf, PromiseOperators DEF Promise!RemoveTx, Removes
<1> QED BY <1>1, <1>3, <1>5, <1>7 DEF IInv

------------------------------------------------------------------------------
\* remove_descendant_txs.

\* What spends a tx or a descendant of its is a descendant.
LEMMA SpendersDescend ==
  ASSUME NEW t \in Tx, NEW x \in {t} \cup DescendantsIn(Tx, {t})
  PROVE  Spenders(x) \subseteq DescendantsIn(Tx, {t})
<1>1. DescendantsIn(Tx, {t}) =
        {y \in Tx : \A S \in SUBSET Tx :
           (\A c \in Tx : Vin[c] \cap ({t} \cup S) # {} => c \in S) => y \in S}
  BY DEF DescendantsIn, LeastClosed
<1> SUFFICES ASSUME NEW c \in Tx, x \in Vin[c], NEW S \in SUBSET Tx,
                    \A d \in Tx : Vin[d] \cap ({t} \cup S) # {} => d \in S
             PROVE  c \in S
  BY <1>1 DEF Spenders
<1>2. x \in {t} \cup S
  BY <1>1
<1> QED BY <1>2

\* A sequence without repetition is an order of its members.
LEMMA SeqEnumerates ==
  ASSUME NEW s \in Seq(Tx), \A i, j \in DOMAIN s : i # j => s[i] # s[j]
  PROVE  s \in SetToSeqs(ToSet(s))
<1>1. DOMAIN s = 1 .. Len(s) /\ Len(s) \in Nat
  OBVIOUS
<1>2. s \in [1 .. Len(s) -> ToSet(s)]
  BY <1>1 DEF ToSet
<1>3. s \in Bijection(1 .. Len(s), ToSet(s))
  BY <1>1, <1>2 DEF ToSet, Bijection, Injection, IsInjective, Surjection
<1>4. IsFiniteSet(1 .. Len(s)) /\ Cardinality(1 .. Len(s)) = Len(s)
  BY <1>1, FS_Interval
<1>5. Cardinality(ToSet(s)) = Len(s)
  BY <1>3, <1>4, FS_Bijection DEF ExistsBijection
<1> QED BY <1>1, <1>2, <1>5 DEF SetToSeqs

\* One more tx in what a call gives back.
LEMMA OneMore ==
  ASSUME NEW s \in Seq(Tx), \A i, j \in DOMAIN s : i # j => s[i] # s[j],
         NEW t \in Tx, t \notin ToSet(s)
  PROVE  /\ Append(s, t) \in Seq(Tx)
         /\ ToSet(Append(s, t)) = ToSet(s) \cup {t}
         /\ \A i, j \in DOMAIN Append(s, t) : i # j => Append(s, t)[i] # Append(s, t)[j]
         /\ s \o <<t>> = Append(s, t)
<1>1. /\ DOMAIN s = 1 .. Len(s) /\ Len(s) \in Nat
      /\ DOMAIN Append(s, t) = 1 .. (Len(s) + 1)
      /\ \A i \in 1 .. Len(s) : Append(s, t)[i] = s[i]
      /\ Append(s, t)[Len(s) + 1] = t
  OBVIOUS
<1>2. \A i \in 1 .. Len(s) : s[i] # t
  BY <1>1 DEF ToSet
<1>3. ToSet(Append(s, t)) = ToSet(s) \cup {t}
  BY <1>1 DEF ToSet
<1>4. \A i, j \in DOMAIN Append(s, t) : i # j => Append(s, t)[i] # Append(s, t)[j]
  BY <1>1, <1>2
<1>5. s \o <<t>> = Append(s, t)
  OBVIOUS
<1> QED BY <1>3, <1>4, <1>5

\* One step of remove_descendant_txs, the first or a later one: t is taken out,
\* and what misses it is on the stack.
LEMMA RemoveOne ==
  ASSUME Shape, Related, Misses, NEW t \in Tx,
         \A c \in Members : AbandonedOf(c) \subseteq Members,
         abandoned_txs' = TxsWithout(t),
         absent_parent_to_child_txids' = [AbsentWithout(t) EXCEPT ![t] = {}],
         available_parent_to_child_txids' \in
           {AvailableWithout(t), [AvailableWithout(t) EXCEPT ![t] = {}]},
         NEW stack,
         \A c \in Members : \A x \in AbsentOf(c) :
           c \in absent_parent_to_child_txids[x] \cup stack
  PROVE  /\ Shape' /\ Related' /\ Misses'
         /\ Members' = Members \ {t}
         /\ absent_parent_to_child_txids'[t] = {}
         /\ \A x \in Tx : absent_parent_to_child_txids[x] = {}
                            => absent_parent_to_child_txids'[x] = {}
         /\ \A c \in Members' :
              /\ AbandonedOf(c)' \cup AbsentOf(c)' = AbandonedOf(c) \cup AbsentOf(c)
              /\ AbandonedOf(c)' \subseteq Members'
              /\ \A x \in AbsentOf(c)' :
                   c \in absent_parent_to_child_txids'[x] \cup (stack \ {t})
                           \cup AbsentWithout(t)[t]
<1>1. /\ Shape' /\ Related' /\ Misses'
      /\ Members' = Members \ {t}
      /\ \A c \in Members' : /\ AbandonedOf(c)' = AbandonedOf(c) \ {t}
                             /\ AbsentOf(c)' = AbsentOf(c) \cup (AbandonedOf(c) \cap {t})
                             /\ t \in AbandonedOf(c) => c \in AbsentWithout(t)[t]
      /\ \A c \in Members', x \in Tx \ {t} :
           c \in absent_parent_to_child_txids'[x] <=> c \in absent_parent_to_child_txids[x]
      /\ t \in Members \/ AbsentWithout(t)[t] = absent_parent_to_child_txids[t]
  BY WithoutEntries
<1>2. \A c \in Members : AbandonedOf(c) \subseteq Tx /\ AbsentOf(c) \subseteq Tx
  BY DEF Shape, Entries, AbandonedOf, AbsentOf
<1>3. absent_parent_to_child_txids'[t] = {}
  BY DEF AbsentWithout
<1>4. \A x \in Tx : absent_parent_to_child_txids[x] = {} => absent_parent_to_child_txids'[x] = {}
  BY DEF AbsentWithout
<1>5. ASSUME NEW c \in Members', NEW x \in AbsentOf(c)'
      PROVE  c \in absent_parent_to_child_txids'[x] \cup (stack \ {t}) \cup AbsentWithout(t)[t]
  <2>1. c \in Members /\ c # t
    BY <1>1
  <2>2. CASE x \in AbsentOf(c) /\ x # t
    BY <1>1, <1>2, <2>1, <2>2
  <2>3. CASE x \in AbsentOf(c) /\ x = t
    <3>1. t \notin Members
      BY <2>1, <2>3 DEF Misses
    <3> QED BY <1>1, <2>1, <2>3, <3>1
  <2>4. CASE x \notin AbsentOf(c)
    BY <1>1, <1>5, <2>4
  <2> QED BY <2>2, <2>3, <2>4
<1>6. \A c \in Members' :
        /\ AbandonedOf(c)' \cup AbsentOf(c)' = AbandonedOf(c) \cup AbsentOf(c)
        /\ AbandonedOf(c)' \subseteq Members'
  BY <1>1
<1> QED BY <1>1, <1>3, <1>4, <1>5, <1>6

\* The call begins.
LEMMA RemoveDescendantsIInv ==
  ASSUME IInv, NEW t \in Tx, RemoveDescendants(t)
  PROVE  IInv' /\ UNCHANGED <<returned, IF call = NoCall THEN Missing ELSE call.before>>
<1> DEFINE stack == AbsentWithout(t)[t] \cup AvailableWithout(t)[t]
<1>1. /\ call = NoCall /\ Shape /\ Related /\ Misses /\ IdleOK
      /\ call' = [op |-> "remove_descendants", tx |-> t, before |-> Missing,
                  res |-> Removes(t), stack |-> stack]
      /\ UNCHANGED returned
  BY DEF RemoveDescendants, IInv, NoCall
<1>2. /\ abandoned_txs' = TxsWithout(t)
      /\ absent_parent_to_child_txids' = [AbsentWithout(t) EXCEPT ![t] = {}]
      /\ available_parent_to_child_txids' = [AvailableWithout(t) EXCEPT ![t] = {}]
  BY DEF RemoveDescendants
<1>3. /\ Shape' /\ Related' /\ Misses'
      /\ Members' = Members \ {t}
      /\ absent_parent_to_child_txids'[t] = {}
      /\ \A c \in Members' :
           /\ AbandonedOf(c)' \cup AbsentOf(c)' = AbandonedOf(c) \cup AbsentOf(c)
           /\ AbandonedOf(c)' \subseteq Members'
           /\ \A x \in AbsentOf(c)' :
                c \in absent_parent_to_child_txids'[x] \cup AbsentWithout(t)[t]
  BY <1>1, <1>2, RemoveOne DEF IdleOK
<1>4. stack \subseteq DescendantsIn(Tx, {t})
  <2>1. AbsentWithout(t)[t] \subseteq Spenders(t) /\ AvailableWithout(t)[t] \subseteq Spenders(t)
    BY <1>1, <1>2, WithoutEntries DEF IdleOK
  <2> QED BY <2>1, SpendersDescend
<1>5. /\ Removes(t) \in Seq(Tx)
      /\ ToSet(Removes(t)) = Members \cap {t}
      /\ \A i, j \in DOMAIN Removes(t) : i # j => Removes(t)[i] # Removes(t)[j]
  BY DEF Removes, ToSet
<1>6. CallOK'
  <2>1. \A c \in Members : Missing[c] # {} /\ Missing[c] \subseteq Vin[c]
    BY <1>1, MissingOf DEF Misses, Related
  <2> QED BY <1>1, <1>3, <1>5, <2>1, MissingOf DEF CallOK
<1>7. RemoveOK'
  BY <1>1, <1>3, <1>4, <1>5, <1>6, MissingOf DEF RemoveOK
<1> QED BY <1>1, <1>3, <1>7 DEF IInv, NoCall

\* The loop goes on.
LEMMA RemoveNextIInv ==
  ASSUME IInv, RemoveNext
  PROVE  IInv' /\ UNCHANGED <<returned, IF call = NoCall THEN Missing ELSE call.before>>
<1>1. /\ call.op = "remove_descendants" /\ RemoveOK /\ CallOK
      /\ Shape /\ Related /\ Misses /\ UNCHANGED returned
  <2>1. call.op = "remove_descendants" /\ UNCHANGED returned
    BY DEF RemoveNext
  <2>2. NoCall.op = "none"
    BY DEF NoCall
  <2>3. RemoveOK /\ Shape /\ Related /\ Misses
    BY <2>1, <2>2 DEF IInv
  <2> QED BY <2>1, <2>3 DEF RemoveOK
<1>2. PICK t \in call.stack :
        /\ abandoned_txs' = TxsWithout(t)
        /\ absent_parent_to_child_txids' = [AbsentWithout(t) EXCEPT ![t] = {}]
        /\ available_parent_to_child_txids' = AvailableWithout(t)
        /\ call' = [call EXCEPT !.res = @ \o Removes(t),
                                !.stack = (@ \ {t}) \cup AbsentWithout(t)[t]]
  BY DEF RemoveNext
<1>3. t \in DescendantsIn(Tx, {call.tx}) /\ t \in Tx
  BY <1>1, <1>2 DEF RemoveOK, DescendantsIn, LeastClosed
<1>4. /\ call'.op = call.op /\ call'.tx = call.tx /\ call'.before = call.before
      /\ call'.res = call.res \o Removes(t)
      /\ call'.stack = (call.stack \ {t}) \cup AbsentWithout(t)[t]
      /\ DOMAIN call' = DOMAIN call
  BY <1>1, <1>2 DEF CallOK
<1>5. /\ Shape' /\ Related' /\ Misses'
      /\ Members' = Members \ {t}
      /\ absent_parent_to_child_txids'[t] = {}
      /\ \A x \in Tx : absent_parent_to_child_txids[x] = {}
                         => absent_parent_to_child_txids'[x] = {}
      /\ \A c \in Members' :
           /\ AbandonedOf(c)' \cup AbsentOf(c)' = AbandonedOf(c) \cup AbsentOf(c)
           /\ AbandonedOf(c)' \subseteq Members'
           /\ \A x \in AbsentOf(c)' :
                c \in absent_parent_to_child_txids'[x] \cup (call.stack \ {t})
                        \cup AbsentWithout(t)[t]
  <2>1. \A c \in Members : AbandonedOf(c) \subseteq Members
    BY <1>1 DEF RemoveOK
  <2>2. \A c \in Members : \A x \in AbsentOf(c) :
          c \in absent_parent_to_child_txids[x] \cup call.stack
    BY <1>1 DEF RemoveOK
  <2>3. PICK stack : stack = call.stack
    OBVIOUS
  <2>4. \A c \in Members : \A x \in AbsentOf(c) :
          c \in absent_parent_to_child_txids[x] \cup stack
    BY <2>2, <2>3
  <2>5. \A c \in Members' : \A x \in AbsentOf(c)' :
          c \in absent_parent_to_child_txids'[x] \cup (stack \ {t}) \cup AbsentWithout(t)[t]
    BY <1>1, <1>2, <1>3, <2>1, <2>4, RemoveOne
  <2> QED BY <1>1, <1>2, <1>3, <2>1, <2>3, <2>4, <2>5, RemoveOne
<1>6. call'.stack \subseteq DescendantsIn(Tx, {call.tx})
  <2>1. AbsentWithout(t)[t] \subseteq Spenders(t)
    BY <1>1, <1>2, <1>3, WithoutEntries DEF RemoveOK
  <2>2. Spenders(t) \subseteq DescendantsIn(Tx, {call.tx})
    BY <1>1, <1>3, SpendersDescend DEF CallOK
  <2> QED BY <1>1, <1>4, <2>1, <2>2 DEF RemoveOK
<1>7. /\ call'.res \in Seq(Tx)
      /\ ToSet(call'.res) = ToSet(call.res) \cup (Members \cap {t})
      /\ \A i, j \in DOMAIN call'.res : i # j => call'.res[i] # call'.res[j]
  <2>1. CASE t \in Members
    <3>1. t \notin ToSet(call.res)
      BY <1>1, <2>1 DEF CallOK
    <3>2. call'.res = call.res \o <<t>>
      BY <1>4, <2>1 DEF Removes
    <3>3. call.res \in Seq(Tx)
          /\ \A i, j \in DOMAIN call.res : i # j => call.res[i] # call.res[j]
      BY <1>1 DEF CallOK
    <3>4. Members \cap {t} = {t}
      BY <2>1
    <3>5. PICK s \in Seq(Tx) : s = call.res
      BY <3>3
    <3>6. call'.res = Append(s, t)
      BY <3>2, <3>5
    <3> QED BY <1>3, <3>1, <3>3, <3>4, <3>5, <3>6, OneMore
  <2>2. CASE t \notin Members
    <3>1. call'.res = call.res
      BY <1>1, <1>4, <2>2 DEF CallOK, Removes
    <3> QED BY <1>1, <2>2, <3>1 DEF CallOK
  <2> QED BY <2>1, <2>2
<1>8. CallOK'
  BY <1>1, <1>4, <1>5, <1>7 DEF CallOK
<1>9. RemoveOK'
  <2>1. \A x \in {call'.tx} \cup ToSet(call'.res) : absent_parent_to_child_txids'[x] = {}
    <3>1. {call.tx} \cup ToSet(call.res) \subseteq Tx
      BY <1>1 DEF CallOK, ToSet
    <3> QED BY <1>1, <1>4, <1>5, <1>7, <3>1 DEF RemoveOK
  <2>2. \A c \in Members' :
          /\ call'.before[c] = AbandonedOf(c)' \cup AbsentOf(c)'
          /\ AbandonedOf(c)' \subseteq Members'
          /\ \A x \in AbsentOf(c)' : c \in absent_parent_to_child_txids'[x] \cup call'.stack
    BY <1>1, <1>4, <1>5 DEF RemoveOK
  <2>3. ToSet(call'.res) \subseteq {call'.tx} \cup DescendantsIn(Tx, {call'.tx})
    BY <1>1, <1>3, <1>4, <1>7 DEF RemoveOK
  <2>4. call'.tx \notin Members'
    BY <1>1, <1>4, <1>5 DEF RemoveOK
  <2> QED BY <1>4, <1>6, <1>8, <2>1, <2>2, <2>3, <2>4 DEF RemoveOK
<1> QED BY <1>1, <1>4, <1>5, <1>9 DEF IInv, NoCall

\* The call returns what it has taken out: with a tx all that miss it.
LEMMA RemoveReturnStep ==
  ASSUME IInv, RemoveReturn
  PROVE  IInv' /\ \E t \in Tx : Promise!RemoveDescendants(t)
<1> DEFINE D == ToSet(call.res)
<1>1. /\ call.op = "remove_descendants" /\ RemoveOK /\ CallOK
      /\ Shape /\ Related /\ Misses
      /\ call.stack = {} /\ UNCHANGED maps /\ call' = NoCall
      /\ returned' = <<"remove_descendants", call.tx, call.res>>
      /\ call # NoCall
  BY DEF RemoveReturn, Return, IInv, NoCall, RemoveOK
<1>2. /\ Shape' /\ Related' /\ Misses' /\ Members' = Members /\ Missing' = Missing
  BY <1>1 DEF maps, Shape, Related, Misses, Members, Missing, AbandonedOf, AbsentOf, ChildrenOf
<1>3. IdleOK
  BY <1>1 DEF RemoveOK, IdleOK
<1>4. IdleOK'
  BY <1>1, <1>3 DEF maps, IdleOK, Members, AbandonedOf, AbsentOf
<1>5. \A c \in Members : call.before[c] \cap ({call.tx} \cup D) = {}
  <2> SUFFICES ASSUME NEW c \in Members, NEW x \in call.before[c], x \in {call.tx} \cup D
               PROVE  FALSE
    OBVIOUS
  <2>1. x \notin Members
    BY <1>1 DEF RemoveOK, CallOK
  <2>2. x \in AbsentOf(c)
    BY <1>1, <2>1 DEF RemoveOK
  <2> QED BY <1>1, <2>2 DEF RemoveOK
<1>6. D \in PoolRejects(call.before, {call.tx})
  <2>1. D \subseteq DOMAIN call.before \cap ({call.tx} \cup DescendantsIn(Tx, {call.tx}))
    BY <1>1 DEF RemoveOK, CallOK
  <2>2. \A c \in DOMAIN call.before :
          c \in {call.tx} \/ call.before[c] \cap ({call.tx} \cup D) # {} => c \in D
    BY <1>1, <1>5 DEF RemoveOK, CallOK
  <2> QED BY <2>1, <2>2 DEF PoolRejects
<1>7. Missing = PoolWithout(call.before, D)
  <2>1. Missing = [c \in Members |-> AbandonedOf(c) \cup AbsentOf(c)]
    BY DEF Missing, AbandonedOf, AbsentOf
  <2>2. Members = DOMAIN call.before \ D
    BY <1>1 DEF CallOK
  <2>3. \A c \in Members : AbandonedOf(c) \cup AbsentOf(c) = call.before[c]
    BY <1>1 DEF RemoveOK
  <2> QED BY <2>1, <2>2, <2>3 DEF PoolWithout
<1>8. call.res \in SetToSeqs(D)
  BY <1>1, SeqEnumerates DEF CallOK
<1>9. Promise!RemoveDescendants(call.tx)
  BY <1>1, <1>2, <1>6, <1>7, <1>8, PromiseOperators DEF Promise!RemoveDescendants
<1> QED BY <1>1, <1>2, <1>4, <1>9 DEF IInv, CallOK

------------------------------------------------------------------------------
\* restore_descendant_txs.

\* PoolRestored is closed.
LEMMA RestoredClosed ==
  ASSUME NEW pool, NEW txs, NEW S \in SUBSET PoolRestored(pool, txs), NEW c \in DOMAIN pool,
         pool[c] \subseteq (txs \ DOMAIN pool) \cup S
  PROVE  c \in PoolRestored(pool, txs)
<1>1. PoolRestored(pool, txs) =
        {y \in DOMAIN pool : \A F \in SUBSET DOMAIN pool :
           (\A d \in DOMAIN pool : pool[d] \subseteq (txs \ DOMAIN pool) \cup F => d \in F)
             => y \in F}
  BY DEF PoolRestored, LeastClosed
<1> QED BY <1>1

\* PoolRestored is the least closed set.
LEMMA RestoredLeast ==
  ASSUME NEW pool, NEW txs, NEW S \in SUBSET DOMAIN pool,
         \A d \in DOMAIN pool : pool[d] \subseteq (txs \ DOMAIN pool) \cup S => d \in S
  PROVE  PoolRestored(pool, txs) \subseteq S
<1>1. PoolRestored(pool, txs) =
        {y \in DOMAIN pool : \A F \in SUBSET DOMAIN pool :
           (\A d \in DOMAIN pool : pool[d] \subseteq (txs \ DOMAIN pool) \cup F => d \in F)
             => y \in F}
  BY DEF PoolRestored, LeastClosed
<1> QED BY <1>1

\* The call begins.
LEMMA RestoreDescendantsIInv ==
  ASSUME IInv, NEW t \in Tx, RestoreDescendants(t)
  PROVE  IInv' /\ UNCHANGED <<returned, IF call = NoCall THEN Missing ELSE call.before>>
<1>1. /\ call = NoCall /\ Shape /\ Related /\ Misses /\ IdleOK
      /\ call' = [op |-> "restore_descendants", tx |-> t, before |-> Missing, res |-> << >>,
                  parent |-> t, children |-> absent_parent_to_child_txids[t], stack |-> << >>]
      /\ absent_parent_to_child_txids' = [absent_parent_to_child_txids EXCEPT ![t] = {}]
      /\ UNCHANGED <<abandoned_txs, available_parent_to_child_txids, returned>>
  BY DEF RestoreDescendants, IInv, NoCall
<1>2. /\ Members' = Members
      /\ \A c \in Members : /\ AbandonedOf(c)' = AbandonedOf(c)
                            /\ AbsentOf(c)' = AbsentOf(c)
                            /\ ChildrenOf(c)' = ChildrenOf(c)
  BY <1>1 DEF Members, AbandonedOf, AbsentOf, ChildrenOf
<1>3. \A x \in Tx : absent_parent_to_child_txids'[x] =
                      IF x = t THEN {} ELSE absent_parent_to_child_txids[x]
  BY <1>1 DEF Shape, ParentMaps
<1>4. Shape'
  BY <1>1, <1>2 DEF Shape, ParentMaps
<1>5. Related'
  <2>1. \A x \in Tx : /\ absent_parent_to_child_txids'[x] \subseteq Spenders(x)
                      /\ available_parent_to_child_txids'[x] \subseteq Spenders(x)
    BY <1>1, <1>3 DEF Related
  <2>2. \A x \in Members : absent_parent_to_child_txids'[x] = {}
    BY <1>1, <1>3 DEF Related, Shape
  <2> QED BY <1>1, <1>2, <2>1, <2>2 DEF Related, Spenders
<1>6. Misses'
  BY <1>1, <1>2 DEF Misses
<1>7. CallOK'
  <2>1. \A c \in Members : Missing[c] # {} /\ Missing[c] \subseteq Vin[c]
    BY <1>1, MissingOf DEF Misses, Related
  <2>2. << >> \in Seq(Tx) /\ ToSet(<< >>) = {}
    BY DEF ToSet
  <2> QED BY <1>1, <1>2, <2>1, <2>2, MissingOf DEF CallOK
<1>8. RestoreOK'
  <2>1. absent_parent_to_child_txids[t] \subseteq Tx /\ ToSet(<< >>) = {}
    BY <1>1 DEF Shape, ParentMaps, ToSet
  <2>2. t \in Members => absent_parent_to_child_txids[t] = {}
    BY <1>1 DEF Related
  <2>3. \A c \in Members : AbsentOf(c) \subseteq Tx
    BY <1>1 DEF Shape, Entries, AbsentOf
  <2>4. ASSUME NEW c \in Members'
        PROVE  /\ AbandonedOf(c)' \cup AbsentOf(c)' \subseteq call'.before[c]
               /\ call'.before[c] \subseteq AbandonedOf(c)' \cup AbsentOf(c)'
               /\ AbandonedOf(c)' \subseteq DOMAIN call'.before
               /\ AbandonedOf(c)' \subseteq Members'
               /\ AbsentOf(c)' \cap DOMAIN call'.before = {}
    BY <1>1, <1>2, <2>4, MissingOf DEF IdleOK, Misses
  <2>5. ASSUME NEW c \in Members', NEW x \in AbsentOf(c)'
        PROVE  \/ c \in absent_parent_to_child_txids'[x]
               \/ x = t /\ c \in absent_parent_to_child_txids[t]
    BY <1>1, <1>2, <1>3, <2>3, <2>5 DEF IdleOK
  <2>6. /\ {"parent", "children"} \subseteq DOMAIN call'
        /\ call'.children \subseteq Tx /\ call'.stack = << >> /\ call'.res = << >>
        /\ call'.parent = t /\ call'.tx = t
        /\ call'.children = absent_parent_to_child_txids[t]
        /\ call'.before = Missing
    BY <1>1, <2>1
  <2>7. << >> \in Seq([tx : Tx, child_txids : SUBSET Tx]) /\ DOMAIN << >> = {}
    OBVIOUS
  <2>8. t \in DOMAIN call'.before => call'.children = {}
    BY <2>2, <2>6, MissingOf
  <2>9. absent_parent_to_child_txids'[t] = {}
    BY <1>3
  <2> QED BY <1>7, <2>1, <2>4, <2>5, <2>6, <2>7, <2>8, <2>9 DEF RestoreOK, FramesOK, RestoredOK, RemainingOK
<1> QED BY <1>1, <1>4, <1>5, <1>6, <1>8 DEF IInv, NoCall

\* The first of a sequence and the rest.
LEMMA HeadAndTail ==
  ASSUME NEW F, NEW s \in Seq(F), s # << >>
  PROVE  /\ Len(s) \in Nat \ {0}
         /\ Head(s) = s[1] /\ Head(s) \in F
         /\ Tail(s) \in Seq(F)
         /\ DOMAIN s = 1 .. Len(s)
         /\ DOMAIN Tail(s) = 1 .. (Len(s) - 1)
         /\ \A i \in 1 .. (Len(s) - 1) : Tail(s)[i] = s[i + 1]
<1>1. DOMAIN s = 1 .. Len(s) /\ Len(s) \in Nat \ {0}
  OBVIOUS
<1>2. Head(s) = s[1] /\ Head(s) \in F
  BY <1>1
<1>3. Tail(s) \in Seq(F) /\ Len(Tail(s)) = Len(s) - 1
  BY HeadTailProperties
<1>4. \A i \in 1 .. Len(Tail(s)) : Tail(s)[i] = s[i + 1]
  BY HeadTailProperties
<1> QED BY <1>1, <1>2, <1>3, <1>4

\* A parent whose children have all been looked at makes way for the next.
LEMMA RestoreNextIInv ==
  ASSUME IInv, RestoreNext
  PROVE  IInv' /\ UNCHANGED <<returned, IF call = NoCall THEN Missing ELSE call.before>>
<1> DEFINE Frames == [tx : Tx, child_txids : SUBSET Tx]
<1>1. /\ call.op = "restore_descendants" /\ call.children = {} /\ call.stack # << >>
      /\ call' = [call EXCEPT !.parent = Head(call.stack).tx,
                              !.children = Head(call.stack).child_txids,
                              !.stack = Tail(@)]
      /\ UNCHANGED <<maps, returned>>
  BY DEF RestoreNext
<1>2. RestoreOK /\ CallOK /\ Shape /\ Related /\ Misses /\ NoCall.op = "none"
  <2>1. NoCall.op = "none"
    BY DEF NoCall
  <2> QED BY <1>1, <2>1 DEF IInv, RestoreOK, FramesOK, RestoredOK, RemainingOK
<1>3. /\ call'.op = call.op /\ call'.tx = call.tx /\ call'.before = call.before
      /\ call'.res = call.res
      /\ call'.parent = Head(call.stack).tx
      /\ call'.children = Head(call.stack).child_txids
      /\ call'.stack = Tail(call.stack)
      /\ DOMAIN call' = DOMAIN call
  BY <1>1, <1>2 DEF CallOK, RestoreOK, FramesOK, RestoredOK, RemainingOK
<1>4. call.stack \in Seq(Frames)
  BY <1>2 DEF RestoreOK, FramesOK, RestoredOK, RemainingOK
<1>5. /\ Len(call.stack) \in Nat \ {0}
      /\ Head(call.stack) = call.stack[1] /\ Head(call.stack) \in Frames
      /\ Tail(call.stack) \in Seq(Frames)
      /\ DOMAIN call.stack = 1 .. Len(call.stack)
      /\ DOMAIN Tail(call.stack) = 1 .. (Len(call.stack) - 1)
      /\ \A i \in 1 .. (Len(call.stack) - 1) : Tail(call.stack)[i] = call.stack[i + 1]
  <2>1. PICK s \in Seq(Frames) : s = call.stack
    BY <1>4
  <2>2. s # << >>
    BY <1>1, <2>1
  <2> HIDE DEF Frames
  <2> QED BY <2>1, <2>2, HeadAndTail
<1>6. /\ Shape' /\ Related' /\ Misses' /\ Members' = Members
      /\ absent_parent_to_child_txids' = absent_parent_to_child_txids
      /\ \A c \in Members : AbandonedOf(c)' = AbandonedOf(c) /\ AbsentOf(c)' = AbsentOf(c)
  BY <1>1, <1>2 DEF maps, Shape, Related, Misses, Members, AbandonedOf, AbsentOf, ChildrenOf
<1>7. CallOK'
  BY <1>2, <1>3, <1>6 DEF CallOK
<1>8. RestoreOK'
  <2>1. /\ call'.children \subseteq Tx /\ call'.stack \in Seq(Frames)
        /\ call'.parent \in ToSet(call'.res)
        /\ \A i \in DOMAIN call'.stack : call'.stack[i].tx \in ToSet(call'.res)
    BY <1>2, <1>3, <1>5 DEF RestoreOK, FramesOK, RestoredOK, RemainingOK
  <2>2. call'.tx \notin DOMAIN call'.before
    BY <1>1, <1>2, <1>3 DEF RestoreOK, FramesOK, RestoredOK, RemainingOK
  <2>3. ASSUME NEW c \in Members', NEW x \in AbandonedOf(c)' \ Members'
        PROVE  \/ x = call'.parent /\ c \in call'.children
               \/ \E i \in DOMAIN call'.stack :
                    call'.stack[i].tx = x /\ c \in call'.stack[i].child_txids
    <3>1. PICK i \in DOMAIN call.stack :
            call.stack[i].tx = x /\ c \in call.stack[i].child_txids
      BY <1>1, <1>2, <1>6, <2>3 DEF RestoreOK, FramesOK, RestoredOK, RemainingOK
    <3>2. CASE i = 1
      BY <1>3, <1>5, <3>1, <3>2
    <3>3. CASE i # 1
      <4>1. i - 1 \in 1 .. (Len(call.stack) - 1) /\ (i - 1) + 1 = i
        BY <1>5, <3>3
      <4>2. call'.stack[i - 1] = call.stack[i] /\ i - 1 \in DOMAIN call'.stack
        BY <1>3, <1>5, <4>1
      <4> QED BY <3>1, <4>2
    <3> QED BY <3>2, <3>3
  <2>4. \A c \in Members : \A x \in AbsentOf(c) : c \in absent_parent_to_child_txids[x]
    BY <1>1, <1>2 DEF RestoreOK, FramesOK, RestoredOK, RemainingOK
  <2>5. \A c \in Members' :
          /\ AbandonedOf(c)' \cup AbsentOf(c)' \subseteq call'.before[c]
          /\ call'.before[c] \subseteq AbandonedOf(c)' \cup AbsentOf(c)' \cup ToSet(call'.res)
                                        \cup ({call'.tx} \ DOMAIN call'.before)
          /\ AbandonedOf(c)' \subseteq DOMAIN call'.before
          /\ AbsentOf(c)' \cap DOMAIN call'.before = {}
          /\ \A x \in AbsentOf(c)' : c \in absent_parent_to_child_txids'[x]
    BY <1>2, <1>3, <1>6, <2>4 DEF RestoreOK, FramesOK, RestoredOK, RemainingOK
  <2>6. \A j \in DOMAIN call'.res : \A x \in call'.before[call'.res[j]] :
          \/ x \in {call'.tx} \ DOMAIN call'.before
          \/ \E i \in 1 .. (j - 1) : x = call'.res[i]
    BY <1>2, <1>3 DEF RestoreOK, FramesOK, RestoredOK, RemainingOK
  <2>7. /\ ToSet(call'.res) \subseteq PoolRestored(call'.before, {call'.tx})
        /\ absent_parent_to_child_txids'[call'.tx] = {}
        /\ {"parent", "children"} \subseteq DOMAIN call'
    BY <1>2, <1>3, <1>6 DEF RestoreOK, FramesOK, RestoredOK, RemainingOK
  <2> QED BY <1>7, <2>1, <2>2, <2>3, <2>5, <2>6, <2>7 DEF RestoreOK, FramesOK, RestoredOK, RemainingOK
<1> QED BY <1>1, <1>2, <1>3, <1>6, <1>8 DEF IInv

\* What RestoreReturn finds: members miss neither a tx that was restored nor the
\* one that came back.
LEMMA NothingLeft ==
  ASSUME Shape, Misses, RestoreOK, call.children = {}, call.stack = << >>
  PROVE  /\ IdleOK
         /\ \A c \in Members :
              /\ Missing[c] = call.before[c] \ (({call.tx} \ DOMAIN call.before) \cup ToSet(call.res))
              /\ Missing[c] # {}
<1>1. CallOK
  BY DEF RestoreOK, FramesOK, RestoredOK, RemainingOK
<1>2. ASSUME NEW c \in Members
      PROVE  AbandonedOf(c) \subseteq Members
  <2>1. DOMAIN call.stack = {}
    OBVIOUS
  <2> QED BY <2>1 DEF RestoreOK, FramesOK, RestoredOK, RemainingOK
<1>3. ASSUME NEW c \in Members, NEW x \in AbsentOf(c)
      PROVE  c \in absent_parent_to_child_txids[x]
  BY DEF RestoreOK, FramesOK, RestoredOK, RemainingOK
<1>4. ASSUME NEW c \in Members
      PROVE  Missing[c] \cap (({call.tx} \ DOMAIN call.before) \cup ToSet(call.res)) = {}
  <2>1. AbandonedOf(c) \cap (({call.tx} \ DOMAIN call.before) \cup ToSet(call.res)) = {}
    BY <1>1, <1>2 DEF CallOK
  <2>2. AbsentOf(c) \cap ToSet(call.res) = {}
    BY <1>1 DEF CallOK, RestoreOK, FramesOK, RestoredOK, RemainingOK
  <2>3. call.tx \notin AbsentOf(c)
    BY <1>3 DEF RestoreOK, FramesOK, RestoredOK, RemainingOK
  <2> QED BY <2>1, <2>2, <2>3, MissingOf
<1>5. \A c \in Members :
        Missing[c] = call.before[c] \ (({call.tx} \ DOMAIN call.before) \cup ToSet(call.res))
  BY <1>4, MissingOf DEF RestoreOK, FramesOK, RestoredOK, RemainingOK
<1> QED BY <1>2, <1>3, <1>5, MissingOf DEF IdleOK, Misses

\* The call returns what it has taken out: those that miss nothing any more.
LEMMA RestoreReturnStep ==
  ASSUME IInv, RestoreReturn
  PROVE  IInv' /\ \E t \in Tx : Promise!RestoreDescendants(t)
<1> DEFINE R == ToSet(call.res)
           back == {call.tx} \ DOMAIN call.before
<1>1. /\ call.op = "restore_descendants" /\ call.children = {} /\ call.stack = << >>
      /\ UNCHANGED maps /\ call' = NoCall
      /\ returned' = <<"restore_descendants", call.tx, call.res>>
  BY DEF RestoreReturn, Return
<1>2. RestoreOK /\ CallOK /\ Shape /\ Related /\ Misses /\ call # NoCall
  <2>1. NoCall.op = "none"
    BY DEF NoCall
  <2> QED BY <1>1, <2>1 DEF IInv, RestoreOK, FramesOK, RestoredOK, RemainingOK
<1>3. /\ IdleOK
      /\ \A c \in Members : Missing[c] = call.before[c] \ (back \cup R) /\ Missing[c] # {}
  BY <1>1, <1>2, NothingLeft
<1>4. /\ Shape' /\ Related' /\ Misses' /\ IdleOK' /\ Missing' = Missing
  BY <1>1, <1>2, <1>3
  DEF maps, Shape, Related, Misses, IdleOK, Members, Missing, AbandonedOf, AbsentOf, ChildrenOf
<1>5. DOMAIN call.before = Members \cup R /\ Members \cap R = {}
  BY <1>2 DEF CallOK
<1>6. R = PoolRestored(call.before, {call.tx})
  <2>1. R \subseteq PoolRestored(call.before, {call.tx})
    BY <1>2 DEF RestoreOK, FramesOK, RestoredOK, RemainingOK
  <2>2. \A c \in DOMAIN call.before : call.before[c] \subseteq back \cup R => c \in R
    BY <1>3, <1>5
  <2>3. PICK before, x, S : before = call.before /\ x = call.tx /\ S = R
    OBVIOUS
  <2>4. S \in SUBSET DOMAIN before
    BY <1>5, <2>3
  <2>5. \A c \in DOMAIN before : before[c] \subseteq ({x} \ DOMAIN before) \cup S => c \in S
    BY <2>2, <2>3
  <2>6. PoolRestored(before, {x}) \subseteq S
    BY <2>4, <2>5, RestoredLeast
  <2> QED BY <2>1, <2>3, <2>6
<1>7. Missing = PoolAfterRestore(call.before, {call.tx})
  <2>1. Missing = [c \in Members |-> Missing[c]]
    BY DEF Missing
  <2>2. Missing = [c \in DOMAIN call.before \ R |-> call.before[c] \ (back \cup R)]
    BY <1>3, <1>5, <2>1
  <2> QED BY <1>6, <2>2 DEF PoolAfterRestore
<1>8. call.res \in RestoreOrders(call.before, call.tx)
  <2>1. call.res \in SetToSeqs(R)
    BY <1>2, SeqEnumerates DEF CallOK
  <2>2. DOMAIN call.res = 1 .. Len(call.res) /\ Len(call.res) \in Nat
    BY <1>2 DEF CallOK
  <2>3. ASSUME NEW i \in DOMAIN call.res, NEW j \in DOMAIN call.res,
               call.res[i] \in call.before[call.res[j]]
        PROVE  i < j
    <3>1. call.res[i] \in DOMAIN call.before
      BY <1>5 DEF ToSet
    <3>2. PICK k \in 1 .. (j - 1) : call.res[i] = call.res[k]
      BY <1>2, <2>3, <3>1 DEF RestoreOK, FramesOK, RestoredOK, RemainingOK
    <3>3. k \in DOMAIN call.res /\ k < j
      BY <2>2, <3>2
    <3>4. i = k
      BY <1>2, <3>2, <3>3 DEF CallOK
    <3> QED BY <3>3, <3>4
  <2> QED BY <1>6, <2>1, <2>3 DEF RestoreOrders
<1>9. Promise!RestoreDescendants(call.tx)
  BY <1>1, <1>2, <1>4, <1>7, <1>8, PromiseOperators DEF Promise!RestoreDescendants
<1> QED BY <1>1, <1>2, <1>4, <1>9 DEF IInv, CallOK

\* A child is looked at that is no longer there.
LEMMA RestoreSkip ==
  ASSUME Shape, Related, Misses, RestoreOK, NEW c \in call.children, c \notin Members,
         call' = [call EXCEPT !.children = @ \ {c}],
         UNCHANGED <<maps, returned>>
  PROVE  /\ Shape' /\ Related' /\ Misses' /\ RestoreOK'
         /\ call'.op = call.op /\ call'.before = call.before
<1>1. CallOK
  BY DEF RestoreOK, FramesOK, RestoredOK, RemainingOK
<1>2. /\ call'.op = call.op /\ call'.tx = call.tx /\ call'.before = call.before
      /\ call'.res = call.res /\ call'.parent = call.parent /\ call'.stack = call.stack
      /\ call'.children = call.children \ {c}
      /\ DOMAIN call' = DOMAIN call
  BY <1>1 DEF CallOK, RestoreOK, FramesOK, RestoredOK, RemainingOK
<1>3. /\ Shape' /\ Related' /\ Misses' /\ Members' = Members
      /\ absent_parent_to_child_txids' = absent_parent_to_child_txids
      /\ \A d \in Members : AbandonedOf(d)' = AbandonedOf(d) /\ AbsentOf(d)' = AbsentOf(d)
  BY DEF maps, Shape, Related, Misses, Members, AbandonedOf, AbsentOf, ChildrenOf
<1>4. CallOK'
  BY <1>1, <1>2, <1>3 DEF CallOK
<1>5. call'.tx \in DOMAIN call'.before => FALSE
  BY <1>2 DEF RestoreOK, FramesOK, RestoredOK, RemainingOK
<1>6. ASSUME NEW d \in Members
      PROVE  /\ \A x \in AbsentOf(d) :
                  \/ d \in absent_parent_to_child_txids[x]
                  \/ x = call.tx /\ call.parent = call.tx /\ d \in call'.children
             /\ \A x \in AbandonedOf(d) \ Members :
                  \/ x = call.parent /\ d \in call'.children
                  \/ \E i \in DOMAIN call.stack :
                       call.stack[i].tx = x /\ d \in call.stack[i].child_txids
  BY <1>2, <1>6 DEF RestoreOK, FramesOK, RestoredOK, RemainingOK
<1>7. ASSUME NEW d \in Members
      PROVE  /\ AbandonedOf(d) \cup AbsentOf(d) \subseteq call.before[d]
             /\ call.before[d] \subseteq AbandonedOf(d) \cup AbsentOf(d) \cup ToSet(call.res)
                                           \cup ({call.tx} \ DOMAIN call.before)
             /\ AbandonedOf(d) \subseteq DOMAIN call.before
             /\ AbsentOf(d) \cap DOMAIN call.before = {}
  BY DEF RestoreOK, FramesOK, RestoredOK, RemainingOK
<1>8. /\ \A j \in DOMAIN call.res : \A x \in call.before[call.res[j]] :
           x \in {call.tx} \ DOMAIN call.before \/ \E i \in 1 .. (j - 1) : x = call.res[i]
      /\ ToSet(call.res) \subseteq PoolRestored(call.before, {call.tx})
      /\ {"parent", "children"} \subseteq DOMAIN call
      /\ call.children \subseteq Tx
      /\ call.stack \in Seq([tx : Tx, child_txids : SUBSET Tx])
      /\ \A i \in DOMAIN call.stack : call.stack[i].tx \in ToSet(call.res)
      /\ call.parent \in {call.tx} \cup ToSet(call.res)
      /\ absent_parent_to_child_txids[call.tx] = {}
  BY DEF RestoreOK, FramesOK, RestoredOK, RemainingOK
<1>9. RestoreOK'
  <2>1. FramesOK'
    <3>1. call'.tx \notin DOMAIN call'.before
      BY <1>2, <1>3, <1>5
    <3>2. \A i \in DOMAIN call'.stack : call'.stack[i].tx \in ToSet(call'.res)
      BY <1>2, <1>8
    <3>3. /\ {"parent", "children"} \subseteq DOMAIN call'
          /\ call'.children \subseteq Tx
          /\ call'.parent \in {call'.tx} \cup ToSet(call'.res)
          /\ absent_parent_to_child_txids'[call'.tx] = {}
      BY <1>2, <1>8, <1>3
    <3>4. call'.stack \in Seq([tx : Tx, child_txids : SUBSET Tx])
      BY <1>2, <1>8
    <3> QED BY <3>1, <3>2, <3>3, <3>4 DEF FramesOK
  <2>2. RestoredOK'
    <3>1. {call'.tx} = {call.tx} /\ call'.res = call.res /\ call'.before = call.before
      BY <1>2
    <3>2. ToSet(call'.res) \subseteq PoolRestored(call'.before, {call'.tx})
      BY <3>1, <1>8
    <3>3. \A j \in DOMAIN call'.res : \A x \in call'.before[call'.res[j]] :
            x \in {call'.tx} \ DOMAIN call'.before \/ \E i \in 1 .. (j - 1) : x = call'.res[i]
      BY <3>1, <1>8
    <3> QED BY <3>2, <3>3 DEF RestoredOK
  <2>3. RemainingOK'
    BY <1>2, <1>3, <1>6, <1>7 DEF RemainingOK
  <2> QED BY <1>4, <2>1, <2>2, <2>3 DEF RestoreOK
<1> QED BY <1>2, <1>3, <1>9

\* A child is looked at that still misses something.
LEMMA RestoreKeep ==
  ASSUME Shape, Related, Misses, RestoreOK, NEW c \in call.children, c \in Members,
         ~MissesNothing(Found(abandoned_txs[c])),
         call' = [call EXCEPT !.children = @ \ {c}],
         abandoned_txs' = [abandoned_txs EXCEPT ![c] = Found(@)],
         UNCHANGED <<absent_parent_to_child_txids, available_parent_to_child_txids>>
  PROVE  /\ Shape' /\ Related' /\ Misses' /\ RestoreOK'
         /\ call'.op = call.op /\ call'.before = call.before
<1>1. CallOK
  BY DEF RestoreOK, FramesOK, RestoredOK, RemainingOK
<1>2. /\ call'.op = call.op /\ call'.tx = call.tx /\ call'.before = call.before
      /\ call'.res = call.res /\ call'.parent = call.parent /\ call'.stack = call.stack
      /\ call'.children = call.children \ {c}
      /\ DOMAIN call' = DOMAIN call
  BY <1>1 DEF CallOK, RestoreOK, FramesOK, RestoredOK, RemainingOK
<1>3. /\ Members' = Members
      /\ abandoned_txs[c] \in Entries
      /\ \A d \in Members \ {c} : abandoned_txs'[d] = abandoned_txs[d]
      /\ abandoned_txs'[c] = Found(abandoned_txs[c])
  BY DEF Members, Shape
<1>4. /\ call.tx \notin DOMAIN call.before
      /\ call.parent # call.tx => call.parent \in ToSet(call.res)
  BY DEF RestoreOK, FramesOK, RestoredOK, RemainingOK
<1>5. \A d \in Members \ {c} : /\ AbandonedOf(d)' = AbandonedOf(d)
                               /\ AbsentOf(d)' = AbsentOf(d)
                               /\ ChildrenOf(d)' = ChildrenOf(d)
  BY <1>3 DEF AbandonedOf, AbsentOf, ChildrenOf
<1>6. /\ ChildrenOf(c)' = ChildrenOf(c)
      /\ call.parent = call.tx => /\ AbandonedOf(c)' = AbandonedOf(c)
                                  /\ AbsentOf(c)' = AbsentOf(c) \ {call.tx}
      /\ call.parent # call.tx => /\ AbandonedOf(c)' = AbandonedOf(c) \ {call.parent}
                                  /\ AbsentOf(c)' = AbsentOf(c)
      /\ Found(abandoned_txs[c]) \in Entries
  BY <1>3 DEF AbandonedOf, AbsentOf, ChildrenOf, Found, Entries
<1>7. AbandonedOf(c)' \cup AbsentOf(c)' # {}
  BY <1>3 DEF MissesNothing, AbandonedOf, AbsentOf
<1>8. Shape'
  <2>1. abandoned_txs' \in [Members -> Entries]
    BY <1>3, <1>6 DEF Shape, Members
  <2> QED BY <1>3, <2>1 DEF Shape
<1>9. \A x \in Members : x # call.parent \/ call.parent = call.tx
  BY <1>1, <1>4 DEF CallOK
<1>10. Related'
  <2>1. \A x \in Members : /\ absent_parent_to_child_txids[x] = {}
                           /\ ChildrenOf(x)' \subseteq Spenders(x)
                           /\ AbandonedOf(x)' \cup AbsentOf(x)' \subseteq Vin[x]
    BY <1>5, <1>6 DEF Related, Spenders
  <2>2. \A x \in Members : \A d \in ChildrenOf(x)' \cap Members : x \in AbandonedOf(d)'
    BY <1>5, <1>6, <1>9 DEF Related
  <2>3. \A x \in Tx : /\ absent_parent_to_child_txids'[x] \subseteq Spenders(x)
                      /\ available_parent_to_child_txids'[x] \subseteq Spenders(x)
    BY DEF Related, Spenders
  <2> QED BY <1>3, <2>1, <2>2, <2>3 DEF Related, Spenders
<1>11. Misses'
  BY <1>3, <1>5, <1>6, <1>7 DEF Misses
<1>12. CallOK'
  BY <1>1, <1>2, <1>3 DEF CallOK
<1>13. ASSUME NEW d \in Members
       PROVE  /\ AbandonedOf(d)' \cup AbsentOf(d)' \subseteq call.before[d]
              /\ call.before[d] \subseteq AbandonedOf(d)' \cup AbsentOf(d)' \cup ToSet(call.res)
                                            \cup ({call.tx} \ DOMAIN call.before)
              /\ AbandonedOf(d)' \subseteq DOMAIN call.before
              /\ AbsentOf(d)' \cap DOMAIN call.before = {}
  <2>1. /\ AbandonedOf(d) \cup AbsentOf(d) \subseteq call.before[d]
        /\ call.before[d] \subseteq AbandonedOf(d) \cup AbsentOf(d) \cup ToSet(call.res)
                                      \cup ({call.tx} \ DOMAIN call.before)
        /\ AbandonedOf(d) \subseteq DOMAIN call.before
        /\ AbsentOf(d) \cap DOMAIN call.before = {}
    BY DEF RestoreOK, FramesOK, RestoredOK, RemainingOK
  <2> QED BY <1>4, <1>5, <1>6, <2>1
<1>14. ASSUME NEW d \in Members, NEW x \in AbsentOf(d)'
       PROVE  \/ d \in absent_parent_to_child_txids[x]
              \/ x = call.tx /\ call.parent = call.tx /\ d \in call.children \ {c}
  <2>1. x \in AbsentOf(d)
    BY <1>5, <1>6, <1>14
  <2>2. \/ d \in absent_parent_to_child_txids[x]
        \/ x = call.tx /\ call.parent = call.tx /\ d \in call.children
    BY <2>1 DEF RestoreOK, FramesOK, RestoredOK, RemainingOK
  <2> QED BY <1>6, <1>14, <2>2
<1>15. ASSUME NEW d \in Members, NEW x \in AbandonedOf(d)' \ Members
       PROVE  \/ x = call.parent /\ d \in call.children \ {c}
              \/ \E i \in DOMAIN call.stack :
                   call.stack[i].tx = x /\ d \in call.stack[i].child_txids
  <2>1. x \in AbandonedOf(d) \ Members
    BY <1>5, <1>6, <1>15
  <2>2. \/ x = call.parent /\ d \in call.children
        \/ \E i \in DOMAIN call.stack :
             call.stack[i].tx = x /\ d \in call.stack[i].child_txids
    BY <2>1 DEF RestoreOK, FramesOK, RestoredOK, RemainingOK
  <2>3. x \in DOMAIN call.before
    BY <2>1 DEF RestoreOK, FramesOK, RestoredOK, RemainingOK
  <2> QED BY <1>4, <1>6, <1>15, <2>2, <2>3
<1>16. /\ \A j \in DOMAIN call.res : \A x \in call.before[call.res[j]] :
            x \in {call.tx} \ DOMAIN call.before \/ \E i \in 1 .. (j - 1) : x = call.res[i]
       /\ ToSet(call.res) \subseteq PoolRestored(call.before, {call.tx})
       /\ {"parent", "children"} \subseteq DOMAIN call
       /\ call.children \subseteq Tx
       /\ call.stack \in Seq([tx : Tx, child_txids : SUBSET Tx])
       /\ \A i \in DOMAIN call.stack : call.stack[i].tx \in ToSet(call.res)
       /\ call.parent \in {call.tx} \cup ToSet(call.res)
       /\ absent_parent_to_child_txids[call.tx] = {}
  BY DEF RestoreOK, FramesOK, RestoredOK, RemainingOK
<1>17. RestoreOK'
  <2>1. FramesOK'
    <3>1. call'.tx \notin DOMAIN call'.before
      BY <1>2, <1>4
    <3>2. \A i \in DOMAIN call'.stack : call'.stack[i].tx \in ToSet(call'.res)
      BY <1>2, <1>16
    <3>3. /\ {"parent", "children"} \subseteq DOMAIN call'
          /\ call'.children \subseteq Tx
          /\ call'.parent \in {call'.tx} \cup ToSet(call'.res)
          /\ absent_parent_to_child_txids'[call'.tx] = {}
      BY <1>2, <1>16
    <3>4. call'.stack \in Seq([tx : Tx, child_txids : SUBSET Tx])
      BY <1>2, <1>16
    <3> QED BY <3>1, <3>2, <3>3, <3>4 DEF FramesOK
  <2>2. RestoredOK'
    <3>1. {call'.tx} = {call.tx} /\ call'.res = call.res /\ call'.before = call.before
      BY <1>2
    <3>2. ToSet(call'.res) \subseteq PoolRestored(call'.before, {call'.tx})
      BY <3>1, <1>16
    <3>3. \A j \in DOMAIN call'.res : \A x \in call'.before[call'.res[j]] :
            x \in {call'.tx} \ DOMAIN call'.before \/ \E i \in 1 .. (j - 1) : x = call'.res[i]
      BY <3>1, <1>16
    <3> QED BY <3>2, <3>3 DEF RestoredOK
  <2>3. RemainingOK'
    BY <1>2, <1>3, <1>13, <1>14, <1>15 DEF RemainingOK
  <2> QED BY <1>12, <2>1, <2>2, <2>3 DEF RestoreOK
<1> QED BY <1>2, <1>8, <1>10, <1>11, <1>17

\* A child is looked at that misses nothing any more, and is taken out.
LEMMA RestoreTake ==
  ASSUME Shape, Related, Misses, RestoreOK, NEW c \in call.children, c \in Members,
         MissesNothing(Found(abandoned_txs[c])),
         call' = [call EXCEPT
                    !.children = @ \ {c},
                    !.res = Append(@, c),
                    !.stack = Append(@, [tx |-> c, child_txids |-> abandoned_txs[c].child_txids])],
         abandoned_txs' = [x \in Members \ {c} |-> abandoned_txs[x]],
         UNCHANGED <<absent_parent_to_child_txids, available_parent_to_child_txids>>
  PROVE  /\ Shape' /\ Related' /\ Misses' /\ RestoreOK'
         /\ call'.op = call.op /\ call'.before = call.before
<1> DEFINE frame == [tx |-> c, child_txids |-> ChildrenOf(c)]
<1>1. /\ CallOK
      /\ {"op", "tx", "before", "res", "stack", "parent", "children"} \subseteq DOMAIN call
  BY DEF RestoreOK, CallOK, FramesOK
<1>2. /\ call'.op = call.op /\ call'.tx = call.tx /\ call'.before = call.before
      /\ call'.parent = call.parent
      /\ call'.children = call.children \ {c}
      /\ call'.res = Append(call.res, c)
      /\ call'.stack = Append(call.stack, frame)
      /\ DOMAIN call' = DOMAIN call
  BY <1>1 DEF ChildrenOf
<1>3. /\ Members' = Members \ {c}
      /\ \A d \in Members \ {c} : /\ AbandonedOf(d)' = AbandonedOf(d)
                                  /\ AbsentOf(d)' = AbsentOf(d)
                                  /\ ChildrenOf(d)' = ChildrenOf(d)
  BY DEF Members, AbandonedOf, AbsentOf, ChildrenOf
<1>4. /\ call.tx \notin DOMAIN call.before
      /\ call.parent \in {call.tx} \cup ToSet(call.res)
      /\ c \in Tx /\ c \in DOMAIN call.before /\ c \notin ToSet(call.res)
  BY DEF RestoreOK, FramesOK, CallOK
<1>5. frame \in [tx : Tx, child_txids : SUBSET Tx]
  BY <1>4 DEF Shape, Entries, ChildrenOf
<1>6. AbandonedOf(c) \cup AbsentOf(c) \subseteq {call.parent}
  BY DEF MissesNothing, Found, AbandonedOf, AbsentOf, Shape, Entries
<1>7. Shape' /\ Related' /\ Misses'
  <2>1. Shape'
    BY <1>3 DEF Shape, Members
  <2>2. Related'
    BY <1>3 DEF Related, Spenders
  <2>3. Misses'
    BY <1>3 DEF Misses
  <2> QED BY <2>1, <2>2, <2>3
<1>8. /\ call'.res \in Seq(Tx)
      /\ ToSet(call'.res) = ToSet(call.res) \cup {c}
      /\ \A i, j \in DOMAIN call'.res : i # j => call'.res[i] # call'.res[j]
  <2>1. /\ call.res \in Seq(Tx)
        /\ \A i, j \in DOMAIN call.res : i # j => call.res[i] # call.res[j]
    BY <1>1 DEF CallOK
  <2>2. PICK s \in Seq(Tx) : s = call.res
    BY <2>1
  <2>3. call'.res = Append(s, c)
    BY <1>2, <2>2
  <2>4. c \notin ToSet(s) /\ \A i, j \in DOMAIN s : i # j => s[i] # s[j]
    BY <1>4, <2>1, <2>2
  <2>5. /\ Append(s, c) \in Seq(Tx)
        /\ ToSet(Append(s, c)) = ToSet(s) \cup {c}
        /\ \A i, j \in DOMAIN Append(s, c) : i # j => Append(s, c)[i] # Append(s, c)[j]
    BY <1>4, <2>4, OneMore
  <2> QED BY <2>2, <2>3, <2>5
<1>9. CallOK'
  <2>1. DOMAIN call'.before = Members' \cup ToSet(call'.res) /\ Members' \cap ToSet(call'.res) = {}
    BY <1>1, <1>2, <1>3, <1>8 DEF CallOK
  <2>2. /\ {"op", "tx", "before", "res", "stack"} \subseteq DOMAIN call'
        /\ call'.tx \in Tx
        /\ \A d \in DOMAIN call'.before : call'.before[d] # {} /\ call'.before[d] \subseteq Vin[d]
    BY <1>1, <1>2 DEF CallOK
  <2> QED BY <1>8, <2>1, <2>2 DEF CallOK
<1>10. /\ DOMAIN call.stack = 1 .. Len(call.stack) /\ Len(call.stack) \in Nat
       /\ DOMAIN call'.stack = 1 .. (Len(call.stack) + 1)
       /\ \A i \in 1 .. Len(call.stack) : call'.stack[i] = call.stack[i]
       /\ call'.stack[Len(call.stack) + 1] = frame
       /\ call'.stack \in Seq([tx : Tx, child_txids : SUBSET Tx])
  <2>1. call.stack \in Seq([tx : Tx, child_txids : SUBSET Tx])
    BY DEF RestoreOK, FramesOK
  <2> HIDE DEF frame
  <2> QED BY <1>2, <1>5, <2>1
<1>11. FramesOK'
  <2>1. \A i \in DOMAIN call'.stack : call'.stack[i].tx \in ToSet(call'.res)
    <3>1. \A i \in DOMAIN call.stack : call.stack[i].tx \in ToSet(call.res)
      BY DEF RestoreOK, FramesOK
    <3> QED BY <1>8, <1>10, <3>1
  <2>2. /\ {"parent", "children"} \subseteq DOMAIN call'
        /\ call'.children \subseteq Tx
        /\ call'.parent \in {call'.tx} \cup ToSet(call'.res)
        /\ absent_parent_to_child_txids'[call'.tx] = {}
    BY <1>1, <1>2, <1>4, <1>8 DEF RestoreOK, FramesOK
  <2> QED BY <1>2, <1>4, <1>10, <2>1, <2>2 DEF FramesOK
<1>12. call.before[c] \subseteq ({call.tx} \ DOMAIN call.before) \cup ToSet(call.res)
  <2>1. call.before[c] \subseteq AbandonedOf(c) \cup AbsentOf(c) \cup ToSet(call.res)
                                   \cup ({call.tx} \ DOMAIN call.before)
    BY DEF RestoreOK, RemainingOK
  <2> QED BY <1>4, <1>6, <2>1
<1>13. RestoredOK'
  <2>1. DOMAIN call.res = 1 .. Len(call.res) /\ Len(call.res) \in Nat
        /\ DOMAIN call'.res = 1 .. (Len(call.res) + 1)
        /\ (\A i \in 1 .. Len(call.res) : call'.res[i] = call.res[i])
        /\ call'.res[Len(call.res) + 1] = c
    BY <1>1, <1>2 DEF CallOK
  <2>2. ASSUME NEW j \in DOMAIN call'.res, NEW x \in call.before[call'.res[j]]
        PROVE  x \in {call.tx} \ DOMAIN call.before \/ \E i \in 1 .. (j - 1) : x = call'.res[i]
    <3>1. CASE j \in DOMAIN call.res
      <4>1. x \in {call.tx} \ DOMAIN call.before \/ \E i \in 1 .. (j - 1) : x = call.res[i]
        BY <2>1, <2>2, <3>1 DEF RestoreOK, RestoredOK
      <4> QED BY <2>1, <3>1, <4>1
    <3>2. CASE j = Len(call.res) + 1
      <4>1. x \in ({call.tx} \ DOMAIN call.before) \cup ToSet(call.res)
        BY <1>12, <2>1, <2>2, <3>2
      <4>2. x \in ToSet(call.res) => \E i \in 1 .. Len(call.res) : x = call.res[i]
        BY <2>1 DEF ToSet
      <4> QED BY <2>1, <3>2, <4>1, <4>2
    <3> QED BY <2>1, <3>1, <3>2
  <2>3. ToSet(call.res) \cup {c} \subseteq PoolRestored(call.before, {call.tx})
    <3>1. ToSet(call.res) \subseteq PoolRestored(call.before, {call.tx})
      BY DEF RestoreOK, RestoredOK
    <3>2. PICK before, t, S : before = call.before /\ t = call.tx /\ S = ToSet(call.res)
      OBVIOUS
    <3>3. S \in SUBSET PoolRestored(before, {t})
      BY <3>1, <3>2
    <3>4. c \in DOMAIN before /\ before[c] \subseteq ({t} \ DOMAIN before) \cup S
      BY <1>4, <1>12, <3>2
    <3>5. c \in PoolRestored(before, {t})
      BY <3>3, <3>4, RestoredClosed
    <3> QED BY <3>1, <3>2, <3>5
  <2>4. {call'.tx} = {call.tx} /\ call'.before = call.before
    BY <1>2
  <2>5. ToSet(call'.res) \subseteq PoolRestored(call'.before, {call'.tx})
    BY <1>8, <2>3, <2>4
  <2>6. \A j \in DOMAIN call'.res : \A x \in call'.before[call'.res[j]] :
          x \in {call'.tx} \ DOMAIN call'.before \/ \E i \in 1 .. (j - 1) : x = call'.res[i]
    BY <2>2, <2>4
  <2> QED BY <2>5, <2>6 DEF RestoredOK
<1>14. ASSUME NEW d \in Members, d # c
       PROVE  /\ AbandonedOf(d) \cup AbsentOf(d) \subseteq call.before[d]
              /\ call.before[d] \subseteq AbandonedOf(d) \cup AbsentOf(d) \cup ToSet(call'.res)
                                            \cup ({call.tx} \ DOMAIN call.before)
              /\ AbandonedOf(d) \subseteq DOMAIN call.before
              /\ AbsentOf(d) \cap DOMAIN call.before = {}
  BY <1>8 DEF RestoreOK, RemainingOK
<1>15. ASSUME NEW d \in Members, d # c, NEW x \in AbsentOf(d)
       PROVE  \/ d \in absent_parent_to_child_txids[x]
              \/ x = call.tx /\ call.parent = call.tx /\ d \in call.children \ {c}
  BY <1>15 DEF RestoreOK, RemainingOK
<1>16. ASSUME NEW d \in Members, d # c, NEW x \in AbandonedOf(d) \ Members'
       PROVE  \/ x = call.parent /\ d \in call.children \ {c}
              \/ \E i \in DOMAIN call'.stack :
                   call'.stack[i].tx = x /\ d \in call'.stack[i].child_txids
  <2>1. CASE x = c
    <3>1. d \in ChildrenOf(c)
      BY <1>16, <2>1 DEF Misses
    <3>2. Len(call.stack) + 1 \in DOMAIN call'.stack
      BY <1>10
    <3>3. frame.tx = x /\ d \in frame.child_txids
      BY <2>1, <3>1
    <3> HIDE DEF frame
    <3> QED BY <1>10, <3>2, <3>3
  <2>2. CASE x # c
    <3>1. x \in AbandonedOf(d) \ Members
      BY <1>3, <1>16, <2>2
    <3>2. \/ x = call.parent /\ d \in call.children
          \/ \E i \in DOMAIN call.stack :
               call.stack[i].tx = x /\ d \in call.stack[i].child_txids
      BY <3>1 DEF RestoreOK, RemainingOK
    <3> QED BY <1>10, <1>16, <3>2
  <2> QED BY <2>1, <2>2
<1>17. RemainingOK'
  BY <1>2, <1>3, <1>14, <1>15, <1>16 DEF RemainingOK
<1> QED BY <1>2, <1>7, <1>9, <1>11, <1>13, <1>17 DEF RestoreOK

\* The loop goes on.
LEMMA RestoreChildIInv ==
  ASSUME IInv, RestoreChild
  PROVE  IInv' /\ UNCHANGED <<returned, IF call = NoCall THEN Missing ELSE call.before>>
<1>1. /\ call.op = "restore_descendants"
      /\ UNCHANGED <<absent_parent_to_child_txids, available_parent_to_child_txids, returned>>
  BY DEF RestoreChild
<1>2. RestoreOK /\ Shape /\ Related /\ Misses /\ NoCall.op = "none"
  <2>1. NoCall.op = "none"
    BY DEF NoCall
  <2> QED BY <1>1, <2>1 DEF IInv
<1>3. Shape' /\ Related' /\ Misses' /\ RestoreOK' /\ call'.op = call.op /\ call'.before = call.before
  <2>1. PICK c \in call.children :
          \/ /\ c \notin Members
             /\ call' = [call EXCEPT !.children = @ \ {c}]
             /\ UNCHANGED abandoned_txs
          \/ /\ c \in Members
             /\ ~MissesNothing(Found(abandoned_txs[c]))
             /\ call' = [call EXCEPT !.children = @ \ {c}]
             /\ abandoned_txs' = [abandoned_txs EXCEPT ![c] = Found(@)]
          \/ /\ c \in Members
             /\ MissesNothing(Found(abandoned_txs[c]))
             /\ call' = [call EXCEPT
                           !.children = @ \ {c},
                           !.res = Append(@, c),
                           !.stack = Append(@, [tx |-> c,
                                                child_txids |-> abandoned_txs[c].child_txids])]
             /\ abandoned_txs' = [x \in Members \ {c} |-> abandoned_txs[x]]
    BY DEF RestoreChild
  <2>2. CASE c \notin Members
    BY <1>1, <1>2, <2>1, <2>2, RestoreSkip DEF maps
  <2>3. CASE c \in Members /\ ~MissesNothing(Found(abandoned_txs[c]))
    BY <1>1, <1>2, <2>1, <2>3, RestoreKeep
  <2>4. CASE c \in Members /\ MissesNothing(Found(abandoned_txs[c]))
    BY <1>1, <1>2, <2>1, <2>4, RestoreTake
  <2> QED BY <2>2, <2>3, <2>4
<1> QED BY <1>1, <1>2, <1>3 DEF IInv

------------------------------------------------------------------------------
\* The specification.

\* A tx that is in the pool already is left as it is.
LEMMA InsertAgainStep ==
  ASSUME IInv, NEW t \in Tx, InsertAgain(t)
  PROVE  IInv' /\ Promise!Insert(t, {})
<1>1. /\ call = NoCall /\ call' = NoCall /\ t \in Members /\ UNCHANGED maps
      /\ returned' = <<"insert", t, << >>>>
      /\ Shape /\ Related /\ Misses /\ IdleOK
  BY DEF InsertAgain, Return, IInv, NoCall
<1>2. Shape' /\ Related' /\ Misses' /\ IdleOK' /\ Missing' = Missing
  BY <1>1
  DEF maps, Shape, Related, Misses, IdleOK, Members, Missing, AbandonedOf, AbsentOf, ChildrenOf
<1>3. Promise!Insert(t, {})
  BY <1>1, <1>2, MissingOf, PromiseOperators DEF Promise!Insert, PoolInserts
<1> QED BY <1>1, <1>2, <1>3 DEF IInv

\* Every step keeps the invariant and is a step or a stutter of the promise.
LEMMA NextStep ==
  ASSUME IInv, Next
  PROVE  /\ IInv'
         /\ \/ Promise!Next
            \/ UNCHANGED <<returned, IF call = NoCall THEN Missing ELSE call.before>>
<1>1. ASSUME NEW t \in Tx, InsertAgain(t) PROVE IInv' /\ Promise!Next
  <2>1. IInv' /\ Promise!Insert(t, {})
    BY <1>1, InsertAgainStep
  <2> QED BY <2>1 DEF Promise!Next
<1>2. ASSUME NEW t \in Tx, NEW absent \in SUBSET Vin[t], InsertNew(t, absent)
      PROVE  IInv' /\ Promise!Next
  <2>1. IInv' /\ Promise!Insert(t, absent)
    BY <1>2, InsertNewIInv, InsertNewPromise
  <2> QED BY <2>1 DEF Promise!Next
<1>3. ASSUME NEW t \in Tx, RemoveTx(t) PROVE IInv' /\ Promise!Next
  <2>1. IInv' /\ Promise!RemoveTx(t)
    BY <1>3, RemoveTxStep
  <2> QED BY <2>1 DEF Promise!Next
<1>4. CASE RemoveReturn
  BY <1>4, RemoveReturnStep DEF Promise!Next
<1>5. CASE RestoreReturn
  BY <1>5, RestoreReturnStep DEF Promise!Next
<1> QED BY <1>1, <1>2, <1>3, <1>4, <1>5, RemoveDescendantsIInv, RemoveNextIInv,
           RestoreDescendantsIInv, RestoreChildIInv, RestoreNextIInv DEF Next

\* Steps that change nothing.
LEMMA StutterStep ==
  ASSUME IInv, UNCHANGED vars
  PROVE  IInv' /\ UNCHANGED <<returned, IF call = NoCall THEN Missing ELSE call.before>>
<1>1. UNCHANGED <<abandoned_txs, absent_parent_to_child_txids, available_parent_to_child_txids,
                  call, returned>>
  BY DEF vars, maps
<1>2. /\ Shape' = Shape /\ Related' = Related /\ Misses' = Misses /\ IdleOK' = IdleOK
      /\ CallOK' = CallOK /\ Missing' = Missing
  BY <1>1
  DEF Shape, Related, Misses, IdleOK, CallOK, Members, Missing, AbandonedOf, AbsentOf, ChildrenOf
<1>3. RemoveOK' = RemoveOK
  BY <1>1, <1>2 DEF RemoveOK, Members, AbandonedOf, AbsentOf
<1>4. RestoreOK' = RestoreOK
  BY <1>1, <1>2 DEF RestoreOK, FramesOK, RestoredOK, RemainingOK, Members, AbandonedOf, AbsentOf
<1> QED BY <1>1, <1>2, <1>3, <1>4 DEF IInv

\* The inductive invariant holds always.
THEOREM InductiveInvariant == Spec => []IInv
<1>1. Init => IInv
  BY InitIInv
<1>2. IInv /\ [Next]_vars => IInv'
  BY NextStep, StutterStep
<1> QED BY <1>1, <1>2, PTL DEF Spec

\* Type correctness: the maps of abandoned_pool.rs are about txs; between calls
\* abandoned parents are members and absent ones are not.
THEOREM TypeCorrect == Spec => []TypeOK
<1>1. IInv => TypeOK
  BY DEF IInv, Shape, Misses, IdleOK, TypeOK, AbandonedOf, AbsentOf, NoCall
<1> QED BY <1>1, InductiveInvariant, PTL

\* Between two calls every abandoned tx misses something that leads to it, so
\* that it leaves the pool when what it misses comes back or is rejected.
THEOREM NobodyStrandedHolds == Spec => []NobodyStranded
<1>1. ASSUME IInv, call = NoCall PROVE NobodyStranded
  <2>1. Shape /\ Related /\ Misses /\ IdleOK
    BY <1>1 DEF IInv, NoCall
  <2>2. ASSUME NEW c \in Members, NEW x \in Missing[c]
        PROVE  c \in IF x \in Members THEN abandoned_txs[x].child_txids
                     ELSE absent_parent_to_child_txids[x]
    <3>1. CASE x \in AbandonedOf(c)
      BY <2>1, <3>1 DEF IdleOK, Misses, ChildrenOf
    <3>2. CASE x \in AbsentOf(c)
      BY <2>1, <3>2 DEF IdleOK, Misses
    <3> QED BY <2>2, <3>1, <3>2, MissingOf
  <2>3. \A c \in Members : Missing[c] # {}
    BY <2>1, MissingOf DEF Misses
  <2> QED BY <2>2, <2>3 DEF NobodyStranded
<1>2. IInv => NobodyStranded
  BY <1>1 DEF NobodyStranded
<1> QED BY <1>2, InductiveInvariant, PTL

\* The maps of abandoned_pool.rs implement the pool of AbandonedPoolSpec: what
\* its methods return and leave depends on what each member misses, and stale
\* entries never show.
THEOREM ImplementsHolds == Spec => Implements
<1>1. Init => Promise!Init
  <2>1. ASSUME Init PROVE Missing = EmptyPool
    BY <2>1 DEF Init, Missing, Members, EmptyPool
  <2> QED BY <2>1, PromiseOperators DEF Init, Promise!Init, NoCall
<1>2. IInv /\ [Next]_vars =>
        [Promise!Next]_<<IF call = NoCall THEN Missing ELSE call.before, returned>>
  BY NextStep, StutterStep
<1> QED BY <1>1, <1>2, InductiveInvariant, PTL DEF Spec, Implements, Promise!Spec
==============================================================================
