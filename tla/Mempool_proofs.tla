--------------------------- MODULE Mempool_proofs ----------------------------
(***************************************************************************)
(* Proofs about Mempool and, in the second half, about BlockTemplate, for  *)
(* every graph of txs, all fees, weights and conflicts.                    *)
(*                                                                         *)
(* Links, index and children of the mempool agree with each other, no call *)
(* fails and templates are in order, unless a tx was inserted under a      *)
(* child of its own.  The blocks made of such templates are valid, keep to *)
(* the usable weight and have sound depends, of producers that keep to     *)
(* their contract.  What is about Mempool uses nothing of BlockTemplate.   *)
(***************************************************************************)
EXTENDS BlockTemplate, TxGraph_proofs

\* What an info record of the mempool has.
Fields == {"depends", "spent_by", "conflicts_with", "ancestor_fee", "ancestor_weight"}

\* Types, as far as the other parts need them.
Typed(m) ==
  /\ InPool(m) \subseteq Tx
  /\ \A t \in InPool(m) : Fields \subseteq DOMAIN m.txs[t]
  /\ \A t \in InPool(m) : m.txs[t].conflicts_with \in SUBSET Tx

\* ChildsExact, LinksExact and IndexAgrees for one mempool.
Childs(m) == \A u \in Tx : m.tx_childs[u] = {t \in InPool(m) : u \in Vin[t]}

Linked(m) ==
  \A t \in InPool(m) : /\ m.txs[t].depends = Vin[t] \cap InPool(m)
                       /\ m.txs[t].spent_by = {c \in InPool(m) : t \in Vin[c]}

Indexed(m) == m.by_ancestor_fee_rate = {Entry(m.txs, t) : t \in InPool(m)}

------------------------------------------------------------------------------
\* Ancestors and descendants.

\* A set that holds what t and its own members depend on holds all ancestors.
LEMMA AncestorsMutLeast ==
  ASSUME NEW txs, NEW t, NEW set \in SUBSET Tx,
         \A y \in (set \cup {t}) \cap DOMAIN txs : txs[y].depends \subseteq set
  PROVE  AncestorsMut(txs, t) \subseteq set
<1>1. AncestorsMut(txs, t) =
        {a \in Tx : \A s \in SUBSET Tx :
           (\A b \in Tx : (\E y \in (s \cup {t}) \cap DOMAIN txs : b \in txs[y].depends)
                             => b \in s) => a \in s}
  BY DEF AncestorsMut, LeastClosed
<1>2. \A b \in Tx : (\E y \in (set \cup {t}) \cap DOMAIN txs : b \in txs[y].depends) => b \in set
  OBVIOUS
<1> QED BY <1>1, <1>2

\* What t depends on is among its ancestors.
LEMMA AncestorsMutDirect ==
  ASSUME NEW txs, NEW t \in DOMAIN txs, NEW a \in Tx, a \in txs[t].depends
  PROVE  a \in AncestorsMut(txs, t)
<1>1. AncestorsMut(txs, t) =
        {x \in Tx : \A s \in SUBSET Tx :
           (\A b \in Tx : (\E y \in (s \cup {t}) \cap DOMAIN txs : b \in txs[y].depends)
                             => b \in s) => x \in s}
  BY DEF AncestorsMut, LeastClosed
<1> QED BY <1>1

\* The same for descendants.
LEMMA DescendantsMutLeast ==
  ASSUME NEW txs, NEW t, NEW set \in SUBSET Tx,
         \A y \in (set \cup {t}) \cap DOMAIN txs : txs[y].spent_by \subseteq set
  PROVE  DescendantsMut(txs, t) \subseteq set
<1>1. DescendantsMut(txs, t) =
        {a \in Tx : \A s \in SUBSET Tx :
           (\A b \in Tx : (\E y \in (s \cup {t}) \cap DOMAIN txs : b \in txs[y].spent_by)
                             => b \in s) => a \in s}
  BY DEF DescendantsMut, LeastClosed
<1>2. \A b \in Tx : (\E y \in (set \cup {t}) \cap DOMAIN txs : b \in txs[y].spent_by) => b \in set
  OBVIOUS
<1> QED BY <1>1, <1>2

\* What spends t is among its descendants.
LEMMA DescendantsMutDirect ==
  ASSUME NEW txs, NEW t \in DOMAIN txs, NEW d \in Tx, d \in txs[t].spent_by
  PROVE  d \in DescendantsMut(txs, t)
<1>1. DescendantsMut(txs, t) =
        {x \in Tx : \A s \in SUBSET Tx :
           (\A b \in Tx : (\E y \in (s \cup {t}) \cap DOMAIN txs : b \in txs[y].spent_by)
                             => b \in s) => x \in s}
  BY DEF DescendantsMut, LeastClosed
<1> QED BY <1>1

\* With exact links they do not lead out of the mempool.
LEMMA RelativesInPool ==
  ASSUME NEW m, Typed(m), Linked(m), NEW t \in InPool(m)
  PROVE  /\ AncestorsMut(m.txs, t) \subseteq InPool(m)
         /\ DescendantsMut(m.txs, t) \subseteq InPool(m)
<1>1. \A y \in InPool(m) :
        m.txs[y].depends \subseteq InPool(m) /\ m.txs[y].spent_by \subseteq InPool(m)
  BY DEF Linked
<1>2. InPool(m) \in SUBSET Tx /\ (InPool(m) \cup {t}) \cap DOMAIN m.txs = InPool(m)
  BY DEF Typed, InPool
<1> QED BY <1>1, <1>2, AncestorsMutLeast, DescendantsMutLeast

------------------------------------------------------------------------------
\* remove

\* Removing t takes it out, and out of the children of what it spends.
LEMMA RemoveTyped ==
  ASSUME NEW m, Typed(m), Childs(m), NEW t
  PROVE  /\ InPool(MempoolRemove(m, t)) = InPool(m) \ {t}
         /\ Typed(MempoolRemove(m, t))
         /\ Childs(MempoolRemove(m, t))
<1>1. CASE t \notin InPool(m)
  BY <1>1 DEF MempoolRemove
<1>2. CASE t \in InPool(m)
  <2> DEFINE n == MempoolRemove(m, t)
  <2>1. n.txs = RemoveLinks(m.txs, t) /\ n.tx_childs = UnlinkChild(m.tx_childs, t)
    BY <1>2 DEF MempoolRemove
  <2>2. InPool(n) = InPool(m) \ {t}
    BY <2>1 DEF InPool, RemoveLinks, LinksWithout
  <2> HIDE DEF n
  <2>3. ASSUME NEW u \in InPool(n)
        PROVE  Fields \subseteq DOMAIN n.txs[u] /\ n.txs[u].conflicts_with \in SUBSET Tx
    <3>1. u \in DOMAIN m.txs \ {t}
      BY <2>2 DEF InPool
    <3>2. /\ RemoveLinks(m.txs, t)[u].conflicts_with = m.txs[u].conflicts_with
          /\ Fields \subseteq DOMAIN RemoveLinks(m.txs, t)[u]
      BY <3>1 DEF RemoveLinks, LinksWithout, Fields
    <3> QED BY <2>1, <3>1, <3>2 DEF Typed, InPool
  <2>4. Typed(n)
    BY <2>2, <2>3 DEF Typed
  <2>5. Childs(n)
    BY <2>1, <2>2 DEF Childs, UnlinkChild
  <2> QED BY <2>2, <2>4, <2>5 DEF n
<1> QED BY <1>1, <1>2

\* Exact links stay exact: t goes from both ends of each of its links.
LEMMA RemoveLinked ==
  ASSUME NEW m, Typed(m), Childs(m), Linked(m), NEW t
  PROVE  Linked(MempoolRemove(m, t))
<1>1. CASE t \notin InPool(m)
  BY <1>1 DEF MempoolRemove
<1>2. CASE t \in InPool(m)
  <2> DEFINE n == MempoolRemove(m, t)
             above == AncestorsMut(m.txs, t)
             below == DescendantsMut(m.txs, t)
  <2>1. n.txs = RemoveLinks(m.txs, t) /\ InPool(n) = InPool(m) \ {t}
    BY <1>2, RemoveTyped DEF MempoolRemove
  <2> HIDE DEF n
  <2> SUFFICES ASSUME NEW u \in InPool(n)
               PROVE  /\ n.txs[u].depends = Vin[u] \cap InPool(n)
                      /\ n.txs[u].spent_by = {c \in InPool(n) : u \in Vin[c]}
    BY DEF Linked, n
  <2>2. u \in InPool(m) \ {t} /\ u \in Tx /\ t \in Tx
    BY <1>2, <2>1 DEF Typed
  <2>3. /\ n.txs[u].depends = IF u \in below THEN m.txs[u].depends \ {t} ELSE m.txs[u].depends
        /\ n.txs[u].spent_by = IF u \in above THEN m.txs[u].spent_by \ {t} ELSE m.txs[u].spent_by
    <3>1. u \in DOMAIN m.txs \ {t}
      BY <2>2 DEF InPool
    <3>2. /\ RemoveLinks(m.txs, t)[u].depends =
                IF u \in below THEN m.txs[u].depends \ {t} ELSE m.txs[u].depends
          /\ RemoveLinks(m.txs, t)[u].spent_by =
                IF u \in above THEN m.txs[u].spent_by \ {t} ELSE m.txs[u].spent_by
      BY <3>1 DEF RemoveLinks, LinksWithout, Fields
    <3> QED BY <2>1, <3>2
  <2>4. u \notin below => t \notin m.txs[u].depends
    BY <1>2, <2>2, DescendantsMutDirect DEF Linked, InPool
  <2>5. u \notin above => t \notin m.txs[u].spent_by
    BY <1>2, <2>2, AncestorsMutDirect DEF Linked, InPool
  <2>6. m.txs[u].depends = Vin[u] \cap InPool(m) /\ m.txs[u].spent_by = {c \in InPool(m) : u \in Vin[c]}
    BY <2>2 DEF Linked
  <2> HIDE DEF above, below
  <2> QED BY <2>1, <2>3, <2>4, <2>5, <2>6
<1> QED BY <1>1, <1>2

\* The keys that remove takes out are those of t and its descendants.
LEMMA EntriesTaken ==
  ASSUME NEW m, Indexed(m), NEW ts \in SUBSET InPool(m)
  PROVE  EntriesOf(m, ts) = {Entry(m.txs, d) : d \in ts}
<1>1. \A u \in InPool(m) : Entry(m.txs, u).txid = u
  BY DEF Entry
<1>2. \A u \in InPool(m) : SameRate(Entry(m.txs, u).rate, Entry(m.txs, u).rate)
  BY DEF SameRate
<1> QED BY <1>1, <1>2 DEF EntriesOf, Indexed

\* The index stays exact: descendants are indexed anew, the others keep their
\* rates.
LEMMA RemoveIndexed ==
  ASSUME NEW m, Typed(m), Childs(m), Linked(m), Indexed(m), NEW t
  PROVE  Indexed(MempoolRemove(m, t))
<1>1. CASE t \notin InPool(m)
  BY <1>1 DEF MempoolRemove
<1>2. CASE t \in InPool(m)
  <2> DEFINE n == MempoolRemove(m, t)
             below == DescendantsMut(m.txs, t)
             ts == below \cup {t}
  <2>1. /\ n.txs = RemoveLinks(m.txs, t)
        /\ n.by_ancestor_fee_rate =
             (m.by_ancestor_fee_rate \ EntriesOf(m, ts))
               \cup {Entry(n.txs, d) : d \in below \cap DOMAIN n.txs}
    BY <1>2 DEF MempoolRemove
  <2>2. DOMAIN n.txs = InPool(m) \ {t} /\ InPool(n) = InPool(m) \ {t}
    BY RemoveTyped DEF InPool
  <2> HIDE DEF n
  <2>3. ts \in SUBSET InPool(m)
    BY <1>2, RelativesInPool
  <2>4. EntriesOf(m, ts) = {Entry(m.txs, d) : d \in ts}
    BY <2>3, EntriesTaken
  <2>5. \A u \in InPool(m) \ ts : Entry(n.txs, u) = Entry(m.txs, u)
    <3>1. TAKE u \in InPool(m) \ ts
    <3>2. u \in DOMAIN m.txs \ {t} /\ u \notin DescendantsMut(m.txs, t)
      BY DEF InPool
    <3>3. /\ RemoveLinks(m.txs, t)[u].ancestor_fee = m.txs[u].ancestor_fee
          /\ RemoveLinks(m.txs, t)[u].ancestor_weight = m.txs[u].ancestor_weight
      BY <3>2 DEF RemoveLinks, LinksWithout
    <3> QED BY <2>1, <3>3 DEF Entry, AncestorFeeRate
  <2>6. \A u, v \in InPool(m) : Entry(m.txs, u) = Entry(m.txs, v) => u = v
    <3>1. \A u \in InPool(m) : Entry(m.txs, u).txid = u
      BY DEF Entry
    <3> QED BY <3>1
  <2>7. m.by_ancestor_fee_rate \ EntriesOf(m, ts) = {Entry(m.txs, u) : u \in InPool(m) \ ts}
    BY <2>3, <2>4, <2>6 DEF Indexed
  <2> HIDE DEF below
  <2>8. n.by_ancestor_fee_rate =
          {Entry(n.txs, u) : u \in InPool(m) \ ts} \cup {Entry(n.txs, d) : d \in below \cap DOMAIN n.txs}
    BY <2>1, <2>5, <2>7
  <2>9. InPool(n) = (InPool(m) \ ts) \cup (below \cap DOMAIN n.txs)
    BY <2>2, <2>3
  <2> QED BY <2>8, <2>9 DEF Indexed, n
<1> QED BY <1>1, <1>2

\* No call of remove fails on such a mempool.
LEMMA RemoveSucceeds ==
  ASSUME NEW m, Typed(m), Linked(m), Indexed(m), NEW t
  PROVE  RemoveError(m, t) = "none"
<1>1. CASE t \notin InPool(m)
  BY <1>1 DEF RemoveError
<1>2. CASE t \in InPool(m)
  <2>1. /\ AncestorsMut(m.txs, t) \subseteq InPool(m)
        /\ DescendantsMut(m.txs, t) \subseteq InPool(m)
    BY <1>2, RelativesInPool
  <2>2. \A d \in InPool(m) : HasKey(m, d)
    BY DEF HasKey, Indexed, SameRate
  <2> QED BY <1>2, <2>1, <2>2 DEF RemoveError
<1> QED BY <1>1, <1>2

------------------------------------------------------------------------------
\* insert

\* The new tx joins, and the children of what it spends.
LEMMA InsertTyped ==
  ASSUME NEW m, Typed(m), Childs(m), NEW t \in Tx
  PROVE  /\ InPool(MempoolInsert(m, t)) = InPool(m) \cup {t}
         /\ Typed(MempoolInsert(m, t))
         /\ Childs(MempoolInsert(m, t))
<1>1. CASE t \in InPool(m)
  BY <1>1 DEF MempoolInsert
<1>2. CASE t \notin InPool(m)
  <2> DEFINE n == MempoolInsert(m, t)
             linked == InsertLinked(m, t)
  <2>1. n.txs = InsertTotals(linked, t) /\ n.tx_childs = LinkChild(m.tx_childs, t)
    BY <1>2 DEF MempoolInsert
  <2>2. DOMAIN linked = InPool(m) \cup {t}
    BY DEF InsertLinked
  <2>3. \A u \in DOMAIN linked : linked[u].conflicts_with \in SUBSET Tx
    <3>1. TAKE u \in DOMAIN linked
    <3>2. CASE u = t
      <4>1. linked[t].conflicts_with =
              ConflictsWith[t] \cup UNION {m.txs[d].conflicts_with : d \in Vin[t] \cap InPool(m)}
        BY <2>2 DEF InsertLinked
      <4> QED BY <3>2, <4>1, ConflictsWithAssumption DEF Typed
    <3>3. CASE u # t
      <4>1. u \in InPool(m) /\ "conflicts_with" \in DOMAIN m.txs[u]
        BY <2>2, <3>3 DEF Typed, Fields
      <4>2. linked[u].conflicts_with = m.txs[u].conflicts_with
        BY <3>3, <4>1 DEF InsertLinked
      <4> QED BY <4>1, <4>2 DEF Typed
    <3> QED BY <3>2, <3>3
  <2> HIDE DEF n, linked
  <2>4. InPool(n) = InPool(m) \cup {t}
    BY <2>1, <2>2 DEF InPool, InsertTotals
  <2>5. ASSUME NEW u \in InPool(n)
        PROVE  Fields \subseteq DOMAIN n.txs[u] /\ n.txs[u].conflicts_with \in SUBSET Tx
    <3>1. u \in DOMAIN linked
      BY <2>2, <2>4
    <3>2. /\ Fields \subseteq DOMAIN n.txs[u]
          /\ n.txs[u].conflicts_with \subseteq
               linked[u].conflicts_with \cup ConflictsWith[t] \cup {t}
      BY <2>1, <3>1 DEF InsertTotals, Fields
    <3> QED BY <2>3, <3>1, <3>2, ConflictsWithAssumption
  <2>6. Typed(n)
    BY <2>4, <2>5 DEF Typed
  <2>7. Childs(n)
    BY <2>1, <2>4 DEF Childs, LinkChild
  <2> QED BY <2>4, <2>6, <2>7 DEF n
<1> QED BY <1>1, <1>2

\* A tx that does not come under a child of its own changes nothing about the
\* others but that its parents are spent by it.
LEMMA InsertAbove ==
  ASSUME NEW m, Typed(m), Childs(m), NEW t \in Tx \ InPool(m),
         t \notin Vin[t], m.tx_childs[t] = {}, NEW u \in InPool(m)
  PROVE  /\ MempoolInsert(m, t).txs[u].depends = m.txs[u].depends
         /\ MempoolInsert(m, t).txs[u].spent_by =
              m.txs[u].spent_by \cup (IF u \in Vin[t] THEN {t} ELSE {})
         /\ MempoolInsert(m, t).txs[u].ancestor_fee = m.txs[u].ancestor_fee
         /\ MempoolInsert(m, t).txs[u].ancestor_weight = m.txs[u].ancestor_weight
         /\ MempoolInsert(m, t).txs[t].depends = Vin[t] \cap InPool(m)
         /\ MempoolInsert(m, t).txs[t].spent_by = {}
<1> DEFINE linked == InsertLinked(m, t)
<1>1. MempoolInsert(m, t).txs = InsertTotals(linked, t)
  BY DEF MempoolInsert
<1>2. DOMAIN linked = InPool(m) \cup {t}
  BY DEF InsertLinked
<1>3. linked[t].depends = Vin[t] \cap InPool(m) /\ linked[t].spent_by = {}
  BY DEF InsertLinked, LinkChild
<1>4. Fields \subseteq DOMAIN m.txs[u] /\ u # t
  BY DEF Typed
<1>5. /\ linked[u].depends = m.txs[u].depends
      /\ linked[u].spent_by = m.txs[u].spent_by \cup (IF u \in Vin[t] THEN {t} ELSE {})
      /\ linked[u].ancestor_fee = m.txs[u].ancestor_fee
      /\ linked[u].ancestor_weight = m.txs[u].ancestor_weight
  <2>1. CASE u \in Vin[t]
    BY <1>4, <2>1 DEF InsertLinked, Fields
  <2>2. CASE u \notin Vin[t]
    BY <1>4, <2>2 DEF InsertLinked, Fields
  <2> QED BY <2>1, <2>2
<1> HIDE DEF linked
<1>6. DescendantsMut(linked, t) = {}
  BY <1>2, <1>3, DescendantsMutLeast
<1> QED BY <1>1, <1>2, <1>3, <1>4, <1>5, <1>6 DEF InsertTotals

\* So links and index stay exact.
LEMMA InsertLinkedIndexed ==
  ASSUME NEW m, Typed(m), Childs(m), Linked(m), Indexed(m), NEW t \in Tx,
         t \notin InPool(m) => t \notin Vin[t] /\ m.tx_childs[t] = {}
  PROVE  Linked(MempoolInsert(m, t)) /\ Indexed(MempoolInsert(m, t))
<1>1. CASE t \in InPool(m)
  BY <1>1 DEF MempoolInsert
<1>2. CASE t \notin InPool(m)
  <2> DEFINE n == MempoolInsert(m, t)
  <2>1. InPool(n) = InPool(m) \cup {t}
    BY InsertTyped
  <2>2. \A u \in InPool(m) : t \notin Vin[u]
    BY <1>2 DEF Childs
  <2>3. n.by_ancestor_fee_rate = m.by_ancestor_fee_rate \cup {Entry(n.txs, t)}
    BY <1>2 DEF MempoolInsert
  <2>4. n.txs[t].depends = Vin[t] \cap InPool(m) /\ n.txs[t].spent_by = {}
    BY <1>2 DEF MempoolInsert, InsertTotals, InsertLinked, LinkChild
  <2>5. \A u \in InPool(m) :
          /\ n.txs[u].depends = m.txs[u].depends
          /\ n.txs[u].spent_by = m.txs[u].spent_by \cup (IF u \in Vin[t] THEN {t} ELSE {})
          /\ n.txs[u].ancestor_fee = m.txs[u].ancestor_fee
          /\ n.txs[u].ancestor_weight = m.txs[u].ancestor_weight
    BY <1>2, InsertAbove
  <2> HIDE DEF n
  <2>6. Linked(n)
    <3> SUFFICES ASSUME NEW u \in InPool(n)
                 PROVE  /\ n.txs[u].depends = Vin[u] \cap InPool(n)
                        /\ n.txs[u].spent_by = {c \in InPool(n) : u \in Vin[c]}
      BY DEF Linked
    <3>1. CASE u = t
      BY <1>2, <2>1, <2>2, <2>4, <3>1
    <3>2. CASE u # t
      <4>1. u \in InPool(m)
        BY <2>1, <3>2
      <4>2. /\ m.txs[u].depends = Vin[u] \cap InPool(m)
            /\ m.txs[u].spent_by = {c \in InPool(m) : u \in Vin[c]}
        BY <4>1 DEF Linked
      <4> QED BY <2>1, <2>2, <2>5, <4>1, <4>2
    <3> QED BY <3>1, <3>2
  <2>7. Indexed(n)
    <3>1. \A u \in InPool(m) : Entry(n.txs, u) = Entry(m.txs, u)
      BY <2>5 DEF Entry, AncestorFeeRate
    <3> QED BY <2>1, <2>3, <3>1 DEF Indexed
  <2> QED BY <2>6, <2>7 DEF n
<1> QED BY <1>1, <1>2

------------------------------------------------------------------------------
\* The invariant.

Calls == [with_descendants : BOOLEAN, tx : Tx]

\* Types and children, whatever was inserted in which order.
PoolsOK ==
  /\ Typed(pool) /\ Childs(pool)
  /\ Typed(clone) /\ Childs(clone)

\* The calls and the package of a proposal.
ProposalOK ==
  /\ calls \in Seq(Calls)
  /\ to_add # {} => proposing /\ calls = << >> /\ remove_stack = {}
  /\ to_add \subseteq InPool(clone)
  /\ template \in Seq(Tx)
  /\ ~proposing => template = << >>

\* propose_txs removes txs from the clone with their descendants only, but for
\* those that it puts into the template.
ControlOK ==
  /\ ProposalOK
  /\ proposing => \A i \in DOMAIN calls : calls[i].with_descendants

\* Links and index are exact, so that no call fails.
ExactOK ==
  ~under_child =>
    /\ Linked(pool) /\ Indexed(pool)
    /\ Linked(clone) /\ Indexed(clone)
    /\ error = "none"

\* What a tx of the clone spends is still there, or in the template already,
\* or the tx is about to be removed as well.
TemplateOK ==
  /\ \A i \in DOMAIN template : Vin[template[i]] \cap InPool(pool) \subseteq Before(i)
  /\ proposing =>
       \A t \in InPool(clone) \ remove_stack :
         Vin[t] \cap InPool(pool) \subseteq InPool(clone) \cup ToSet(template)

IInv ==
  /\ PoolsOK /\ ControlOK /\ ExactOK
  /\ ~under_child => TemplateOK

\* The invariant gives the properties.
LEMMA InvariantImplies ==
  ASSUME IInv
  PROVE  ChildsExact /\ LinksExact /\ IndexAgrees /\ CallsSucceed /\ TemplateOrdered
<1>1. ChildsExact
  BY DEF IInv, PoolsOK, ChildsExact, Childs
<1>2. LinksExact
  BY DEF IInv, ExactOK, LinksExact, Linked
<1>3. IndexAgrees
  BY DEF IInv, ExactOK, IndexAgrees, Indexed
<1>4. CallsSucceed /\ TemplateOrdered
  BY DEF IInv, ExactOK, TemplateOK, CallsSucceed, TemplateOrdered
<1> QED BY <1>1, <1>2, <1>3, <1>4

\* An empty mempool has all parts.
LEMMA EmptyOK ==
  /\ InPool(EmptyMempool) = {}
  /\ Typed(EmptyMempool) /\ Childs(EmptyMempool)
  /\ Linked(EmptyMempool) /\ Indexed(EmptyMempool)
<1>1. InPool(EmptyMempool) = {}
  BY DEF EmptyMempool, InPool
<1> QED BY <1>1 DEF EmptyMempool, Typed, Childs, Linked, Indexed

\* Initially nothing is there.
LEMMA InitInvariant == Init => IInv
<1> SUFFICES ASSUME Init PROVE IInv
  OBVIOUS
<1>1. PoolsOK /\ ExactOK
  BY EmptyOK DEF Init, PoolsOK, ExactOK
<1>2. ControlOK
  BY EmptyOK DEF Init, ControlOK, ProposalOK
<1>3. TemplateOK
  BY EmptyOK DEF Init, TemplateOK
<1> QED BY <1>1, <1>2, <1>3 DEF IInv

\* Calls for a set of txs, in any order.
LEMMA OrderedCalls ==
  ASSUME NEW S \in SUBSET Tx, NEW o \in SetToSeqs(S)
  PROVE  /\ RemoveCalls(o) \in Seq(Calls)
         /\ [i \in DOMAIN o |-> RemoveWithDescendantsCall(o[i])] \in Seq(Calls)
<1>1. IsFiniteSet(S)
  BY TxAssumption, FS_Subset
<1>2. Cardinality(S) \in Nat
  BY <1>1, FS_CardinalityType
<1>3. PICK n \in Nat : o \in [1 .. n -> S]
  BY <1>2 DEF SetToSeqs
<1>4. \A t \in S : RemoveCall(t) \in Calls /\ RemoveWithDescendantsCall(t) \in Calls
  BY DEF Calls, RemoveCall, RemoveWithDescendantsCall
<1> QED BY <1>3, <1>4 DEF RemoveCalls

\* remove_with_descendants is called with descendants.
LEMMA DescendantsCalls ==
  ASSUME NEW S \in SUBSET Tx, NEW drops \in RemoveWithDescendantsCalls(S)
  PROVE  drops \in Seq(Calls) /\ \A i \in DOMAIN drops : drops[i].with_descendants
<1>1. PICK o \in SetToSeqs(S) : drops = [i \in DOMAIN o |-> RemoveWithDescendantsCall(o[i])]
  BY DEF RemoveWithDescendantsCalls
<1>2. drops \in Seq(Calls)
  BY <1>1, OrderedCalls
<1>3. \A i \in DOMAIN drops : drops[i].with_descendants
  BY <1>1 DEF RemoveWithDescendantsCall
<1> QED BY <1>2, <1>3

\* One removal keeps what the pools promise and does not fail.
LEMMA RunRemoveStep ==
  ASSUME PoolsOK, ExactOK, NEW t, RunRemove(t)
  PROVE  /\ PoolsOK' /\ ExactOK'
         /\ proposing => InPool(clone)' = InPool(clone) \ {t} /\ pool' = pool
         /\ ~proposing => clone' = clone
         /\ UNCHANGED <<under_child, proposing>>
<1>1. UNCHANGED <<under_child, proposing>>
  BY DEF RunRemove
<1>2. CASE proposing
  <2>1. clone' = MempoolRemove(clone, t) /\ pool' = pool /\ error' = RemoveError(clone, t)
    BY <1>2 DEF RunRemove, Subject
  <2>2. /\ InPool(MempoolRemove(clone, t)) = InPool(clone) \ {t}
        /\ Typed(MempoolRemove(clone, t)) /\ Childs(MempoolRemove(clone, t))
    BY RemoveTyped DEF PoolsOK
  <2>3. ~under_child => /\ Linked(MempoolRemove(clone, t)) /\ Indexed(MempoolRemove(clone, t))
                        /\ RemoveError(clone, t) = "none"
    BY RemoveLinked, RemoveIndexed, RemoveSucceeds DEF PoolsOK, ExactOK
  <2>4. PoolsOK' /\ InPool(clone)' = InPool(clone) \ {t}
    BY <2>1, <2>2 DEF PoolsOK
  <2>5. ExactOK'
    BY <1>1, <2>1, <2>3 DEF ExactOK
  <2> QED BY <1>1, <1>2, <2>1, <2>4, <2>5
<1>3. CASE ~proposing
  <2>1. pool' = MempoolRemove(pool, t) /\ clone' = clone /\ error' = RemoveError(pool, t)
    BY <1>3 DEF RunRemove, Subject
  <2>2. Typed(MempoolRemove(pool, t)) /\ Childs(MempoolRemove(pool, t))
    BY RemoveTyped DEF PoolsOK
  <2>3. ~under_child => /\ Linked(MempoolRemove(pool, t)) /\ Indexed(MempoolRemove(pool, t))
                        /\ RemoveError(pool, t) = "none"
    BY RemoveLinked, RemoveIndexed, RemoveSucceeds DEF PoolsOK, ExactOK
  <2>4. PoolsOK'
    BY <2>1, <2>2 DEF PoolsOK
  <2>5. ExactOK'
    BY <1>1, <2>1, <2>3 DEF ExactOK
  <2> QED BY <1>1, <1>3, <2>1, <2>4, <2>5
<1> QED BY <1>2, <1>3

------------------------------------------------------------------------------
\* Each action keeps the invariant.

\* Steps outside a proposal that only prepare calls.
LEMMA PrepareStep ==
  ASSUME IInv, ~proposing, calls' \in Seq(Calls),
         UNCHANGED <<pool, under_child, remove_stack, error, proposalVars>>
  PROVE  IInv'
<1> USE DEF IInv, proposalVars
<1>1. PoolsOK' /\ ExactOK'
  BY DEF PoolsOK, ExactOK
<1>2. ControlOK'
  BY DEF ControlOK, ProposalOK
<1>3. ~under_child' => TemplateOK'
  BY DEF TemplateOK, Before
<1> QED BY <1>1, <1>2, <1>3

\* A tx is added on top of what it spends.
LEMMA AddTxStep ==
  ASSUME IInv, NEW t \in Tx, AddTx(t)
  PROVE  IInv'
<1> USE DEF AddTx, proposalVars
<1>1. ~proposing /\ to_add = {} /\ template = << >>
  BY DEF Announced, Unlocked, IInv, ControlOK, ProposalOK
<1>2. t \notin InPool(pool) => t \notin Vin[t]
  BY DEF Announced
<1>3. PoolsOK'
  BY InsertTyped DEF IInv, PoolsOK
<1>4. ~under_child' => ~under_child /\ (t \in InPool(pool) \/ pool.tx_childs[t] = {})
  OBVIOUS
<1>5. ExactOK'
  BY <1>2, <1>4, InsertLinkedIndexed DEF IInv, PoolsOK, ExactOK
<1>6. ControlOK'
  BY DEF IInv, ControlOK, ProposalOK
<1>7. TemplateOK'
  BY <1>1 DEF TemplateOK
<1> QED BY <1>3, <1>5, <1>6, <1>7 DEF IInv

\* The children that remove_with_descendants goes on with are all there are.
LEMMA RemainingChildsAll ==
  ASSUME PoolsOK, NEW t \in Tx
  PROVE  \A u \in InPool(Subject) \ {t} : t \in Vin[u] => u \in RemainingChilds(t)
<1>1. Subject.tx_childs[t] = {c \in InPool(Subject) : t \in Vin[c]}
  BY DEF PoolsOK, Childs, Subject
<1> QED BY <1>1 DEF RemainingChilds, UnlinkChild

\* When a tx is removed from the clone its children go on the stack.
LEMMA CloneKeepsParents ==
  ASSUME PoolsOK, ExactOK, TemplateOK, NEW t \in Tx, RunRemove(t),
         remove_stack' = (remove_stack \ {t}) \cup RemainingChilds(t),
         UNCHANGED template, ~proposing => template = << >>
  PROVE  TemplateOK'
<1>1. CASE proposing
  <2>1. InPool(clone)' = InPool(clone) \ {t} /\ pool' = pool /\ proposing' = proposing
    BY <1>1, RunRemoveStep
  <2>2. \A i \in DOMAIN template' : Vin[template'[i]] \cap InPool(pool)' \subseteq Before(i)'
    BY <2>1 DEF TemplateOK, Before
  <2>3. ASSUME NEW u \in InPool(clone)' \ remove_stack'
        PROVE  Vin[u] \cap InPool(pool)' \subseteq InPool(clone)' \cup ToSet(template')
    <3>1. u \in InPool(clone) \ remove_stack /\ u # t /\ u \notin RemainingChilds(t)
      BY <2>1
    <3>2. t \notin Vin[u]
      BY <1>1, <3>1, RemainingChildsAll DEF Subject
    <3>3. Vin[u] \cap InPool(pool) \subseteq InPool(clone) \cup ToSet(template)
      BY <1>1, <3>1 DEF TemplateOK
    <3> QED BY <2>1, <3>2, <3>3
  <2> QED BY <2>1, <2>2, <2>3 DEF TemplateOK
<1>2. CASE ~proposing
  <2>1. ~proposing' /\ template' = << >>
    BY <1>2, RunRemoveStep
  <2> QED BY <2>1 DEF TemplateOK
<1> QED BY <1>1, <1>2

\* The next call begins.
LEMMA RunCallStep ==
  ASSUME IInv, RunCall
  PROVE  IInv'
<1> DEFINE call == Head(calls)
<1>1. /\ calls # << >> /\ remove_stack = {} /\ RunRemove(call.tx)
      /\ calls' = Tail(calls) /\ to_add' = to_add /\ template' = template
  BY DEF RunCall
<1>2. calls \in Seq(Calls) /\ PoolsOK /\ ExactOK /\ ControlOK
  BY DEF IInv, ControlOK, ProposalOK
<1>3. call \in Calls /\ calls' \in Seq(Calls)
  BY <1>1, <1>2, HeadTailProperties
<1>4. call.tx \in Tx
  BY <1>3 DEF Calls
<1>5. /\ PoolsOK' /\ ExactOK' /\ UNCHANGED <<under_child, proposing>>
  BY <1>1, <1>2, RunRemoveStep
<1>6. proposing => /\ call.with_descendants
                   /\ \A i \in DOMAIN calls' : calls'[i].with_descendants
  BY <1>1, <1>2 DEF ControlOK, ProposalOK
<1>7. to_add' = {}
  BY <1>1, <1>2 DEF ControlOK, ProposalOK
<1>8. ControlOK'
  BY <1>1, <1>2, <1>3, <1>5, <1>6, <1>7 DEF ControlOK, ProposalOK
<1>9. ~under_child' => TemplateOK'
  <2>1. CASE proposing
    <3>1. remove_stack' = (remove_stack \ {call.tx}) \cup RemainingChilds(call.tx)
      BY <1>1, <1>6, <2>1 DEF RunCall
    <3> QED BY <1>1, <1>2, <1>4, <1>5, <2>1, <3>1, CloneKeepsParents DEF IInv
  <2>2. CASE ~proposing
    <3>1. ~proposing' /\ template' = << >>
      BY <1>1, <1>2, <1>5, <2>2 DEF ControlOK, ProposalOK
    <3> QED BY <3>1 DEF TemplateOK
  <2> QED BY <2>1, <2>2
<1> QED BY <1>5, <1>8, <1>9 DEF IInv

\* It goes on with the children.
LEMMA PopRemoveStackStep ==
  ASSUME IInv, NEW t \in Tx, PopRemoveStack(t)
  PROVE  IInv'
<1>1. /\ remove_stack # {} /\ RunRemove(t)
      /\ remove_stack' = (remove_stack \ {t}) \cup RemainingChilds(t)
      /\ calls' = calls /\ to_add' = to_add /\ template' = template
  BY DEF PopRemoveStack
<1>2. PoolsOK /\ ExactOK /\ ControlOK /\ (~under_child => TemplateOK)
  BY DEF IInv
<1>3. /\ PoolsOK' /\ ExactOK' /\ UNCHANGED <<under_child, proposing>>
  BY <1>1, <1>2, RunRemoveStep
<1>4. to_add' = {}
  BY <1>1, <1>2 DEF ControlOK, ProposalOK
<1>5. ControlOK'
  BY <1>1, <1>2, <1>3, <1>4 DEF ControlOK, ProposalOK
<1>6. ~under_child' => TemplateOK'
  BY <1>1, <1>2, <1>3, CloneKeepsParents DEF ControlOK, ProposalOK
<1> QED BY <1>3, <1>5, <1>6 DEF IInv

\* A proposal begins with all of the mempool.
LEMMA StartProposalStep ==
  ASSUME IInv, NEW limit, StartProposal(limit)
  PROVE  IInv'
<1> USE DEF IInv, StartProposal, poolVars
<1>1. PoolsOK' /\ ExactOK'
  BY DEF PoolsOK, ExactOK
<1>2. calls = << >> /\ to_add = {} /\ template = << >>
  BY DEF Unlocked, ControlOK, ProposalOK
<1>3. ControlOK'
  BY <1>2 DEF ControlOK, ProposalOK
<1>4. TemplateOK'
  BY <1>2 DEF TemplateOK
<1> QED BY <1>1, <1>3, <1>4

\* The package chosen is in the clone.
LEMMA ChoosePackageStep ==
  ASSUME IInv, ChoosePackage
  PROVE  IInv'
<1> USE DEF IInv, ChoosePackage, poolVars
<1>1. PoolsOK' /\ ExactOK'
  BY DEF PoolsOK, ExactOK
<1>2. to_add' \subseteq InPool(clone)
  OBVIOUS
<1>3. ControlOK'
  BY <1>2 DEF ControlOK, ProposalOK, Proposes
<1>4. ~under_child' => TemplateOK'
  BY DEF TemplateOK, Before
<1> QED BY <1>1, <1>3, <1>4

\* The calls that follow a package remove its conflicts with their descendants.
LEMMA PackageCalls ==
  ASSUME PoolsOK, ProposalOK, NEW t \in Tx, AddFromPackage(t)
  PROVE  /\ calls' \in Seq(Calls) /\ \A i \in DOMAIN calls' : calls'[i].with_descendants
         /\ to_add' # {} => calls' = << >>
<1>1. calls = << >> /\ t \in to_add
  BY DEF AddFromPackage, Proposes
<1>2. clone.txs[t].conflicts_with \in SUBSET Tx
  BY <1>1 DEF ProposalOK, PoolsOK, Typed
<1>3. CASE to_add' = {}
  <2>1. calls' \in RemoveWithDescendantsCalls(clone.txs[t].conflicts_with)
    BY <1>3 DEF AddFromPackage
  <2> QED BY <1>2, <1>3, <2>1, DescendantsCalls
<1>4. CASE to_add' # {}
  <2>1. calls' = << >>
    BY <1>1, <1>4 DEF AddFromPackage
  <2> QED BY <2>1
<1> QED BY <1>3, <1>4

\* A tx that comes to the end of the template is after all that are there.
LEMMA TemplateGrows ==
  ASSUME template \in Seq(Tx), NEW t \in Tx, template' = Append(template, t)
  PROVE  /\ template' \in Seq(Tx) /\ ToSet(template)' = ToSet(template) \cup {t}
         /\ Len(template) \in Nat /\ DOMAIN template = 1 .. Len(template)
         /\ DOMAIN template' = DOMAIN template \cup {Len(template) + 1}
         /\ template'[Len(template) + 1] = t
         /\ \A i \in DOMAIN template : template'[i] = template[i] /\ Before(i)' = Before(i)
         /\ \A i : i = Len(template) + 1 => Before(i)' = ToSet(template)
<1>1. /\ template' \in Seq(Tx) /\ Len(template') = Len(template) + 1 /\ Len(template) \in Nat
      /\ template'[Len(template) + 1] = t
      /\ \A j \in 1 .. Len(template) : template'[j] = template[j]
      /\ DOMAIN template = 1 .. Len(template) /\ DOMAIN template' = 1 .. Len(template')
  OBVIOUS
<1>2. ToSet(template') = ToSet(template) \cup {t}
  BY <1>1 DEF ToSet
<1>3. \A i : i = Len(template) + 1 => Before(i)' = ToSet(template)
  <2>1. TAKE i
  <2>2. HAVE i = Len(template) + 1
  <2>3. i - 1 = Len(template)
    BY <1>1, <2>2
  <2> QED BY <1>1, <2>3 DEF Before, ToSet
<1>4. \A i \in DOMAIN template : template'[i] = template[i] /\ Before(i)' = Before(i)
  <2>1. TAKE i \in DOMAIN template
  <2>2. \A j \in 1 .. (i - 1) : template'[j] = template[j]
    BY <1>1
  <2> QED BY <1>1, <2>2 DEF Before
<1>5. DOMAIN template' = DOMAIN template \cup {Len(template) + 1}
  BY <1>1
<1> QED BY <1>1, <1>2, <1>3, <1>4, <1>5

\* A tx moves from the clone to the template, after all that it spends.
LEMMA AddFromPackageStep ==
  ASSUME IInv, NEW t \in Tx, AddFromPackage(t)
  PROVE  IInv'
<1>1. /\ proposing /\ calls = << >> /\ remove_stack = {} /\ t \in to_add
      /\ clone.txs[t].depends = {} /\ RunRemove(t)
      /\ template' = Append(template, t) /\ to_add' = to_add \ {t}
      /\ remove_stack' = remove_stack
  BY DEF AddFromPackage, Proposes
<1>2. PoolsOK /\ ExactOK /\ ProposalOK /\ (~under_child => TemplateOK)
  BY DEF IInv, ControlOK
<1>3. /\ PoolsOK' /\ ExactOK' /\ UNCHANGED <<under_child, proposing>>
      /\ InPool(clone)' = InPool(clone) \ {t} /\ pool' = pool
  BY <1>1, <1>2, RunRemoveStep
<1>4. t \in InPool(clone)
  BY <1>1, <1>2 DEF ProposalOK
<1>5. /\ calls' \in Seq(Calls) /\ \A i \in DOMAIN calls' : calls'[i].with_descendants
      /\ to_add' # {} => calls' = << >>
  BY <1>2, PackageCalls
<1>6. /\ template' \in Seq(Tx) /\ ToSet(template)' = ToSet(template) \cup {t}
      /\ DOMAIN template' = DOMAIN template \cup {Len(template) + 1}
      /\ template'[Len(template) + 1] = t
      /\ \A i \in DOMAIN template : template'[i] = template[i] /\ Before(i)' = Before(i)
      /\ \A i : i = Len(template) + 1 => Before(i)' = ToSet(template)
  BY <1>1, <1>2, TemplateGrows DEF ProposalOK
<1>7. ControlOK'
  BY <1>1, <1>2, <1>3, <1>5, <1>6 DEF ControlOK, ProposalOK
<1>8. ASSUME ~under_child PROVE TemplateOK'
  <2>1. TemplateOK /\ Linked(clone)
    BY <1>2, <1>8 DEF ExactOK
  <2>2. Vin[t] \cap InPool(pool) \subseteq ToSet(template)
    <3>1. Vin[t] \cap InPool(clone) = {}
      BY <1>1, <1>4, <2>1 DEF Linked
    <3>2. Vin[t] \cap InPool(pool) \subseteq InPool(clone) \cup ToSet(template)
      BY <1>1, <1>4, <2>1 DEF TemplateOK
    <3> QED BY <3>1, <3>2
  <2>3. ASSUME NEW i \in DOMAIN template'
        PROVE  Vin[template'[i]] \cap InPool(pool)' \subseteq Before(i)'
    <3>1. CASE i = Len(template) + 1
      BY <1>3, <1>6, <2>2, <3>1
    <3>2. CASE i \in DOMAIN template
      BY <1>3, <1>6, <2>1, <3>2 DEF TemplateOK
    <3> QED BY <1>6, <3>1, <3>2
  <2>4. ASSUME NEW u \in InPool(clone)' \ remove_stack'
        PROVE  Vin[u] \cap InPool(pool)' \subseteq InPool(clone)' \cup ToSet(template')
    <3>1. u \in InPool(clone) \ remove_stack
      BY <1>1, <1>3
    <3>2. Vin[u] \cap InPool(pool) \subseteq InPool(clone) \cup ToSet(template)
      BY <1>1, <2>1, <3>1 DEF TemplateOK
    <3>3. ToSet(template') = ToSet(template) \cup {t}
      BY <1>6
    <3> QED BY <1>3, <3>2, <3>3
  <2> QED BY <2>3, <2>4 DEF TemplateOK
<1> QED BY <1>3, <1>7, <1>8 DEF IInv

\* The ancestors of a tx of a template are before it.
LEMMA OrderedFinds ==
  ASSUME PoolsOK, ControlOK, TemplateOK, Linked(pool)
  PROVE  FindsDepends
<1> SUFFICES ASSUME NEW i \in DOMAIN template
             PROVE  AncestorsMut(pool.txs, template[i]) \subseteq Before(i)
  BY DEF FindsDepends
<1>1. template \in Seq(Tx) /\ DOMAIN template = 1 .. Len(template) /\ Len(template) \in Nat
  BY DEF ControlOK, ProposalOK
<1>2. \A j \in 1 .. i : Before(j) \subseteq Before(i) /\ j \in DOMAIN template
  BY <1>1 DEF Before
<1>3. Before(i) \in SUBSET Tx
  BY <1>1 DEF Before
<1>4. ASSUME NEW y \in (Before(i) \cup {template[i]}) \cap DOMAIN pool.txs
      PROVE  pool.txs[y].depends \subseteq Before(i)
  <2>1. PICK j \in 1 .. i : y = template[j]
    BY <1>1 DEF Before
  <2>2. pool.txs[y].depends = Vin[y] \cap InPool(pool)
    BY DEF Linked, InPool
  <2>3. Vin[template[j]] \cap InPool(pool) \subseteq Before(j)
    BY <1>2 DEF TemplateOK
  <2> QED BY <1>2, <2>1, <2>2, <2>3
<1> QED BY <1>3, <1>4, AncestorsMutLeast

\* So a proposal ends without an error.
LEMMA FinishProposalStep ==
  ASSUME IInv, FinishProposal
  PROVE  IInv'
<1> USE DEF FinishProposal, poolVars
<1>1. PoolsOK'
  BY EmptyOK DEF IInv, PoolsOK
<1>2. ~under_child => error' = "none"
  BY OrderedFinds DEF IInv, ExactOK
<1>3. ExactOK'
  BY <1>2, EmptyOK DEF IInv, ExactOK
<1>4. ControlOK'
  BY EmptyOK DEF IInv, ControlOK, ProposalOK, Proposes
<1>5. TemplateOK'
  BY DEF TemplateOK
<1> QED BY <1>1, <1>3, <1>4, <1>5 DEF IInv

------------------------------------------------------------------------------
\* Every step keeps the invariant.
LEMMA NextInvariant == IInv /\ [Next]_vars => IInv'
<1> SUFFICES ASSUME IInv, [Next]_vars PROVE IInv'
  OBVIOUS
<1>1. CASE \E t \in Tx : AddTx(t)
  BY <1>1, AddTxStep
<1>2. CASE \E t \in Tx : RejectTx(t)
  <2>1. PICK t \in Tx : RejectTx(t)
    BY <1>2
  <2>2. RemoveWithDescendantsCall(t) \in Calls
    BY DEF Calls, RemoveWithDescendantsCall
  <2>3. calls' \in Seq(Calls) /\ ~proposing
    BY <2>1, <2>2 DEF RejectTx, Announced, Unlocked
  <2> QED BY <2>1, <2>3, PrepareStep DEF RejectTx, poolVars
<1>3. CASE \E t \in Tx : Evict(t)
  <2>1. PICK t \in Tx : Evict(t)
    BY <1>3
  <2>2. calls' \in Seq(Calls) /\ ~proposing
    BY <2>1 DEF Evict, Unlocked, IInv, ControlOK, ProposalOK
  <2> QED BY <2>1, <2>2, PrepareStep DEF Evict, poolVars
<1>4. CASE \E t \in Tx : ApplyRemoved(t)
  <2>1. PICK t \in Tx : ApplyRemoved(t)
    BY <1>4
  <2>2. RemoveCall(t) \in Calls
    BY DEF Calls, RemoveCall
  <2>3. calls' \in Seq(Calls) /\ ~proposing
    BY <2>1, <2>2 DEF ApplyRemoved, Unlocked
  <2> QED BY <2>1, <2>3, PrepareStep DEF ApplyRemoved
<1>5. CASE \E t \in Tx : PopRemoveStack(t)
  BY <1>5, PopRemoveStackStep
<1>6. CASE \E t \in Tx : AddFromPackage(t)
  BY <1>6, AddFromPackageStep
<1>7. CASE \E dropped \in SUBSET Dropped : DisconnectBlock(dropped)
  <2>1. PICK dropped \in SUBSET Dropped : DisconnectBlock(dropped)
    BY <1>7
  <2>2. calls' \in Seq(Calls) /\ ~proposing
    BY <2>1, RejectableAssumption, DescendantsCalls DEF DisconnectBlock, Unlocked
  <2> QED BY <2>1, <2>2, PrepareStep DEF DisconnectBlock, poolVars
<1>8. CASE \E dropped \in SUBSET Dropped, txs \in SUBSET Tx : ConnectBlock(txs, dropped)
  <2>1. PICK dropped \in SUBSET Dropped, txs \in SUBSET Tx : ConnectBlock(txs, dropped)
    BY <1>8
  <2>2. PICK order \in TopologicalOrders(txs), drops \in RemoveWithDescendantsCalls(dropped) :
          calls' = RemoveCalls(order) \o drops
    BY <2>1 DEF ConnectBlock
  <2>3. RemoveCalls(order) \in Seq(Calls)
    BY <2>2, OrderedCalls DEF TopologicalOrders
  <2>4. drops \in Seq(Calls)
    BY RejectableAssumption, DescendantsCalls
  <2>5. calls' \in Seq(Calls) /\ ~proposing
    BY <2>1, <2>2, <2>3, <2>4 DEF ConnectBlock, Mined, Unlocked
  <2> QED BY <2>1, <2>5, PrepareStep DEF ConnectBlock, poolVars
<1>9. CASE \E t \in Tx : AddWithRejectedParent(t)
  <2>1. PICK t \in Tx : AddWithRejectedParent(t)
    BY <1>9
  <2>2. calls' \in Seq(Calls) /\ ~proposing
    BY <2>1 DEF AddWithRejectedParent, Announced, Unlocked, IInv, ControlOK, ProposalOK
  <2> QED BY <2>1, <2>2, PrepareStep DEF AddWithRejectedParent, poolVars
<1>10. CASE \E txs \in SUBSET Tx : RejectBlock(txs)
  <2>1. PICK txs \in SUBSET Tx : RejectBlock(txs)
    BY <1>10
  <2>2. calls' \in Seq(Calls) /\ ~proposing
    BY <2>1 DEF RejectBlock, Mined, Unlocked, IInv, ControlOK, ProposalOK
  <2> QED BY <2>1, <2>2, PrepareStep DEF RejectBlock, poolVars
<1>11. CASE RunCall
  BY <1>11, RunCallStep
<1>12. CASE \E limit \in WeightLimits : StartProposal(limit)
  BY <1>12, StartProposalStep
<1>13. CASE ChoosePackage
  BY <1>13, ChoosePackageStep
<1>14. CASE FinishProposal
  BY <1>14, FinishProposalStep
<1>15. CASE UNCHANGED vars
  BY <1>15 DEF vars, poolVars, proposalVars, IInv, PoolsOK, ControlOK, ProposalOK, ExactOK,
     TemplateOK, Before
<1> QED
  BY <1>1, <1>2, <1>3, <1>4, <1>5, <1>6, <1>7, <1>8, <1>9, <1>10, <1>11, <1>12, <1>13, <1>14, <1>15 DEF Next

\* The invariant holds in every reachable state.
THEOREM InvariantHolds == Spec => []IInv
<1> QED BY InitInvariant, NextInvariant, PTL DEF Spec

\* The children of a tx are what they should be, so that
\* remove_with_descendants finds all descendants (mod.rs:757).
THEOREM ChildsExactHolds == Spec => []ChildsExact
<1>1. IInv => ChildsExact
  BY InvariantImplies
<1> QED BY <1>1, InvariantHolds, PTL

\* insert and remove keep both ends of each link between txs (mod.rs:550, 717).
THEOREM LinksExactHolds == Spec => []LinksExact
<1>1. IInv => LinksExact
  BY InvariantImplies
<1> QED BY <1>1, InvariantHolds, PTL

\* Each tx is indexed once and under its current rate, whatever its fee and
\* weight, while no tx is inserted under a child (mod.rs:664, 709).
THEOREM IndexAgreesHolds == Spec => []IndexAgrees
<1>1. IInv => IndexAgrees
  BY InvariantImplies
<1> QED BY <1>1, InvariantHolds, PTL

\* Neither remove nor propose_txs fails, so that none of the calls ends the
\* sync task, while no tx is inserted under a child.
THEOREM CallsSucceedHolds == Spec => []CallsSucceed
<1>1. IInv => CallsSucceed
  BY InvariantImplies
<1> QED BY <1>1, InvariantHolds, PTL

\* Templates are in topological order, whatever is evicted or rejected before
\* and whatever conflicts are removed in between (mod.rs:856).
THEOREM TemplateOrderedHolds == Spec => []TemplateOrdered
<1>1. IInv => TemplateOrdered
  BY InvariantImplies
<1> QED BY <1>1, InvariantHolds, PTL

------------------------------------------------------------------------------
\* The totals: what remove and insert do to them.

\* The totals of t are those of what it spends.
Exact(m, t) ==
  LET package == {t} \cup AncestorsIn(InPool(m), t)
  IN  /\ m.txs[t].ancestor_fee = TotalFee(package)
      /\ m.txs[t].ancestor_weight = TotalWeight(package)

\* AncestorsIn(P, t) holds what t and its own members spend in P.
LEMMA AncestorsInClosed ==
  ASSUME NEW P \in SUBSET Tx, NEW t
  PROVE  /\ AncestorsIn(P, t) \in SUBSET P
         /\ \A y \in AncestorsIn(P, t) \cup {t} : Vin[y] \cap P \subseteq AncestorsIn(P, t)
<1>1. AncestorsIn(P, t) =
        {a \in P : \A s \in SUBSET P :
           (\A b \in P : (\E y \in s \cup {t} : b \in Vin[y]) => b \in s) => a \in s}
  BY DEF AncestorsIn, LeastClosed
<1>2. ASSUME NEW y \in AncestorsIn(P, t) \cup {t}, NEW a \in Vin[y] \cap P
      PROVE  a \in AncestorsIn(P, t)
  <2>1. y = t \/ y \in AncestorsIn(P, t)
    BY <1>2
  <2> QED BY <1>1, <1>2, <2>1
<1> QED BY <1>1, <1>2

\* Any set that does holds all of it.
LEMMA AncestorsInLeast ==
  ASSUME NEW P \in SUBSET Tx, NEW t, NEW set \in SUBSET P,
         \A y \in set \cup {t} : Vin[y] \cap P \subseteq set
  PROVE  AncestorsIn(P, t) \subseteq set
<1>1. AncestorsIn(P, t) =
        {a \in P : \A s \in SUBSET P :
           (\A b \in P : (\E y \in s \cup {t} : b \in Vin[y]) => b \in s) => a \in s}
  BY DEF AncestorsIn, LeastClosed
<1>2. \A b \in P : (\E y \in set \cup {t} : b \in Vin[y]) => b \in set
  OBVIOUS
<1> QED BY <1>1, <1>2

\* So the ancestors of an ancestor are ancestors.
LEMMA AncestorsInTrans ==
  ASSUME NEW P \in SUBSET Tx, NEW t, NEW a \in AncestorsIn(P, t)
  PROVE  AncestorsIn(P, a) \subseteq AncestorsIn(P, t)
<1>1. /\ AncestorsIn(P, t) \in SUBSET P
      /\ \A y \in AncestorsIn(P, t) \cup {t} : Vin[y] \cap P \subseteq AncestorsIn(P, t)
  BY AncestorsInClosed
<1> QED BY <1>1, AncestorsInLeast

\* What ancestors_mut visits is closed under `depends`.
LEMMA AncestorsMutClosed ==
  ASSUME NEW txs, NEW t,
         NEW y \in (AncestorsMut(txs, t) \cup {t}) \cap DOMAIN txs, NEW a \in Tx,
         a \in txs[y].depends
  PROVE  a \in AncestorsMut(txs, t)
<1>1. AncestorsMut(txs, t) =
        {x \in Tx : \A s \in SUBSET Tx :
           (\A b \in Tx : (\E z \in (s \cup {t}) \cap DOMAIN txs : b \in txs[z].depends)
                             => b \in s) => x \in s}
  BY DEF AncestorsMut, LeastClosed
<1>2. y = t \/ y \in AncestorsMut(txs, t)
  OBVIOUS
<1> QED BY <1>1, <1>2

\* The same for descendants_mut.
LEMMA DescendantsMutClosed ==
  ASSUME NEW txs, NEW t,
         NEW y \in (DescendantsMut(txs, t) \cup {t}) \cap DOMAIN txs, NEW d \in Tx,
         d \in txs[y].spent_by
  PROVE  d \in DescendantsMut(txs, t)
<1>1. DescendantsMut(txs, t) =
        {x \in Tx : \A s \in SUBSET Tx :
           (\A b \in Tx : (\E z \in (s \cup {t}) \cap DOMAIN txs : b \in txs[z].spent_by)
                             => b \in s) => x \in s}
  BY DEF DescendantsMut, LeastClosed
<1>2. y = t \/ y \in DescendantsMut(txs, t)
  OBVIOUS
<1> QED BY <1>1, <1>2

\* With exact links the walk over ancestors finds what the tx spends.
LEMMA WalkFindsAncestors ==
  ASSUME NEW m, Typed(m), Linked(m), NEW t \in InPool(m)
  PROVE  AncestorsMut(m.txs, t) = AncestorsIn(InPool(m), t)
<1> DEFINE P == InPool(m)
           A == AncestorsMut(m.txs, t)
           B == AncestorsIn(P, t)
<1>1. P \in SUBSET Tx /\ DOMAIN m.txs = P /\ \A y \in P : m.txs[y].depends = Vin[y] \cap P
  BY DEF Typed, Linked, InPool
<1>2. B \in SUBSET P /\ \A y \in B \cup {t} : Vin[y] \cap P \subseteq B
  BY <1>1, AncestorsInClosed
<1>3. A \subseteq B
  <2> HIDE DEF B
  <2>1. B \in SUBSET Tx /\ \A y \in (B \cup {t}) \cap DOMAIN m.txs : m.txs[y].depends \subseteq B
    BY <1>1, <1>2
  <2> QED BY <2>1, AncestorsMutLeast
<1>4. A \in SUBSET P
  BY RelativesInPool
<1>5. \A y \in A \cup {t} : Vin[y] \cap P \subseteq A
  <2> SUFFICES ASSUME NEW y \in A \cup {t}, NEW a \in Vin[y] \cap P PROVE a \in A
    OBVIOUS
  <2>1. y \in P /\ a \in m.txs[y].depends /\ a \in Tx
    BY <1>1, <1>4
  <2>2. y \in (A \cup {t}) \cap DOMAIN m.txs
    BY <1>1, <2>1
  <2> QED BY <2>1, <2>2, AncestorsMutClosed
<1> HIDE DEF A
<1>6. B \subseteq A
  BY <1>1, <1>4, <1>5, AncestorsInLeast
<1> QED BY <1>3, <1>6 DEF A

\* The descendants of x are those that have x among their ancestors.
LEMMA DescendantsDual ==
  ASSUME NEW m, Typed(m), Linked(m), NEW x \in InPool(m), NEW u \in InPool(m)
  PROVE  u \in DescendantsMut(m.txs, x) <=> x \in AncestorsIn(InPool(m), u)
<1> DEFINE P == InPool(m)
           D(a) == DescendantsMut(m.txs, a)
<1>1. P \in SUBSET Tx /\ DOMAIN m.txs = P
  BY DEF Typed, InPool
<1>2. \A y \in P : m.txs[y].spent_by = {c \in P : y \in Vin[c]}
  BY DEF Linked
<1>3. \A c \in P : \A y \in Vin[c] \cap P : y \in AncestorsIn(P, c)
  <2> TAKE c \in P
  <2> QED BY <1>1, AncestorsInClosed
<1>4. ASSUME u \in D(x) PROVE x \in AncestorsIn(P, u)
  <2> DEFINE set == {c \in P : x \in AncestorsIn(P, c)}
  <2>1. ASSUME NEW y \in (set \cup {x}) \cap DOMAIN m.txs, NEW c \in m.txs[y].spent_by
        PROVE  c \in set
    <3>1. y \in P /\ c \in P /\ y \in Vin[c] /\ y \in AncestorsIn(P, c)
      BY <1>1, <1>2, <1>3, <2>1
    <3>2. CASE y = x
      BY <3>1, <3>2
    <3>3. CASE y # x
      <4>1. x \in AncestorsIn(P, y)
        BY <3>3
      <4>2. AncestorsIn(P, y) \subseteq AncestorsIn(P, c)
        BY <1>1, <3>1, AncestorsInTrans
      <4> QED BY <3>1, <4>1, <4>2
    <3> QED BY <3>2, <3>3
  <2>2. set \in SUBSET Tx
    BY <1>1
  <2> HIDE DEF set
  <2>3. D(x) \subseteq set
    BY <2>1, <2>2, DescendantsMutLeast
  <2> QED BY <1>4, <2>3 DEF set
<1>5. ASSUME x \in AncestorsIn(P, u) PROVE u \in D(x)
  <2> DEFINE set == {a \in P : u \in D(a)}
  <2>1. ASSUME NEW y \in set \cup {u}, NEW a \in Vin[y] \cap P
        PROVE  a \in set
    <3>1. y \in P /\ a \in P /\ y \in m.txs[a].spent_by
      BY <1>2, <2>1
    <3>2. y \in D(a)
      BY <1>1, <3>1, DescendantsMutDirect
    <3>3. CASE y = u
      BY <3>1, <3>2, <3>3
    <3>4. CASE y # u
      <4>1. u \in D(y)
        BY <3>4
      <4>2. D(a) \in SUBSET Tx
        BY DEF DescendantsMut, LeastClosed
      <4>3. \A z \in (D(a) \cup {y}) \cap DOMAIN m.txs : m.txs[z].spent_by \subseteq D(a)
        <5> SUFFICES ASSUME NEW z \in (D(a) \cup {y}) \cap DOMAIN m.txs,
                            NEW d \in m.txs[z].spent_by
                     PROVE  d \in D(a)
          OBVIOUS
        <5>1. z \in (D(a) \cup {a}) \cap DOMAIN m.txs /\ d \in Tx
          BY <1>1, <1>2, <3>2
        <5> QED BY <5>1, DescendantsMutClosed
      <4>4. D(y) \subseteq D(a)
        BY <4>2, <4>3, DescendantsMutLeast
      <4> QED BY <3>1, <4>1, <4>4
    <3> QED BY <3>3, <3>4
  <2>2. set \in SUBSET P
    OBVIOUS
  <2> HIDE DEF set
  <2>3. AncestorsIn(P, u) \subseteq set
    BY <1>1, <2>1, <2>2, AncestorsInLeast
  <2> QED BY <1>5, <2>3 DEF set
<1> QED BY <1>4, <1>5

\* Taking x away takes x and nothing else from the ancestors of u, if x is none
\* of them or has none itself.
LEMMA AncestorsInWithout ==
  ASSUME NEW P \in SUBSET Tx, NEW x, NEW u \in P \ {x},
         x \in AncestorsIn(P, u) => Vin[x] \cap P = {}
  PROVE  AncestorsIn(P \ {x}, u) = AncestorsIn(P, u) \ {x}
<1> DEFINE Q == P \ {x}
           A == AncestorsIn(P, u)
           B == AncestorsIn(Q, u)
<1>1. A \in SUBSET P /\ \A y \in A \cup {u} : Vin[y] \cap P \subseteq A
  BY AncestorsInClosed
<1>2. B \in SUBSET Q /\ \A y \in B \cup {u} : Vin[y] \cap Q \subseteq B
  BY AncestorsInClosed
<1>3. B \subseteq A \ {x}
  <2> DEFINE set == A \ {x}
  <2>1. \A y \in set \cup {u} : Vin[y] \cap Q \subseteq set
    BY <1>1
  <2>2. set \in SUBSET Q /\ Q \in SUBSET Tx
    BY <1>1
  <2> HIDE DEF set, Q
  <2>3. B \subseteq set
    BY <2>1, <2>2, AncestorsInLeast
  <2> QED BY <2>3 DEF set
<1>4. A \ {x} \subseteq B
  <2> DEFINE set == B \cup ({x} \cap A)
  <2>1. ASSUME NEW y \in set \cup {u} PROVE Vin[y] \cap P \subseteq set
    <3>1. CASE y = x
      <4>1. x \in A
        BY <3>1, <1>2, <2>1
      <4> QED BY <3>1, <4>1
    <3>2. CASE y # x
      <4>1. y \in B \cup {u} /\ y \in A \cup {u}
        BY <1>3, <2>1, <3>2
      <4> QED BY <1>1, <1>2, <4>1
    <3> QED BY <3>1, <3>2
  <2>2. set \in SUBSET P
    BY <1>1, <1>2
  <2> HIDE DEF set
  <2>3. A \subseteq set
    BY <2>1, <2>2, AncestorsInLeast
  <2> QED BY <2>3 DEF set
<1> QED BY <1>3, <1>4

\* A new tx that nobody spends is no ancestor, and the ancestors of the others
\* stay.
LEMMA AncestorsInWith ==
  ASSUME NEW P \in SUBSET Tx, NEW t \in Tx \ P, \A y \in P \cup {t} : t \notin Vin[y]
  PROVE  /\ \A u \in P : AncestorsIn(P \cup {t}, u) = AncestorsIn(P, u)
         /\ t \notin AncestorsIn(P \cup {t}, t)
<1> DEFINE Q == P \cup {t}
<1>1. ASSUME NEW u \in P PROVE AncestorsIn(Q, u) = AncestorsIn(P, u)
  <2>1. /\ AncestorsIn(P, u) \in SUBSET P
        /\ \A y \in AncestorsIn(P, u) \cup {u} : Vin[y] \cap P \subseteq AncestorsIn(P, u)
    BY AncestorsInClosed
  <2>2. AncestorsIn(Q, u) \subseteq AncestorsIn(P, u)
    <3>1. AncestorsIn(P, u) \in SUBSET Q
      BY <2>1
    <3>2. \A y \in AncestorsIn(P, u) \cup {u} : Vin[y] \cap Q \subseteq AncestorsIn(P, u)
      BY <2>1
    <3>3. Q \in SUBSET Tx
      OBVIOUS
    <3> HIDE DEF Q
    <3> QED BY <3>1, <3>2, <3>3, AncestorsInLeast
  <2>3. \A y \in AncestorsIn(Q, u) \cup {u} : Vin[y] \cap P \subseteq AncestorsIn(Q, u)
    <3>1. Q \in SUBSET Tx
      OBVIOUS
    <3> QED BY <3>1, AncestorsInClosed
  <2>4. AncestorsIn(Q, u) \in SUBSET P
    BY <2>1, <2>2
  <2> HIDE DEF Q
  <2>5. AncestorsIn(P, u) \subseteq AncestorsIn(Q, u)
    BY <2>3, <2>4, AncestorsInLeast
  <2> QED BY <2>2, <2>5
<1>2. AncestorsIn(Q, t) \subseteq P
  <2>1. P \in SUBSET Q /\ Q \in SUBSET Tx /\ \A y \in P \cup {t} : Vin[y] \cap Q \subseteq P
    OBVIOUS
  <2> HIDE DEF Q
  <2> QED BY <2>1, AncestorsInLeast
<1> QED BY <1>1, <1>2

\* The sums of a package with and without one of its txs.
LEMMA TotalsWithout ==
  ASSUME NEW S \in SUBSET Tx, NEW x \in S
  PROVE  /\ TotalFee(S) = Fee[x] + TotalFee(S \ {x})
         /\ TotalWeight(S) = ModifiedWeight[x] + TotalWeight(S \ {x})
         /\ Fee[x] \in Nat /\ ModifiedWeight[x] \in Nat
         /\ TotalFee(S \ {x}) \in Nat /\ TotalWeight(S \ {x}) \in Nat
<1>1. Fee \in [Tx -> Nat] /\ ModifiedWeight \in [Tx -> Nat]
  BY FeeAssumption, ModifiedWeightAssumption
<1>2. \A s : TotalFee(s) = SumOver(Fee, s) /\ TotalWeight(s) = SumOver(ModifiedWeight, s)
  BY DEF TotalFee, TotalWeight, SumOver
<1>3. /\ SumOver(Fee, S) = Fee[x] + SumOver(Fee, S \ {x}) /\ SumOver(Fee, S \ {x}) \in Nat
      /\ SumOver(ModifiedWeight, S) = ModifiedWeight[x] + SumOver(ModifiedWeight, S \ {x})
      /\ SumOver(ModifiedWeight, S \ {x}) \in Nat
  BY <1>1, SumWithout
<1> QED BY <1>1, <1>2, <1>3

\* remove keeps exact totals exact, save below a tx that has ancestors.
LEMMA RemoveExact ==
  ASSUME NEW m, Typed(m), Childs(m), Linked(m), NEW x \in InPool(m),
         NEW u \in InPool(m) \ {x}, Exact(m, u),
         x \in AncestorsIn(InPool(m), u) => Vin[x] \cap InPool(m) = {}
  PROVE  Exact(MempoolRemove(m, x), u)
<1> DEFINE P == InPool(m)
           n == MempoolRemove(m, x)
           A == AncestorsIn(P, u)
           below == DescendantsMut(m.txs, x)
<1>1. n.txs = RemoveLinks(m.txs, x) /\ InPool(n) = P \ {x}
  BY RemoveTyped DEF MempoolRemove
<1>2. P \in SUBSET Tx /\ u \in DOMAIN m.txs \ {x}
  BY DEF Typed, InPool
<1>3. AncestorsIn(P \ {x}, u) = A \ {x}
  BY <1>2, AncestorsInWithout
<1>4. u \in below <=> x \in A
  BY DescendantsDual
<1>5. /\ n.txs[u].ancestor_fee =
           IF u \in below THEN m.txs[u].ancestor_fee - Fee[x] ELSE m.txs[u].ancestor_fee
      /\ n.txs[u].ancestor_weight =
           IF u \in below THEN m.txs[u].ancestor_weight - ModifiedWeight[x]
           ELSE m.txs[u].ancestor_weight
  BY <1>1, <1>2 DEF RemoveLinks, LinksWithout
<1>6. /\ m.txs[u].ancestor_fee = TotalFee({u} \cup A)
      /\ m.txs[u].ancestor_weight = TotalWeight({u} \cup A)
  BY DEF Exact
<1> HIDE DEF n, A, below, P
<1>7. CASE x \in A
  <2>1. ({u} \cup A) \ {x} = {u} \cup (A \ {x})
    OBVIOUS
  <2>2. {u} \cup A \in SUBSET Tx
    BY <1>2, AncestorsInClosed DEF A, P
  <2> DEFINE S == {u} \cup A
             R == {u} \cup (A \ {x})
  <2>3. /\ TotalFee(S) = Fee[x] + TotalFee(R) /\ Fee[x] \in Nat /\ TotalFee(R) \in Nat
        /\ TotalWeight(S) = ModifiedWeight[x] + TotalWeight(R)
        /\ ModifiedWeight[x] \in Nat /\ TotalWeight(R) \in Nat
    <3>1. x \in S /\ S \in SUBSET Tx /\ R = S \ {x}
      BY <1>7, <2>1, <2>2
    <3> HIDE DEF S, R
    <3> QED BY <3>1, TotalsWithout
  <2>4. n.txs[u].ancestor_fee = TotalFee(S) - Fee[x]
        /\ n.txs[u].ancestor_weight = TotalWeight(S) - ModifiedWeight[x]
    BY <1>4, <1>5, <1>6, <1>7
  <2> HIDE DEF S, R
  <2>5. n.txs[u].ancestor_fee = TotalFee(R) /\ n.txs[u].ancestor_weight = TotalWeight(R)
    BY <2>3, <2>4
  <2> QED BY <1>1, <1>3, <2>5 DEF Exact, n, R
<1>8. CASE x \notin A
  <2>1. A \ {x} = A
    BY <1>8
  <2>2. n.txs[u].ancestor_fee = TotalFee({u} \cup A)
        /\ n.txs[u].ancestor_weight = TotalWeight({u} \cup A)
    BY <1>4, <1>5, <1>6, <1>8
  <2> QED BY <1>1, <1>3, <2>1, <2>2 DEF Exact, n
<1> QED BY <1>7, <1>8

\* insert gives the new tx its totals, and leaves those of the others.
LEMMA InsertExact ==
  ASSUME NEW m, Typed(m), Childs(m), Linked(m), Indexed(m), NEW t \in Tx,
         t \notin InPool(m) => t \notin Vin[t] /\ m.tx_childs[t] = {},
         \A u \in InPool(m) : Exact(m, u)
  PROVE  \A u \in InPool(MempoolInsert(m, t)) : Exact(MempoolInsert(m, t), u)
<1>1. CASE t \in InPool(m)
  BY <1>1 DEF MempoolInsert
<1>2. CASE t \notin InPool(m)
  <2> DEFINE P == InPool(m)
             n == MempoolInsert(m, t)
             linked == InsertLinked(m, t)
             A == AncestorsIn(P \cup {t}, t)
  <2>1. /\ InPool(n) = P \cup {t} /\ Typed(n) /\ Linked(n)
        /\ n.txs = InsertTotals(linked, t) /\ DOMAIN linked = P \cup {t}
    BY <1>2, InsertTyped, InsertLinkedIndexed DEF MempoolInsert, InsertLinked
  <2>2. P \in SUBSET Tx /\ t \in Tx \ P /\ \A y \in P \cup {t} : t \notin Vin[y]
    BY <1>2 DEF Typed, Childs
  <2>3. t \notin A /\ \A u \in P : AncestorsIn(P \cup {t}, u) = AncestorsIn(P, u)
    BY <2>2, AncestorsInWith
  <2>4. ASSUME NEW u \in P PROVE Exact(n, u)
    <3>1. /\ n.txs[u].ancestor_fee = m.txs[u].ancestor_fee
          /\ n.txs[u].ancestor_weight = m.txs[u].ancestor_weight
      BY <1>2, InsertAbove
    <3> HIDE DEF n
    <3> QED BY <2>1, <2>3, <3>1 DEF Exact
  <2>5. Exact(n, t)
    <3>1. AncestorsMut(n.txs, t) = A
      <4> HIDE DEF n
      <4> QED BY <2>1, WalkFindsAncestors
    <3>2. AncestorsMut(linked, t) = AncestorsMut(n.txs, t)
      <4> HIDE DEF n, linked
      <4>1. DOMAIN n.txs = DOMAIN linked /\ \A y \in DOMAIN linked : n.txs[y].depends = linked[y].depends
        BY <2>1 DEF InsertTotals
      <4> DEFINE F(txs) == {a \in Tx : \A s \in SUBSET Tx :
                    (\A b \in Tx : (\E z \in (s \cup {t}) \cap DOMAIN txs : b \in txs[z].depends)
                             => b \in s) => a \in s}
      <4>2. AncestorsMut(linked, t) = F(linked) /\ AncestorsMut(n.txs, t) = F(n.txs)
        BY DEF AncestorsMut, LeastClosed
      <4>3. \A s, b : (\E z \in (s \cup {t}) \cap DOMAIN linked : b \in linked[z].depends)
                       <=> (\E z \in (s \cup {t}) \cap DOMAIN n.txs : b \in n.txs[z].depends)
        BY <4>1
      <4>4. F(linked) = F(n.txs)
        BY <4>3
      <4> QED BY <4>2, <4>4
    <3> HIDE DEF A
    <3>3. /\ n.txs[t].ancestor_fee = Fee[t] + TotalFee(A)
          /\ n.txs[t].ancestor_weight = ModifiedWeight[t] + TotalWeight(A)
      BY <2>1, <3>1, <3>2 DEF InsertTotals
    <3>4. ({t} \cup A) \ {t} = A /\ {t} \cup A \in SUBSET Tx
      BY <2>2, <2>3, AncestorsInClosed DEF A
    <3>5. /\ TotalFee({t} \cup A) = Fee[t] + TotalFee(A)
          /\ TotalWeight({t} \cup A) = ModifiedWeight[t] + TotalWeight(A)
      <4> DEFINE S == {t} \cup A
      <4>1. t \in S /\ S \in SUBSET Tx /\ S \ {t} = A
        BY <3>4
      <4> HIDE DEF S
      <4>2. TotalFee(S) = Fee[t] + TotalFee(S \ {t})
            /\ TotalWeight(S) = ModifiedWeight[t] + TotalWeight(S \ {t})
        BY <4>1, TotalsWithout
      <4> QED BY <4>1, <4>2 DEF S
    <3> HIDE DEF n
    <3> QED BY <2>1, <3>3, <3>5 DEF Exact, A
  <2> QED BY <2>1, <2>4, <2>5
<1> QED BY <1>1, <1>2

------------------------------------------------------------------------------
\* The invariant about totals.

\* The totals are exact but for the members of S and what spends from them.
LooselyExact(m, S) ==
  \A u \in InPool(m) : ({u} \cup AncestorsIn(InPool(m), u)) \cap S = {} => Exact(m, u)

\* What a tx of a block spends in the mempool is removed before it.
Rooted ==
  \A i \in DOMAIN calls : ~calls[i].with_descendants =>
    Vin[calls[i].tx] \cap InPool(pool) \subseteq {calls[j].tx : j \in 1 .. (i - 1)}

\* The one call that an eviction makes: the children go next.
Evicting(t) ==
  /\ calls = <<RemoveCall(t)>>
  /\ t \in InPool(pool) => pool.tx_childs[t] \subseteq evicted

\* Which totals are exact: during a proposal or when nothing goes on, during
\* the calls for a block or a rejected tx, and during an eviction.
TotalsOK ==
  \/ proposing /\ LooselyExact(pool, evicted)
  \/ ~proposing /\ calls = << >> /\ remove_stack = {} /\ LooselyExact(pool, evicted)
  \/ ~proposing /\ evicted = {} /\ Rooted /\ LooselyExact(pool, remove_stack)
  \/ /\ ~proposing /\ remove_stack = {}
     /\ \E t \in Tx : Evicting(t) /\ LooselyExact(pool, evicted \cup {t})

\* Confirmed txs are not in the mempool, or are being removed.
ConfirmedOK ==
  /\ chain \in Seq(SUBSET Tx)
  /\ InPool(pool) \cap ConfirmedTxs \subseteq
       IF proposing THEN {} ELSE {calls[i].tx : i \in DOMAIN calls}

TInv ==
  /\ ConfirmedOK
  /\ ~under_child /\ ~left_behind => TotalsOK

\* What is exact stays so when a tx is removed whose children are about to be
\* removed as well, or which has no ancestors.
LEMMA RemoveLoosely ==
  ASSUME NEW m, Typed(m), Childs(m), Linked(m), NEW x, NEW S, NEW S2,
         LooselyExact(m, S), S \ {x} \subseteq S2,
         x \in InPool(m) => \/ S = {} /\ Vin[x] \cap InPool(m) = {}
                            \/ {c \in InPool(m) \ {x} : x \in Vin[c]} \subseteq S2
  PROVE  LooselyExact(MempoolRemove(m, x), S2)
<1> DEFINE P == InPool(m)
           n == MempoolRemove(m, x)
<1>1. P \in SUBSET Tx
  BY DEF Typed
<1>2. InPool(n) = P \ {x}
  BY RemoveTyped
<1>3. CASE x \notin P
  <2>1. n = m
    BY <1>3 DEF MempoolRemove
  <2>2. \A u \in P : ({u} \cup AncestorsIn(P, u)) \in SUBSET P
    BY <1>1, AncestorsInClosed
  <2> HIDE DEF n
  <2> QED BY <1>3, <2>1, <2>2 DEF LooselyExact, n
<1>4. CASE x \in P
  <2> SUFFICES ASSUME NEW u \in P \ {x},
                      ({u} \cup AncestorsIn(P \ {x}, u)) \cap S2 = {}
               PROVE  Exact(n, u)
    <3> HIDE DEF n, P
    <3> QED BY <1>2 DEF LooselyExact, n
  <2>1. CASE S = {} /\ Vin[x] \cap P = {}
    BY <1>4, <2>1, RemoveExact DEF LooselyExact
  <2>2. CASE {c \in P \ {x} : x \in Vin[c]} \subseteq S2
    <3> DEFINE B == AncestorsIn(P \ {x}, u)
    <3>1. B \in SUBSET (P \ {x}) /\ \A y \in B \cup {u} : Vin[y] \cap (P \ {x}) \subseteq B
      BY <1>1, AncestorsInClosed
    <3>2. \A y \in B \cup {u} : x \notin Vin[y]
      BY <2>2, <3>1
    <3>3. \A y \in B \cup {u} : Vin[y] \cap P \subseteq B
      BY <3>1, <3>2
    <3>4. AncestorsIn(P, u) \subseteq B
      <4> HIDE DEF B
      <4> QED BY <1>1, <3>1, <3>3, AncestorsInLeast
    <3>5. x \notin AncestorsIn(P, u)
      BY <3>1, <3>4
    <3>6. ({u} \cup AncestorsIn(P, u)) \cap S = {}
      BY <3>1, <3>4, <3>5
    <3> QED BY <1>4, <3>5, <3>6, RemoveExact DEF LooselyExact
  <2> QED BY <1>4, <2>1, <2>2
<1> QED BY <1>3, <1>4

\* Initially there are no txs and no calls.
LEMMA InitTInv == Init => TInv
<1> SUFFICES ASSUME Init PROVE TInv
  OBVIOUS
<1>1. InPool(pool) = {}
  BY EmptyOK DEF Init
<1>2. ConfirmedOK
  BY <1>1 DEF Init, ConfirmedOK
<1>3. TotalsOK
  BY <1>1 DEF Init, TotalsOK, LooselyExact
<1> QED BY <1>2, <1>3 DEF TInv

\* With no lock held no confirmed tx is left, and all totals are exact but for
\* what is still to be evicted.
LEMMA UnlockedTotals ==
  ASSUME TInv, Unlocked
  PROVE  /\ InPool(pool) \cap ConfirmedTxs = {}
         /\ ~under_child /\ ~left_behind => LooselyExact(pool, evicted)
<1>1. calls = << >> /\ remove_stack = {} /\ ~proposing
  BY DEF Unlocked
<1>2. InPool(pool) \cap ConfirmedTxs = {}
  BY <1>1 DEF TInv, ConfirmedOK
<1>3. ASSUME ~under_child, ~left_behind PROVE LooselyExact(pool, evicted)
  <2>1. \A t \in Tx : ~Evicting(t)
    BY <1>1 DEF Evicting
  <2>2. TotalsOK
    BY <1>3 DEF TInv
  <2> QED BY <1>1, <2>1, <2>2 DEF TotalsOK
<1> QED BY <1>2, <1>3

\* Steps that only prepare calls.
LEMMA PrepareTInv ==
  ASSUME TInv, Unlocked,
         UNCHANGED <<pool, under_child, left_behind, remove_stack, proposing>>,
         chain' \in Seq(SUBSET Tx),
         InPool(pool) \cap ConfirmedTxs' \subseteq {calls'[i].tx : i \in DOMAIN calls'},
         \/ evicted = {} /\ evicted' = {} /\ Rooted'
         \/ calls' = << >> /\ evicted \subseteq evicted'
  PROVE  TInv'
<1>1. ~proposing /\ remove_stack = {}
  BY DEF Unlocked
<1>2. ConfirmedOK'
  BY <1>1 DEF ConfirmedOK
<1>3. ASSUME ~under_child', ~left_behind' PROVE TotalsOK'
  <2>1. LooselyExact(pool, evicted)
    BY <1>3, UnlockedTotals
  <2>2. CASE evicted = {} /\ evicted' = {} /\ Rooted'
    BY <1>1, <2>1, <2>2 DEF TotalsOK
  <2>3. CASE calls' = << >> /\ evicted \subseteq evicted'
    <3>1. LooselyExact(pool', evicted')
      BY <2>1, <2>3 DEF LooselyExact
    <3> QED BY <1>1, <2>3, <3>1 DEF TotalsOK
  <2> QED BY <2>2, <2>3
<1> QED BY <1>2, <1>3 DEF TInv

\* During a proposal the mempool stays.
LEMMA ProposingTInv ==
  ASSUME TInv, proposing,
         UNCHANGED <<pool, under_child, left_behind, evicted, chain>>,
         proposing' \/ (calls' = << >> /\ remove_stack' = {})
  PROVE  TInv'
<1>1. ConfirmedOK'
  BY DEF TInv, ConfirmedOK, ConfirmedTxs
<1>2. ASSUME ~under_child', ~left_behind' PROVE TotalsOK'
  BY <1>2 DEF TInv, TotalsOK
<1> QED BY <1>1, <1>2 DEF TInv

\* A new tx has no children, and comes when nothing is being evicted.
LEMMA AddTxTInv ==
  ASSUME IInv, TInv, NEW t \in Tx, AddTx(t)
  PROVE  TInv'
<1>1. /\ Unlocked /\ evicted = {} /\ t \notin ConfirmedTxs
      /\ calls = << >> /\ remove_stack = {} /\ ~proposing
      /\ t \notin InPool(pool) => t \notin Vin[t]
  BY DEF AddTx, Announced, Unlocked
<1>2. /\ pool' = MempoolInsert(pool, t) /\ left_behind' = left_behind
      /\ under_child' = (under_child \/ (t \notin InPool(pool) /\ pool.tx_childs[t] # {}))
      /\ UNCHANGED <<chain, evicted, calls, remove_stack, proposing>>
  BY DEF AddTx, proposalVars
<1>3. InPool(pool)' = InPool(pool) \cup {t}
  BY <1>2, InsertTyped DEF IInv, PoolsOK
<1>4. ConfirmedOK'
  BY <1>1, <1>2, <1>3, UnlockedTotals DEF TInv, ConfirmedOK, ConfirmedTxs
<1>5. ASSUME ~under_child', ~left_behind' PROVE TotalsOK'
  <2>1. ~under_child /\ ~left_behind /\ (t \notin InPool(pool) => pool.tx_childs[t] = {})
    BY <1>2, <1>5
  <2>2. \A u \in InPool(pool) : Exact(pool, u)
    BY <1>1, <2>1, UnlockedTotals DEF LooselyExact
  <2>3. Typed(pool) /\ Childs(pool) /\ Linked(pool) /\ Indexed(pool)
    BY <2>1 DEF IInv, PoolsOK, ExactOK
  <2>4. \A u \in InPool(pool') : Exact(pool', u)
    BY <1>1, <1>2, <2>1, <2>2, <2>3, InsertExact
  <2>5. LooselyExact(pool', {})
    BY <2>4 DEF LooselyExact
  <2> QED BY <1>1, <1>2, <2>5 DEF TotalsOK
<1> QED BY <1>4, <1>5 DEF TInv

\* A tx that is evicted leaves the mempool before or after its children, which
\* are evicted as well.
LEMMA ApplyRemovedTInv ==
  ASSUME IInv, TInv, NEW t \in Tx, ApplyRemoved(t)
  PROVE  TInv'
<1>1. /\ Unlocked /\ t \in evicted /\ evicted' = evicted \ {t}
      /\ calls = << >> /\ remove_stack = {} /\ ~proposing
      /\ calls' = <<RemoveCall(t)>>
      /\ left_behind' = (left_behind
                           \/ (t \in InPool(pool) /\ ~(pool.tx_childs[t] \subseteq evicted')))
      /\ UNCHANGED <<chain, pool, under_child, remove_stack, proposing>>
  BY DEF ApplyRemoved, Unlocked, proposalVars
<1>2. ConfirmedOK'
  BY <1>1, UnlockedTotals DEF TInv, ConfirmedOK, ConfirmedTxs
<1>3. ASSUME ~under_child', ~left_behind' PROVE TotalsOK'
  <2>1. LooselyExact(pool, evicted)
    BY <1>1, <1>3, UnlockedTotals
  <2>2. evicted' \cup {t} = evicted
    BY <1>1
  <2>3. LooselyExact(pool', evicted' \cup {t})
    BY <1>1, <2>1, <2>2
  <2>4. Evicting(t)'
    BY <1>1, <1>3 DEF Evicting
  <2> QED BY <1>1, <2>3, <2>4 DEF TotalsOK
<1> QED BY <1>2, <1>3 DEF TInv

\* What is removed from the mempool is no longer among the confirmed txs in it.
LEMMA RemoveConfirmed ==
  ASSUME IInv, TInv, ~proposing, NEW t \in Tx, RunRemove(t),
         \A i \in DOMAIN calls : calls[i].tx # t => calls[i].tx \in {calls'[j].tx : j \in DOMAIN calls'}
  PROVE  /\ pool' = MempoolRemove(pool, t) /\ InPool(pool)' = InPool(pool) \ {t}
         /\ UNCHANGED <<chain, evicted, under_child, left_behind, proposing>>
         /\ ConfirmedOK'
<1>1. /\ pool' = MempoolRemove(pool, t)
      /\ UNCHANGED <<chain, evicted, under_child, left_behind, proposing>>
  BY DEF RunRemove, Subject, callerVars
<1>2. InPool(pool)' = InPool(pool) \ {t}
  BY <1>1, RemoveTyped DEF IInv, PoolsOK
<1>3. ConfirmedOK'
  BY <1>1, <1>2 DEF TInv, ConfirmedOK, ConfirmedTxs
<1> QED BY <1>1, <1>2, <1>3

\* A call begins: it is for a tx without ancestors, or all that spends from it
\* will follow, or is being evicted.
LEMMA RunCallTInv ==
  ASSUME IInv, TInv, RunCall, ~proposing
  PROVE  TInv'
<1> DEFINE call == Head(calls)
           t == call.tx
<1>1. /\ calls # << >> /\ remove_stack = {} /\ RunRemove(t) /\ calls' = Tail(calls)
      /\ remove_stack' = IF call.with_descendants THEN RemainingChilds(t) ELSE {}
  BY DEF RunCall
<1>2. calls \in Seq(Calls) /\ call \in Calls /\ t \in Tx
  <2>1. calls \in Seq(Calls)
    BY DEF IInv, ControlOK, ProposalOK
  <2>2. call \in Calls
    BY <1>1, <2>1, HeadTailProperties
  <2> QED BY <2>1, <2>2 DEF Calls
<1>3. /\ call = calls[1] /\ 1 \in DOMAIN calls /\ Len(calls) \in Nat
      /\ DOMAIN calls = 1 .. Len(calls) /\ DOMAIN calls' = 1 .. (Len(calls) - 1)
      /\ \A i \in DOMAIN calls' : calls'[i] = calls[i + 1] /\ i + 1 \in DOMAIN calls
  BY <1>1, <1>2
<1> HIDE DEF call
<1>4. \A i \in DOMAIN calls : i = 1 \/ (i - 1 \in DOMAIN calls' /\ calls'[i - 1] = calls[i])
  BY <1>1, <1>2
<1>5. \A i \in DOMAIN calls : calls[i].tx # t => calls[i].tx \in {calls'[j].tx : j \in DOMAIN calls'}
  BY <1>3, <1>4
<1>6. /\ pool' = MempoolRemove(pool, t) /\ InPool(pool)' = InPool(pool) \ {t}
      /\ UNCHANGED <<chain, evicted, under_child, left_behind, proposing>>
      /\ ConfirmedOK'
  BY <1>1, <1>2, <1>5, RemoveConfirmed
<1>7. ASSUME ~under_child', ~left_behind' PROVE TotalsOK'
  <2>1. TotalsOK /\ Typed(pool) /\ Childs(pool) /\ Linked(pool)
    BY <1>6, <1>7 DEF IInv, PoolsOK, ExactOK, TInv
  <2>2. CASE evicted = {} /\ Rooted /\ LooselyExact(pool, remove_stack)
    <3>1. t \in InPool(pool) => \/ Vin[t] \cap InPool(pool) = {}
                                \/ {c \in InPool(pool) \ {t} : t \in Vin[c]} \subseteq remove_stack'
      <4>1. CASE call.with_descendants
        <5>1. \A u \in InPool(pool) \ {t} : t \in Vin[u] => u \in RemainingChilds(t)
          BY <1>2, RemainingChildsAll DEF IInv, Subject
        <5> QED BY <1>1, <4>1, <5>1
      <4>2. CASE ~call.with_descendants
        <5>1. Vin[t] \cap InPool(pool) \subseteq {calls[j].tx : j \in 1 .. (1 - 1)}
          BY <1>3, <2>2, <4>2 DEF Rooted
        <5> QED BY <5>1
      <4> QED BY <4>1, <4>2
    <3> HIDE DEF t
    <3>2. LooselyExact(pool, {})
      BY <1>1, <2>2
    <3>3. LooselyExact(pool', remove_stack')
      BY <1>6, <2>1, <3>1, <3>2, RemoveLoosely
    <3>4. Rooted'
      <4> SUFFICES ASSUME NEW i \in DOMAIN calls', ~calls'[i].with_descendants,
                          NEW a \in Vin[calls'[i].tx] \cap InPool(pool)'
                   PROVE  \E j \in 1 .. (i - 1) : a = calls'[j].tx
        BY DEF Rooted
      <4>1. calls'[i] = calls[i + 1] /\ i + 1 \in DOMAIN calls
        BY <1>3
      <4>2. a \in InPool(pool) /\ a # t
        BY <1>6
      <4>3. PICK j \in 1 .. ((i + 1) - 1) : a = calls[j].tx
        BY <2>2, <4>1, <4>2 DEF Rooted
      <4>4. j # 1
        BY <1>3, <4>2, <4>3 DEF t
      <4>5. j \in DOMAIN calls /\ j - 1 \in 1 .. (i - 1)
        BY <1>3, <4>3, <4>4
      <4> QED BY <1>4, <4>3, <4>4, <4>5
    <3> QED BY <1>6, <2>2, <3>3, <3>4 DEF TotalsOK
  <2>3. CASE \E d \in Tx : Evicting(d) /\ LooselyExact(pool, evicted \cup {d})
    <3>1. PICK d \in Tx : Evicting(d) /\ LooselyExact(pool, evicted \cup {d})
      BY <2>3
    <3>2. t = d /\ ~call.with_descendants /\ calls' = << >>
      BY <1>1, <1>3, <3>1 DEF Evicting, RemoveCall
    <3>3. t \in InPool(pool) => {c \in InPool(pool) \ {t} : t \in Vin[c]} \subseteq evicted
      BY <1>2, <2>1, <3>1, <3>2 DEF Evicting, Childs
    <3>4. (evicted \cup {t}) \ {t} \subseteq evicted
      OBVIOUS
    <3> HIDE DEF t
    <3>5. LooselyExact(MempoolRemove(pool, t), evicted)
      BY <2>1, <3>1, <3>2, <3>3, <3>4, RemoveLoosely
    <3> QED BY <1>1, <1>6, <3>2, <3>5 DEF TotalsOK
  <2> QED BY <1>1, <2>1, <2>2, <2>3 DEF TotalsOK
<1> QED BY <1>6, <1>7 DEF TInv

\* It goes on with the children.
LEMMA PopRemoveStackTInv ==
  ASSUME IInv, TInv, NEW t \in Tx, PopRemoveStack(t), ~proposing
  PROVE  TInv'
<1>1. /\ t \in remove_stack /\ RunRemove(t) /\ calls' = calls
      /\ remove_stack' = (remove_stack \ {t}) \cup RemainingChilds(t)
  BY DEF PopRemoveStack
<1>2. /\ pool' = MempoolRemove(pool, t) /\ InPool(pool)' = InPool(pool) \ {t}
      /\ UNCHANGED <<chain, evicted, under_child, left_behind, proposing>>
      /\ ConfirmedOK'
  BY <1>1, RemoveConfirmed
<1>3. ASSUME ~under_child', ~left_behind' PROVE TotalsOK'
  <2>1. TotalsOK /\ Typed(pool) /\ Childs(pool) /\ Linked(pool)
    BY <1>2, <1>3 DEF IInv, PoolsOK, ExactOK, TInv
  <2>2. evicted = {} /\ Rooted /\ LooselyExact(pool, remove_stack)
    BY <1>1, <2>1 DEF TotalsOK
  <2>3. {c \in InPool(pool) \ {t} : t \in Vin[c]} \subseteq remove_stack'
    <3>1. \A u \in InPool(pool) \ {t} : t \in Vin[u] => u \in RemainingChilds(t)
      BY RemainingChildsAll DEF IInv, Subject
    <3> QED BY <1>1, <3>1
  <2>4. remove_stack \ {t} \subseteq remove_stack'
    BY <1>1
  <2>5. LooselyExact(pool', remove_stack')
    BY <1>2, <2>1, <2>2, <2>3, <2>4, RemoveLoosely
  <2>6. Rooted'
    BY <1>1, <1>2, <2>2 DEF Rooted
  <2> QED BY <1>2, <2>2, <2>5, <2>6 DEF TotalsOK
<1> QED BY <1>2, <1>3 DEF TInv

\* A block's txs spend confirmed txs and each other, parents first; confirmed
\* txs are not in the mempool.
LEMMA ConnectBlockTInv ==
  ASSUME IInv, TInv, NEW dropped \in SUBSET Dropped, NEW txs \in SUBSET Tx, ConnectBlock(txs, dropped)
  PROVE  TInv'
<1>1. /\ Unlocked /\ evicted = {} /\ evicted' = {}
      /\ \A t \in txs : Vin[t] \subseteq ConfirmedTxs \cup txs
      /\ chain' = <<txs>> \o chain
      /\ UNCHANGED <<pool, under_child, left_behind, remove_stack, proposing>>
  BY DEF ConnectBlock, Mined, poolVars, proposalVars
<1>2. PICK order \in TopologicalOrders(txs), drops \in RemoveWithDescendantsCalls(dropped) :
        calls' = RemoveCalls(order) \o drops
  BY DEF ConnectBlock
<1>3. order \in SetToSeqs(txs) /\ \A i, j \in DOMAIN order : order[i] \in Vin[order[j]] => i < j
  BY DEF TopologicalOrders
<1>4. /\ order \in Seq(txs) /\ DOMAIN order = 1 .. Len(order) /\ ToSet(order) = txs
      /\ Len(order) \in Nat
  BY <1>3, OrdersAreSequences, OrdersHoldAll
<1>5. /\ drops \in Seq(Calls) /\ \A i \in DOMAIN drops : drops[i].with_descendants
      /\ RemoveCalls(order) \in Seq(Calls)
  BY <1>3, RejectableAssumption, DescendantsCalls, OrderedCalls
<1>6. /\ Len(RemoveCalls(order)) = Len(order)
      /\ \A i \in DOMAIN order : RemoveCalls(order)[i] = RemoveCall(order[i])
  BY <1>4, <1>5 DEF RemoveCalls
<1>7. /\ DOMAIN calls' = 1 .. (Len(order) + Len(drops)) /\ Len(drops) \in Nat
      /\ \A i \in DOMAIN order : calls'[i].tx = order[i] /\ i \in DOMAIN calls'
      /\ \A i \in DOMAIN calls' : i \notin DOMAIN order => calls'[i].with_descendants
  <2>1. \A i \in DOMAIN order : i \in DOMAIN calls' /\ calls'[i] = RemoveCall(order[i])
    BY <1>2, <1>4, <1>5, <1>6
  <2>2. DOMAIN calls' = 1 .. (Len(order) + Len(drops)) /\ Len(drops) \in Nat
    BY <1>2, <1>4, <1>5, <1>6
  <2>3. ASSUME NEW i \in DOMAIN calls', i \notin DOMAIN order PROVE calls'[i].with_descendants
    <3>1. i - Len(order) \in DOMAIN drops /\ calls'[i] = drops[i - Len(order)]
      BY <1>2, <1>4, <1>5, <1>6, <2>2, <2>3
    <3> QED BY <1>5, <3>1
  <2>4. \A i \in DOMAIN order : calls'[i].tx = order[i] /\ i \in DOMAIN calls'
    <3>1. \A t \in Tx : RemoveCall(t).tx = t
      BY DEF RemoveCall
    <3>2. \A i \in DOMAIN order : order[i] \in Tx
      BY <1>4
    <3> QED BY <2>1, <3>1, <3>2
  <2> QED BY <2>2, <2>3, <2>4
<1>8. chain \in Seq(SUBSET Tx) /\ chain' \in Seq(SUBSET Tx)
  BY <1>1 DEF TInv, ConfirmedOK
<1>9. ConfirmedTxs' \subseteq ConfirmedTxs \cup txs
  <2>1. \A i \in DOMAIN chain' : chain'[i] = txs \/ (i - 1 \in DOMAIN chain /\ chain'[i] = chain[i - 1])
    BY <1>1, <1>8
  <2> QED BY <2>1 DEF ConfirmedTxs, ToSet
<1>10. InPool(pool) \cap ConfirmedTxs = {}
  BY <1>1, UnlockedTotals
<1>11. InPool(pool) \cap ConfirmedTxs' \subseteq {calls'[i].tx : i \in DOMAIN calls'}
  BY <1>4, <1>7, <1>9, <1>10 DEF ToSet
<1>12. Rooted'
  <2> SUFFICES ASSUME NEW i \in DOMAIN calls', ~calls'[i].with_descendants,
                      NEW a \in Vin[calls'[i].tx] \cap InPool(pool)'
               PROVE  \E j \in 1 .. (i - 1) : a = calls'[j].tx
    BY DEF Rooted
  <2>1. i \in DOMAIN order /\ calls'[i].tx = order[i] /\ order[i] \in txs
    BY <1>4, <1>7
  <2>2. a \in txs
    BY <1>1, <1>10, <2>1
  <2>3. PICK j \in DOMAIN order : a = order[j]
    BY <1>4, <2>2 DEF ToSet
  <2>4. j < i
    BY <1>3, <2>1, <2>3
  <2> QED BY <1>4, <1>7, <2>1, <2>3, <2>4
<1> QED BY <1>1, <1>8, <1>11, <1>12, PrepareTInv

\* Every step keeps the totals.
LEMMA NextTInv == IInv /\ TInv /\ [Next]_vars => TInv'
<1> SUFFICES ASSUME IInv, TInv, [Next]_vars PROVE TInv'
  OBVIOUS
<1> USE DEF poolVars, proposalVars
<1>1. chain \in Seq(SUBSET Tx)
  BY DEF TInv, ConfirmedOK
<1>2. ASSUME Unlocked
      PROVE  /\ InPool(pool) \cap ConfirmedTxs = {}
             /\ chain' = chain => ConfirmedTxs' = ConfirmedTxs
  BY <1>2, UnlockedTotals DEF ConfirmedTxs
<1>3. ASSUME NEW t \in Tx, RejectTx(t) PROVE TInv'
  <2>1. /\ Unlocked /\ evicted = {} /\ evicted' = {} /\ chain' = chain
        /\ calls' = <<RemoveWithDescendantsCall(t)>>
        /\ UNCHANGED <<pool, under_child, left_behind, remove_stack, proposing>>
    BY <1>3 DEF RejectTx, Announced
  <2>2. Rooted'
    BY <2>1 DEF Rooted, RemoveWithDescendantsCall
  <2>3. InPool(pool) \cap ConfirmedTxs' = {}
    BY <1>2, <2>1
  <2> QED BY <1>1, <2>1, <2>2, <2>3, PrepareTInv
<1>4. ASSUME \/ \E t \in Tx : AddWithRejectedParent(t) \/ Evict(t)
             \/ \E txs \in SUBSET Tx : RejectBlock(txs)
      PROVE  TInv'
  <2>1. /\ Unlocked /\ evicted \subseteq evicted' /\ chain' = chain /\ calls' = << >>
        /\ UNCHANGED <<pool, under_child, left_behind, remove_stack, proposing>>
    BY <1>4 DEF AddWithRejectedParent, Evict, RejectBlock, Announced, Mined, Unlocked
  <2>2. InPool(pool) \cap ConfirmedTxs' = {}
    BY <1>2, <2>1
  <2> QED BY <1>1, <2>1, <2>2, PrepareTInv
<1>5. ASSUME NEW dropped \in SUBSET Dropped, DisconnectBlock(dropped) PROVE TInv'
  <2>1. /\ Unlocked /\ evicted = {} /\ evicted' = {} /\ chain # << >> /\ chain' = Tail(chain)
        /\ calls' \in RemoveWithDescendantsCalls(dropped)
        /\ UNCHANGED <<pool, under_child, left_behind, remove_stack, proposing>>
    BY <1>5 DEF DisconnectBlock
  <2>2. chain' \in Seq(SUBSET Tx) /\ \A i \in DOMAIN chain' : i + 1 \in DOMAIN chain /\ chain'[i] = chain[i + 1]
    BY <1>1, <2>1
  <2>3. ConfirmedTxs' \subseteq ConfirmedTxs
    BY <2>2 DEF ConfirmedTxs, ToSet
  <2>4. Rooted'
    <3>1. \A i \in DOMAIN calls' : calls'[i].with_descendants
      BY <2>1, RejectableAssumption, DescendantsCalls
    <3> QED BY <3>1 DEF Rooted
  <2> QED BY <1>2, <2>1, <2>2, <2>3, <2>4, PrepareTInv
<1>6. ASSUME NEW limit \in WeightLimits, StartProposal(limit) PROVE TInv'
  <2>1. /\ Unlocked /\ UNCHANGED <<chain, evicted, pool, under_child, left_behind>>
        /\ proposing'
    BY <1>6 DEF StartProposal, callerVars
  <2>2. ConfirmedOK'
    BY <1>1, <1>2, <2>1 DEF ConfirmedOK
  <2>3. ~under_child' /\ ~left_behind' => TotalsOK'
    BY <2>1, UnlockedTotals DEF TotalsOK
  <2> QED BY <2>2, <2>3 DEF TInv
<1>7. ASSUME \/ RunCall \/ ChoosePackage \/ FinishProposal
             \/ \E t \in Tx : PopRemoveStack(t) \/ AddFromPackage(t),
             proposing
      PROVE  TInv'
  <2>1. UNCHANGED <<pool, under_child, left_behind, evicted, chain>>
    BY <1>7 DEF RunCall, ChoosePackage, FinishProposal, PopRemoveStack, AddFromPackage,
       RunRemove, callerVars
  <2>2. proposing' \/ (calls' = << >> /\ remove_stack' = {})
    BY <1>7 DEF RunCall, ChoosePackage, FinishProposal, PopRemoveStack, AddFromPackage,
       RunRemove, Proposes
  <2> QED BY <1>7, <2>1, <2>2, ProposingTInv
<1>8. ASSUME ChoosePackage \/ FinishProposal \/ \E t \in Tx : AddFromPackage(t) PROVE proposing
  BY <1>8 DEF ChoosePackage, FinishProposal, AddFromPackage, Proposes
<1>9. CASE UNCHANGED vars
  <2>1. UNCHANGED <<chain, evicted, pool, under_child, left_behind, calls, remove_stack, proposing>>
    BY <1>9 DEF vars, callerVars, poolVars, proposalVars
  <2>2. ConfirmedOK'
    BY <2>1 DEF TInv, ConfirmedOK, ConfirmedTxs
  <2>3. /\ Rooted <=> Rooted'
        /\ \A t \in Tx : Evicting(t) <=> Evicting(t)'
    BY <2>1 DEF Rooted, Evicting
  <2>4. TotalsOK => TotalsOK'
    BY <2>1, <2>3 DEF TotalsOK
  <2> QED BY <2>1, <2>2, <2>4 DEF TInv
<1> QED BY <1>3, <1>4, <1>5, <1>6, <1>7, <1>8, <1>9, AddTxTInv, ApplyRemovedTInv, RunCallTInv,
           PopRemoveStackTInv, ConnectBlockTInv DEF Next

\* The totals by which packages are chosen are those of the package, for any
\* graph, fees and weights, whatever is evicted, rejected, mined or removed with
\* its descendants: the sums that insert and remove add and subtract never drift
\* from the sums over what is there.
THEOREM TotalsExactHolds == Spec => []TotalsExact
<1>1. Init => TInv
  BY InitTInv
<1>2. IInv /\ TInv /\ [Next]_vars => TInv'
  BY NextTInv
<1>3. TInv => TotalsExact
  <2> SUFFICES ASSUME TInv, Unlocked, evicted = {}, ~under_child, ~left_behind,
                      NEW t \in InPool(pool)
               PROVE  LET package == {t} \cup AncestorsIn(InPool(pool), t)
                      IN  /\ pool.txs[t].ancestor_fee = TotalFee(package)
                          /\ pool.txs[t].ancestor_weight = TotalWeight(package)
    BY DEF TotalsExact
  <2>1. Exact(pool, t)
    BY UnlockedTotals DEF LooselyExact
  <2> QED BY <2>1 DEF Exact
<1> QED BY <1>1, <1>2, <1>3, InvariantHolds, PTL DEF Spec

------------------------------------------------------------------------------
\* Conflicts.

\* A tx has its own conflicts, and those of what it spends.
Inherits(m) ==
  \A t \in InPool(m) :
    /\ ConflictsWith[t] \subseteq m.txs[t].conflicts_with
    /\ \A d \in m.txs[t].depends : m.txs[d].conflicts_with \subseteq m.txs[t].conflicts_with

\* The txs of the clone that conflict with the template.
Conflicting == {y \in InPool(clone) : \E a \in ToSet(template) : y \in ConflictsWith[a]}

\* While a package is added, its last tx is the one that leads it, and stands for
\* all conflicts; after that, they are about to be removed.
ConflictsOK ==
  /\ Inherits(pool) /\ Inherits(clone)
  /\ \A a, b \in ToSet(template) \cup to_add : b \notin ConflictsWith[a]
  /\ to_add = {} => Conflicting \subseteq {calls[i].tx : i \in DOMAIN calls}
  /\ to_add # {} => \E t \in to_add : /\ to_add \ {t} \subseteq AncestorsMut(clone.txs, t)
                                      /\ Conflicting \subseteq clone.txs[t].conflicts_with

CInv == ~under_child => ConflictsOK

\* Removing a tx takes links away, never conflicts.
LEMMA RemoveInherits ==
  ASSUME NEW m, Typed(m), Childs(m), Linked(m), Inherits(m), NEW t
  PROVE  Inherits(MempoolRemove(m, t))
<1>1. CASE t \notin InPool(m)
  BY <1>1 DEF MempoolRemove
<1>2. CASE t \in InPool(m)
  <2> DEFINE n == MempoolRemove(m, t)
  <2>1. n.txs = RemoveLinks(m.txs, t) /\ InPool(n) = InPool(m) \ {t} /\ Linked(n)
    <3>1. n.txs = RemoveLinks(m.txs, t) /\ InPool(n) = InPool(m) \ {t}
      BY <1>2, RemoveTyped DEF MempoolRemove
    <3>2. Linked(n)
      BY RemoveLinked
    <3> QED BY <3>1, <3>2
  <2> HIDE DEF n
  <2>2. \A u \in InPool(n) : n.txs[u].conflicts_with = m.txs[u].conflicts_with
    <3>1. \A u \in DOMAIN m.txs \ {t} :
            RemoveLinks(m.txs, t)[u].conflicts_with = m.txs[u].conflicts_with
      BY DEF RemoveLinks, LinksWithout
    <3> QED BY <2>1, <3>1 DEF InPool
  <2>3. \A u \in InPool(n) : n.txs[u].depends \subseteq m.txs[u].depends \cap InPool(n)
    BY <2>1 DEF Linked
  <2>4. Inherits(n)
    BY <2>1, <2>2, <2>3 DEF Inherits
  <2> QED BY <2>4 DEF n
<1> QED BY <1>1, <1>2

\* A new tx takes over the conflicts of what it spends, and whoever is contested
\* is contested with all that spend from it.
LEMMA InsertInherits ==
  ASSUME NEW m, Typed(m), Childs(m), Linked(m), Inherits(m), NEW t \in Tx \ InPool(m),
         t \notin Vin[t], m.tx_childs[t] = {}
  PROVE  Inherits(MempoolInsert(m, t))
<1> DEFINE P == InPool(m)
           n == MempoolInsert(m, t)
           linked == InsertLinked(m, t)
<1>1. /\ n.txs = InsertTotals(linked, t) /\ InPool(n) = P \cup {t} /\ DOMAIN linked = P \cup {t}
      /\ P \subseteq Tx
  BY InsertTyped DEF MempoolInsert, InsertLinked, Typed
<1>2. \A u \in P : u # t /\ t \notin Vin[u] /\ Fields \subseteq DOMAIN m.txs[u]
  BY DEF Typed, Childs
<1>3. /\ linked[t].depends = Vin[t] \cap P /\ linked[t].spent_by = {}
      /\ linked[t].conflicts_with =
           ConflictsWith[t] \cup UNION {m.txs[d].conflicts_with : d \in Vin[t] \cap P}
  BY DEF InsertLinked, LinkChild
<1>4. ASSUME NEW u \in P
      PROVE  /\ linked[u].depends = Vin[u] \cap P
             /\ linked[u].spent_by = {c \in P \cup {t} : u \in Vin[c]}
             /\ linked[u].conflicts_with = m.txs[u].conflicts_with
  <2>1. m.txs[u].depends = Vin[u] \cap P /\ m.txs[u].spent_by = {c \in P : u \in Vin[c]}
    BY DEF Linked
  <2>2. CASE u \in Vin[t]
    BY <1>2, <2>1, <2>2 DEF InsertLinked, Fields
  <2>3. CASE u \notin Vin[t]
    BY <1>2, <2>1, <2>3 DEF InsertLinked, Fields
  <2> QED BY <2>2, <2>3
<1> HIDE DEF linked
<1> DEFINE contested == Contested(linked, t)
<1>5. \A u \in P \cup {t} :
        /\ n.txs[u].depends = linked[u].depends
        /\ n.txs[u].conflicts_with =
             linked[u].conflicts_with \cup (IF u \in contested THEN {t} ELSE {})
  <2>1. DescendantsMut(linked, t) = {}
    BY <1>1, <1>3, DescendantsMutLeast
  <2> QED BY <1>1, <2>1 DEF InsertTotals
<1> HIDE DEF n
<1>6. ASSUME NEW u \in P \cup {t}, NEW d \in Vin[u] \cap P, d \in contested
      PROVE  u \in contested
  <2>1. u \in linked[d].spent_by /\ d \in DOMAIN linked /\ u \in Tx
    BY <1>1, <1>4
  <2>2. PICK x \in ConflictsWith[t] \cap DOMAIN linked : d = x \/ d \in DescendantsMut(linked, x)
    BY <1>6 DEF Contested
  <2>3. u \in DescendantsMut(linked, x)
    BY <2>1, <2>2, DescendantsMutClosed
  <2> QED BY <2>2, <2>3 DEF Contested
<1> HIDE DEF contested
<1>7. ASSUME NEW u \in P \cup {t}
      PROVE  /\ linked[u].depends = Vin[u] \cap P
             /\ ConflictsWith[u] \subseteq linked[u].conflicts_with
             /\ \A d \in Vin[u] \cap P : linked[d].conflicts_with \subseteq linked[u].conflicts_with
  <2>1. CASE u = t
    BY <1>3, <1>4, <2>1
  <2>2. CASE u \in P
    BY <1>4, <2>2 DEF Inherits, Linked
  <2> QED BY <2>1, <2>2
<1> QED BY <1>1, <1>5, <1>6, <1>7 DEF n, Inherits

\* What t depends on, directly or not, brings no conflicts that t does not have.
LEMMA LeadInherits ==
  ASSUME NEW m, Typed(m), Linked(m), Inherits(m), NEW t \in InPool(m)
  PROVE  \A a \in {t} \cup AncestorsMut(m.txs, t) :
           a \in InPool(m) /\ ConflictsWith[a] \subseteq m.txs[t].conflicts_with
<1> DEFINE set == {a \in InPool(m) : m.txs[a].conflicts_with \subseteq m.txs[t].conflicts_with}
<1>1. set \in SUBSET Tx /\ t \in set
  BY DEF Typed
<1>2. \A y \in (set \cup {t}) \cap DOMAIN m.txs : m.txs[y].depends \subseteq set
  BY DEF Inherits, Linked
<1>3. AncestorsMut(m.txs, t) \subseteq set
  BY <1>1, <1>2, AncestorsMutLeast
<1> QED BY <1>1, <1>3 DEF Inherits

\* A package is one that the enforcer has found coherent.
LEMMA PackageCoherent ==
  ASSUME CoherentPackages, NEW m, Typed(m), Linked(m), NEW t \in InPool(m)
  PROVE  \A a, b \in {t} \cup AncestorsMut(m.txs, t) : b \notin ConflictsWith[a]
<1>1. /\ AncestorsIn(Tx, t) \in SUBSET Tx /\ t \in Tx
      /\ \A y \in AncestorsIn(Tx, t) \cup {t} : Vin[y] \cap Tx \subseteq AncestorsIn(Tx, t)
  BY AncestorsInClosed DEF Typed
<1>2. \A y \in (AncestorsIn(Tx, t) \cup {t}) \cap DOMAIN m.txs :
        m.txs[y].depends \subseteq AncestorsIn(Tx, t)
  BY <1>1 DEF Linked, Typed, InPool
<1>3. AncestorsMut(m.txs, t) \subseteq AncestorsIn(Tx, t)
  BY <1>1, <1>2, AncestorsMutLeast
<1> QED BY <1>1, <1>3 DEF CoherentPackages

\* A tx that depends on nothing goes, and no other ancestor is lost.
LEMMA LeadStays ==
  ASSUME NEW m, Typed(m), Childs(m), Linked(m), NEW t \in InPool(m),
         NEW u \in InPool(m) \ {t}, m.txs[u].depends = {}
  PROVE  AncestorsMut(MempoolRemove(m, u).txs, t) = AncestorsMut(m.txs, t) \ {u}
<1>1. /\ InPool(MempoolRemove(m, u)) = InPool(m) \ {u}
      /\ Typed(MempoolRemove(m, u)) /\ Linked(MempoolRemove(m, u))
  BY RemoveTyped, RemoveLinked
<1>2. Vin[u] \cap InPool(m) = {} /\ InPool(m) \in SUBSET Tx
  BY DEF Linked, Typed
<1>3. AncestorsIn(InPool(m) \ {u}, t) = AncestorsIn(InPool(m), t) \ {u}
  BY <1>2, AncestorsInWithout
<1> QED BY <1>1, <1>3, WalkFindsAncestors
\* Without a template there is nothing to conflict with.
LEMMA NoTemplateCInv ==
  ASSUME ~under_child => Inherits(pool) /\ Inherits(clone), template = << >>, to_add = {}
  PROVE  CInv
<1>1. ToSet(template) = {}
  BY DEF ToSet
<1> QED BY <1>1 DEF CInv, ConflictsOK, Conflicting

\* Initially both mempools are empty.
LEMMA InitCInv == Init => CInv
<1> SUFFICES ASSUME Init PROVE CInv
  OBVIOUS
<1>1. Inherits(EmptyMempool)
  BY EmptyOK DEF Inherits
<1> QED BY <1>1, NoTemplateCInv DEF Init

\* Steps outside a proposal that only prepare calls.
LEMMA PrepareCInv ==
  ASSUME IInv, CInv, ~proposing, UNCHANGED <<pool, clone, under_child, template, to_add>>
  PROVE  CInv'
<1>1. template' = << >> /\ to_add' = {}
  BY DEF IInv, ControlOK, ProposalOK
<1>2. ~under_child' => Inherits(pool)' /\ Inherits(clone)'
  BY DEF CInv, ConflictsOK, Inherits
<1>3. ToSet(template)' = {}
  BY <1>1 DEF ToSet
<1> QED BY <1>1, <1>2, <1>3 DEF CInv, ConflictsOK, Conflicting

\* A tx is added on top of what it spends.
LEMMA AddTxCInv ==
  ASSUME IInv, CInv, NEW t \in Tx, AddTx(t)
  PROVE  CInv'
<1>1. /\ ~proposing /\ (t \notin InPool(pool) => t \notin Vin[t])
      /\ pool' = MempoolInsert(pool, t) /\ clone' = clone
      /\ template' = template /\ to_add' = to_add
      /\ ~under_child' => ~under_child /\ (t \in InPool(pool) \/ pool.tx_childs[t] = {})
  BY DEF AddTx, Announced, Unlocked, proposalVars
<1>2. template' = << >> /\ to_add' = {}
  BY <1>1 DEF IInv, ControlOK, ProposalOK
<1>3. ASSUME ~under_child' PROVE Inherits(pool') /\ Inherits(clone')
  <2>1. /\ Typed(pool) /\ Childs(pool) /\ Linked(pool) /\ Inherits(pool) /\ Inherits(clone)
    BY <1>1, <1>3 DEF IInv, PoolsOK, ExactOK, CInv, ConflictsOK
  <2>2. CASE t \in InPool(pool)
    BY <1>1, <2>1, <2>2 DEF MempoolInsert
  <2>3. CASE t \notin InPool(pool)
    BY <1>1, <1>3, <2>1, <2>3, InsertInherits
  <2> QED BY <2>2, <2>3
<1>4. Inherits(pool)' = Inherits(pool') /\ Inherits(clone)' = Inherits(clone')
  BY DEF Inherits
<1>5. ToSet(template)' = {}
  BY <1>2 DEF ToSet
<1> QED BY <1>2, <1>3, <1>4, <1>5 DEF CInv, ConflictsOK, Conflicting

\* One removal: conflicts are inherited as before, and t is no longer in conflict.
LEMMA RunRemoveConflicts ==
  ASSUME PoolsOK, ExactOK, ProposalOK, CInv, ~under_child, NEW t, RunRemove(t), template' = template
  PROVE  /\ ~under_child' /\ Inherits(pool)' /\ Inherits(clone)'
         /\ Conflicting' = IF proposing THEN Conflicting \ {t} ELSE {}
<1>1. /\ PoolsOK /\ ExactOK /\ Inherits(pool) /\ Inherits(clone)
      /\ UNCHANGED <<under_child, proposing>>
  BY DEF CInv, ConflictsOK, RunRemove
<1>2. /\ Typed(pool) /\ Childs(pool) /\ Linked(pool)
      /\ Typed(clone) /\ Childs(clone) /\ Linked(clone)
  BY <1>1 DEF PoolsOK, ExactOK
<1>3. CASE proposing
  <2>1. clone' = MempoolRemove(clone, t) /\ pool' = pool
    BY <1>3 DEF RunRemove
  <2>2. Inherits(clone')
    BY <1>1, <1>2, <2>1, RemoveInherits
  <2>3. Inherits(clone)' /\ Inherits(pool)'
    BY <1>1, <2>1, <2>2 DEF Inherits
  <2>4. InPool(clone)' = InPool(clone) \ {t}
    BY <1>1, <1>3, RunRemoveStep
  <2> QED BY <1>1, <1>3, <2>3, <2>4 DEF Conflicting
<1>4. CASE ~proposing
  <2>1. pool' = MempoolRemove(pool, t) /\ clone' = clone
    BY <1>4 DEF RunRemove
  <2>2. Inherits(pool')
    BY <1>1, <1>2, <2>1, RemoveInherits
  <2>3. Inherits(clone)' /\ Inherits(pool)'
    BY <1>1, <2>1, <2>2 DEF Inherits
  <2>4. ToSet(template)' = {}
    BY <1>4 DEF ProposalOK, ToSet
  <2> QED BY <1>1, <1>4, <2>3, <2>4 DEF Conflicting
<1> QED BY <1>3, <1>4

\* Each call takes the tx that it is for out of the conflict.
LEMMA RemovalCInv ==
  ASSUME PoolsOK, ExactOK, ProposalOK, CInv, RunCall \/ \E t \in Tx : PopRemoveStack(t)
  PROVE  CInv'
<1> SUFFICES ASSUME ~under_child' PROVE ConflictsOK'
  BY DEF CInv
<1>1. to_add' = to_add /\ template' = template /\ under_child' = under_child /\ ~under_child
  BY DEF RunCall, PopRemoveStack, RunRemove
<1>2. to_add = {}
  BY DEF ProposalOK, RunCall, PopRemoveStack
<1>3. /\ \A a, b \in ToSet(template) \cup to_add : b \notin ConflictsWith[a]
      /\ Conflicting \subseteq {calls[i].tx : i \in DOMAIN calls}
  BY <1>1, <1>2 DEF CInv, ConflictsOK
<1>4. PICK t : RunRemove(t) /\ \/ calls' = calls
                               \/ calls # << >> /\ t = Head(calls).tx /\ calls' = Tail(calls)
  BY DEF RunCall, PopRemoveStack
<1>5. /\ Inherits(pool)' /\ Inherits(clone)'
      /\ Conflicting' \subseteq Conflicting \ {t}
  <2>1. /\ Inherits(pool)' /\ Inherits(clone)'
        /\ Conflicting' = IF proposing THEN Conflicting \ {t} ELSE {}
    BY <1>1, <1>4, RunRemoveConflicts
  <2> QED BY <2>1
<1>6. Conflicting' \subseteq {calls'[i].tx : i \in DOMAIN calls'}
  <2>1. CASE calls' = calls
    BY <1>3, <1>5, <2>1
  <2>2. CASE calls # << >> /\ t = Head(calls).tx /\ calls' = Tail(calls)
    <3> SUFFICES ASSUME NEW y \in Conflicting' PROVE \E i \in DOMAIN calls' : y = calls'[i].tx
      OBVIOUS
    <3>1. PICK i \in DOMAIN calls : y = calls[i].tx /\ y # t
      BY <1>3, <1>5
    <3>2. calls \in Seq(Calls)
      BY DEF ProposalOK
    <3>3. i # 1
      BY <2>2, <3>1, <3>2
    <3>4. i - 1 \in DOMAIN calls' /\ calls'[i - 1] = calls[i]
      BY <2>2, <3>1, <3>2, <3>3
    <3> QED BY <3>1, <3>4
  <2> QED BY <1>4, <2>1, <2>2
<1> QED BY <1>1, <1>2, <1>3, <1>5, <1>6 DEF ConflictsOK

\* A proposal begins with the conflicts of the mempool.
LEMMA StartProposalCInv ==
  ASSUME IInv, CInv, NEW limit, StartProposal(limit)
  PROVE  CInv'
<1>1. /\ template' = << >> /\ to_add' = {} /\ clone' = pool /\ pool' = pool
      /\ under_child' = under_child
  BY DEF StartProposal, poolVars, Unlocked, IInv, ControlOK, ProposalOK
<1>2. ~under_child' => Inherits(pool)' /\ Inherits(clone)'
  BY <1>1 DEF CInv, ConflictsOK, Inherits
<1>3. ToSet(template)' = {}
  BY <1>1 DEF ToSet
<1> QED BY <1>1, <1>2, <1>3 DEF CInv, ConflictsOK, Conflicting

\* It ends without any.
LEMMA FinishProposalCInv ==
  ASSUME IInv, CInv, FinishProposal
  PROVE  CInv'
<1>1. /\ template' = << >> /\ to_add' = {} /\ clone' = EmptyMempool /\ pool' = pool
      /\ under_child' = under_child
  BY DEF FinishProposal, poolVars
<1>2. ~under_child' => Inherits(pool)' /\ Inherits(clone)'
  BY <1>1, EmptyOK DEF CInv, ConflictsOK, Inherits
<1>3. ToSet(template)' = {}
  BY <1>1 DEF ToSet
<1> QED BY <1>1, <1>2, <1>3 DEF CInv, ConflictsOK, Conflicting

\* What the clone still holds conflicts with nothing that is in the template, and
\* the package not with itself.
LEMMA ChoosePackageCInv ==
  ASSUME MutualConflicts, CoherentPackages, PoolsOK, ExactOK, ProposalOK, CInv, ChoosePackage
  PROVE  CInv'
<1> SUFFICES ASSUME ~under_child' PROVE ConflictsOK'
  BY DEF CInv
<1>1. /\ calls = << >> /\ to_add = {} /\ ~under_child
      /\ UNCHANGED <<pool, clone, template>>
  BY DEF ChoosePackage, Proposes, poolVars
<1>2. PICK e \in Fitting :
        to_add' = ({e.txid} \cup AncestorsMut(clone.txs, e.txid)) \cap InPool(clone)
  BY DEF ChoosePackage
<1>3. Typed(clone) /\ Linked(clone) /\ Indexed(clone) /\ Inherits(clone) /\ Inherits(pool)
  BY <1>1 DEF PoolsOK, ExactOK, CInv, ConflictsOK
<1>4. PICK t \in InPool(clone) : e.txid = t
  BY <1>2, <1>3 DEF Fitting, Indexed, Entry
<1>5. to_add' = {t} \cup AncestorsMut(clone.txs, t)
  BY <1>2, <1>3, <1>4, LeadInherits
<1>6. \A a, b \in to_add' : b \notin ConflictsWith[a]
  BY <1>3, <1>5, PackageCoherent
<1>7. Conflicting = {} /\ \A a, b \in ToSet(template) : b \notin ConflictsWith[a]
  BY <1>1 DEF CInv, ConflictsOK
<1>8. to_add' \subseteq InPool(clone) /\ to_add' \subseteq Tx /\ ToSet(template) \subseteq Tx
  <2>1. template \in Seq(Tx)
    BY DEF ProposalOK
  <2>2. ToSet(template) \subseteq Tx
    BY <2>1 DEF ToSet
  <2> QED BY <1>2, <1>3, <2>2 DEF Typed
<1>9. \A a \in ToSet(template), b \in to_add' : b \notin ConflictsWith[a] /\ a \notin ConflictsWith[b]
  <2>1. \A a \in ToSet(template), b \in to_add' : b \notin ConflictsWith[a]
    BY <1>7, <1>8 DEF Conflicting
  <2> QED BY <1>8, <2>1 DEF MutualConflicts
<1>10. Conflicting' = {} /\ Inherits(pool)' /\ Inherits(clone)' /\ ToSet(template)' = ToSet(template)
  BY <1>1, <1>3, <1>7 DEF Conflicting, Inherits
<1>11. t \in to_add' /\ to_add' \ {t} \subseteq AncestorsMut(clone.txs, t)'
  BY <1>1, <1>5
<1>12. \A a, b \in ToSet(template)' \cup to_add' : b \notin ConflictsWith[a]
  BY <1>6, <1>7, <1>9, <1>10
<1> QED BY <1>10, <1>11, <1>12 DEF ConflictsOK

\* remove_with_descendants is called for each of the conflicts.
LEMMA DescendantsCallsAll ==
  ASSUME NEW S \in SUBSET Tx, NEW drops \in RemoveWithDescendantsCalls(S)
  PROVE  {drops[i].tx : i \in DOMAIN drops} = S
<1>1. PICK o \in SetToSeqs(S) : drops = [i \in DOMAIN o |-> RemoveWithDescendantsCall(o[i])]
  BY DEF RemoveWithDescendantsCalls
<1>2. ToSet(o) = S
  BY OrdersHoldAll
<1>3. DOMAIN drops = DOMAIN o /\ \A i \in DOMAIN o : drops[i].tx = o[i]
  BY <1>1 DEF RemoveWithDescendantsCall
<1> QED BY <1>2, <1>3 DEF ToSet

\* The tx that leads the package comes last, and its conflicts, which are those
\* of all the package, are removed then.
LEMMA AddFromPackageCInv ==
  ASSUME PoolsOK, ExactOK, ProposalOK, CInv, NEW u \in Tx, AddFromPackage(u)
  PROVE  CInv'
<1> SUFFICES ASSUME ~under_child' PROVE ConflictsOK'
  BY DEF CInv
<1>1. /\ proposing /\ calls = << >> /\ u \in to_add /\ clone.txs[u].depends = {}
      /\ RunRemove(u) /\ template' = Append(template, u) /\ to_add' = to_add \ {u}
      /\ clone' = MempoolRemove(clone, u) /\ pool' = pool /\ ~under_child
  BY DEF AddFromPackage, Proposes, RunRemove
<1>2. /\ Typed(clone) /\ Childs(clone) /\ Linked(clone) /\ Inherits(clone) /\ Inherits(pool)
      /\ to_add \subseteq InPool(clone) /\ template \in Seq(Tx) /\ PoolsOK /\ ExactOK
  BY <1>1 DEF PoolsOK, ExactOK, ProposalOK, CInv, ConflictsOK
<1>3. PICK t \in to_add : /\ to_add \ {t} \subseteq AncestorsMut(clone.txs, t)
                          /\ Conflicting \subseteq clone.txs[t].conflicts_with
  BY <1>1 DEF CInv, ConflictsOK
<1>4. Inherits(pool)' /\ Inherits(clone)'
  <2>1. Inherits(clone')
    BY <1>1, <1>2, RemoveInherits
  <2> QED BY <1>1, <1>2, <2>1 DEF Inherits
<1>5. InPool(clone)' = InPool(clone) \ {u}
  BY <1>1, <1>2, RunRemoveStep
<1>6. ToSet(template)' = ToSet(template) \cup {u}
  <2>1. /\ DOMAIN template = 1 .. Len(template) /\ Len(template) \in Nat
        /\ DOMAIN template' = 1 .. (Len(template) + 1)
        /\ template'[Len(template) + 1] = u
        /\ \A i \in 1 .. Len(template) : template'[i] = template[i]
    BY <1>1, <1>2
  <2> QED BY <2>1 DEF ToSet
<1>7. u \in {t} \cup AncestorsMut(clone.txs, t) /\ t \in InPool(clone)
  BY <1>1, <1>2, <1>3
<1>8. ConflictsWith[u] \subseteq clone.txs[t].conflicts_with
  BY <1>2, <1>7, LeadInherits
<1>9. Conflicting' \subseteq clone.txs[t].conflicts_with
  BY <1>3, <1>5, <1>6, <1>8 DEF Conflicting
<1>10. \A a, b \in ToSet(template)' \cup to_add' : b \notin ConflictsWith[a]
  <2>1. \A a, b \in ToSet(template) \cup to_add : b \notin ConflictsWith[a]
    BY <1>1 DEF CInv, ConflictsOK
  <2> QED BY <1>1, <1>6, <2>1
<1>11. CASE u = t
  <2>1. AncestorsMut(clone.txs, t) = {}
    BY <1>1, <1>11, AncestorsMutLeast
  <2>2. to_add' = {}
    BY <1>1, <1>3, <1>11, <2>1
  <2>3. calls' \in RemoveWithDescendantsCalls(clone.txs[t].conflicts_with)
    BY <1>11, <2>2 DEF AddFromPackage
  <2>4. {calls'[i].tx : i \in DOMAIN calls'} = clone.txs[t].conflicts_with
    BY <1>2, <1>7, <2>3, DescendantsCallsAll DEF Typed
  <2> QED BY <1>4, <1>9, <1>10, <2>2, <2>4 DEF ConflictsOK
<1>12. CASE u # t
  <2>1. t \in to_add'
    BY <1>1, <1>3, <1>12
  <2>2. AncestorsMut(clone'.txs, t) = AncestorsMut(clone.txs, t) \ {u}
    BY <1>1, <1>2, <1>7, <1>12, LeadStays
  <2>3. to_add' \ {t} \subseteq AncestorsMut(clone'.txs, t)
    BY <1>1, <1>3, <2>2
  <2>4. clone'.txs[t].conflicts_with = clone.txs[t].conflicts_with
    <3>1. t \in DOMAIN clone.txs \ {u} /\ u \in InPool(clone)
      BY <1>1, <1>2, <1>7, <1>12 DEF InPool
    <3>2. RemoveLinks(clone.txs, u)[t].conflicts_with = clone.txs[t].conflicts_with
      BY <3>1 DEF RemoveLinks, LinksWithout
    <3> QED BY <1>1, <3>1, <3>2 DEF MempoolRemove
  <2>5. Conflicting' \subseteq clone'.txs[t].conflicts_with
    BY <1>9, <2>4
  <2> QED BY <1>4, <1>10, <2>1, <2>3, <2>5 DEF ConflictsOK
<1> QED BY <1>11, <1>12

\* Every step keeps the invariant about conflicts.
LEMMA NextCInv ==
  ASSUME MutualConflicts, CoherentPackages
  PROVE  IInv /\ CInv /\ [Next]_vars => CInv'
<1> SUFFICES ASSUME IInv, CInv, [Next]_vars PROVE CInv'
  OBVIOUS
<1>1. ASSUME \/ \E t \in Tx : \/ RejectTx(t) \/ AddWithRejectedParent(t)
                              \/ Evict(t) \/ ApplyRemoved(t)
             \/ \E dropped \in SUBSET Dropped :
                  \/ DisconnectBlock(dropped)
                  \/ \E txs \in SUBSET Tx : ConnectBlock(txs, dropped)
             \/ \E txs \in SUBSET Tx : RejectBlock(txs)
      PROVE  CInv'
  <2>1. ~proposing /\ UNCHANGED <<pool, clone, under_child, template, to_add>>
    BY <1>1 DEF RejectTx, AddWithRejectedParent, Evict, ApplyRemoved, DisconnectBlock, ConnectBlock,
       RejectBlock, Mined, Announced, Unlocked, poolVars, proposalVars
  <2> QED BY <2>1, PrepareCInv
<1>2. CASE UNCHANGED vars
  <2>1. UNCHANGED <<pool, clone, under_child, template, to_add, calls>>
    BY <1>2 DEF vars, poolVars, proposalVars
  <2> QED BY <2>1 DEF CInv, ConflictsOK, Inherits, Conflicting
<1>3. PoolsOK /\ ExactOK /\ ProposalOK
  BY DEF IInv, ControlOK
<1> QED BY <1>1, <1>2, <1>3, AddTxCInv, RemovalCInv, StartProposalCInv, FinishProposalCInv,
           ChoosePackageCInv, AddFromPackageCInv DEF Next

\* No template holds two txs that the enforcer has named as conflicting, whatever
\* packages were chosen before and in whatever order: with a package go all txs
\* in conflict with any of it, with their descendants (mod.rs:887).  The enforcer
\* names conflicts both ways and accepts no tx that spends from conflicting ones;
\* propose_txs does not look for conflicts within a package.
THEOREM TemplateConflictFreeHolds ==
  ASSUME MutualConflicts, CoherentPackages
  PROVE  Spec => []TemplateConflictFree
<1>1. Init => CInv
  BY InitCInv
<1>2. IInv /\ CInv /\ [Next]_vars => CInv'
  BY NextCInv
<1>3. CInv => TemplateConflictFree
  BY DEF CInv, ConflictsOK, TemplateConflictFree
<1> QED BY <1>1, <1>2, <1>3, InvariantHolds, PTL DEF Spec

------------------------------------------------------------------------------
\* The prefix txs are inserted one by one.

\* A set of numbers up to n has a maximum.
LEMMA MaxOfNumbers ==
  ASSUME NEW n \in Nat, NEW s \in SUBSET (1 .. n), s # {}
  PROVE  Max(s) \in s /\ \A y \in s : Max(s) >= y
<1> DEFINE T == {k \in Nat : \A r \in SUBSET (1 .. k) :
                   r # {} => \E x \in r : \A y \in r : x >= y}
<1>1. 0 \in T
  <2>1. 1 .. 0 = {}
    OBVIOUS
  <2> QED BY <2>1
<1>2. ASSUME NEW k \in T PROVE k + 1 \in T
  <2> SUFFICES ASSUME NEW r \in SUBSET (1 .. (k + 1)), r # {}
               PROVE  \E x \in r : \A y \in r : x >= y
    OBVIOUS
  <2>1. CASE k + 1 \in r
    BY <2>1
  <2>2. CASE k + 1 \notin r
    <3>1. r \in SUBSET (1 .. k)
      BY <2>2
    <3> QED BY <3>1
  <2> QED BY <2>1, <2>2
<1>3. T \in SUBSET Nat
  OBVIOUS
<1> HIDE DEF T
<1>4. n \in T
  BY <1>1, <1>2, <1>3, NatInduct
<1>5. \E x \in s : \A y \in s : x >= y
  BY <1>4 DEF T
<1> QED BY <1>5 DEF Max

\* The fold is the last of the mempools that come about.
LEMMA InsertedOneByOne ==
  ASSUME NEW m, NEW p \in Seq(Tx)
  PROVE  \E g : /\ g[0] = m
                /\ \A k \in 1 .. Len(p) : g[k] = NoConflicts!MempoolInsert(g[k - 1], p[k])
                /\ FoldLeft(NoConflicts!MempoolInsert, m, p) = g[Len(p)]
<1> DEFINE S == 1 .. Len(p)
           Ins(t, n) == NoConflicts!MempoolInsert(n, t)
           Step(h, s) == IF s = {} THEN m ELSE Ins(p[Max(s)], h[s \ {Max(s)}])
           Eq(l) == l = [s \in SUBSET S |-> Step(l, s)]
           l == CHOOSE l : Eq(l)
           Up(n, h) == \A s \in SUBSET S : Cardinality(s) <= n => h[s] = Step(h, s)
           T == {n \in Nat : \E h : Up(n, h)}
<1>1. FoldLeft(NoConflicts!MempoolInsert, m, p) = l[S]
  <2>1. DOMAIN p = S
    OBVIOUS
  <2> QED BY <2>1 DEF FoldLeft, MapThenFoldSet
<1>2. Len(p) \in Nat /\ IsFiniteSet(S) /\ Cardinality(S) = Len(p)
  <2>1. Len(p) \in Nat
    OBVIOUS
  <2>2. IsFiniteSet(S) /\ Cardinality(S) = IF 1 > Len(p) THEN 0 ELSE Len(p) - 1 + 1
    BY <2>1, FS_Interval
  <2> HIDE DEF S
  <2> QED BY <2>1, <2>2
<1> HIDE DEF Ins
<1>3. ASSUME NEW s \in SUBSET S, s # {}
      PROVE  /\ Max(s) \in s /\ s \ {Max(s)} \in SUBSET S
             /\ Cardinality(s) \in Nat
             /\ Cardinality(s \ {Max(s)}) = Cardinality(s) - 1
  <2>1. IsFiniteSet(s)
    BY <1>2, FS_Subset
  <2>2. Max(s) \in s
    BY <1>2, <1>3, MaxOfNumbers
  <2> QED BY <2>1, <2>2, FS_RemoveElement, FS_CardinalityType
<1>4. 0 \in T
  <2> DEFINE h == [s \in SUBSET S |-> m]
  <2>1. \A s \in SUBSET S : Cardinality(s) <= 0 => s = {}
    <3> SUFFICES ASSUME NEW s \in SUBSET S, Cardinality(s) <= 0 PROVE s = {}
      OBVIOUS
    <3>1. IsFiniteSet(s)
      BY <1>2, FS_Subset
    <3> QED BY <3>1, FS_CardinalityType, FS_EmptySet
  <2>2. Up(0, h)
    BY <2>1
  <2> HIDE DEF h, Up
  <2> QED BY <2>2
<1>5. ASSUME NEW n \in T PROVE n + 1 \in T
  <2>1. PICK h : Up(n, h)
    OBVIOUS
  <2> DEFINE hh == [s \in SUBSET S |-> IF Cardinality(s) <= n THEN h[s] ELSE Step(h, s)]
  <2>2. ASSUME NEW s \in SUBSET S, Cardinality(s) <= n + 1
        PROVE  hh[s] = Step(hh, s)
    <3>1. hh[s] = Step(h, s)
      BY <2>1
    <3>2. CASE s = {}
      BY <3>1, <3>2
    <3>3. CASE s # {}
      <4>1. s \ {Max(s)} \in SUBSET S /\ Cardinality(s \ {Max(s)}) <= n
        BY <1>3, <2>2, <3>3
      <4>2. hh[s \ {Max(s)}] = h[s \ {Max(s)}]
        BY <4>1
      <4> QED BY <3>1, <3>3, <4>2
    <3> QED BY <3>2, <3>3
  <2> HIDE DEF hh, Step
  <2>3. Up(n + 1, hh)
    BY <2>2
  <2> HIDE DEF Up
  <2> QED BY <2>3
<1> HIDE DEF Up
<1>6. T \in SUBSET Nat
  OBVIOUS
<1> HIDE DEF T
<1>7. Len(p) \in T
  BY <1>2, <1>4, <1>5, <1>6, NatInduct
<1>8. PICK h : Up(Len(p), h)
  BY <1>7 DEF T
<1>9. \A s \in SUBSET S : h[s] = Step(h, s)
  <2>1. \A s \in SUBSET S : Cardinality(s) <= Len(p)
    BY <1>2, FS_Subset
  <2> QED BY <1>8, <2>1 DEF Up
<1>10. Eq([s \in SUBSET S |-> h[s]])
  <2> DEFINE hh == [s \in SUBSET S |-> h[s]]
  <2>1. ASSUME NEW s \in SUBSET S PROVE hh[s] = Step(hh, s)
    <3>1. CASE s = {}
      BY <1>9, <3>1
    <3>2. CASE s # {}
      <4>1. hh[s \ {Max(s)}] = h[s \ {Max(s)}]
        BY <1>3, <3>2
      <4> QED BY <1>9, <3>2, <4>1
    <3> QED BY <3>1, <3>2
  <2>2. hh = [s \in SUBSET S |-> hh[s]]
    OBVIOUS
  <2> HIDE DEF hh, Step
  <2>3. hh = [s \in SUBSET S |-> Step(hh, s)]
    BY <2>1, <2>2
  <2> QED BY <2>3 DEF hh
<1> HIDE DEF Step
<1>11. Eq(l)
  <2> HIDE DEF Eq
  <2> QED BY <1>10
<1>12. \A s \in SUBSET S : l[s] = Step(l, s)
  BY <1>11
<1> HIDE DEF l
<1> DEFINE g == [k \in 0 .. Len(p) |-> l[1 .. k]]
<1>13. g[0] = m
  <2>1. 1 .. 0 = {} /\ g[0] = l[1 .. 0]
    BY <1>2
  <2> QED BY <1>12, <2>1 DEF Step
<1>14. ASSUME NEW k \in 1 .. Len(p) PROVE g[k] = Ins(p[k], g[k - 1])
  <2>1. 1 .. k \in SUBSET S /\ k \in 1 .. k /\ (1 .. k) \ {k} = 1 .. (k - 1)
    BY <1>2
  <2>2. Max(1 .. k) = k
    <3>1. Max(1 .. k) \in 1 .. k /\ \A y \in 1 .. k : Max(1 .. k) >= y
      <4>1. k \in Nat
        BY <1>2
      <4>2. 1 .. k # {}
        BY <2>1
      <4> QED BY <4>1, <4>2, MaxOfNumbers
    <3> QED BY <2>1, <3>1
  <2>3. l[1 .. k] = Ins(p[k], l[1 .. (k - 1)])
    <3>1. l[1 .. k] = Step(l, 1 .. k)
      BY <1>12, <2>1
    <3> QED BY <2>1, <2>2, <3>1 DEF Step
  <2>4. k \in 0 .. Len(p) /\ k - 1 \in 0 .. Len(p)
    BY <1>2
  <2> QED BY <2>3, <2>4
<1>15. l[S] = g[Len(p)]
  BY <1>2
<1> HIDE DEF g
<1>16. \A k \in 1 .. Len(p) : g[k] = NoConflicts!MempoolInsert(g[k - 1], p[k])
  BY <1>14 DEF Ins
<1> QED BY <1>1, <1>13, <1>15, <1>16
------------------------------------------------------------------------------
\* try_filter inserts as the sync task does, but for the conflicts.
LEMMA SameWalks ==
  ASSUME NEW txs, NEW t
  PROVE  /\ NoConflicts!AncestorsMut(txs, t) = AncestorsMut(txs, t)
         /\ NoConflicts!DescendantsMut(txs, t) = DescendantsMut(txs, t)
BY DEF AncestorsMut, NoConflicts!AncestorsMut, DescendantsMut, NoConflicts!DescendantsMut,
       LeastClosed, NoConflicts!LeastClosed

\* Fees and weights add up alike.
LEMMA SameSums ==
  ASSUME NEW S
  PROVE  NoConflicts!TotalFee(S) = TotalFee(S) /\ NoConflicts!TotalWeight(S) = TotalWeight(S)
BY DEF TotalFee, NoConflicts!TotalFee, TotalWeight, NoConflicts!TotalWeight,
       MapThenSumSet, NoConflicts!MapThenSumSet, MapThenFoldSet, NoConflicts!MapThenFoldSet

\* The walks follow links only.
LEMMA WalksFollowLinks ==
  ASSUME NEW txs, NEW other, DOMAIN other = DOMAIN txs, NEW t,
         \A u \in DOMAIN txs : /\ other[u].depends = txs[u].depends
                               /\ other[u].spent_by = txs[u].spent_by
  PROVE  /\ AncestorsMut(other, t) = AncestorsMut(txs, t)
         /\ DescendantsMut(other, t) = DescendantsMut(txs, t)
<1> DEFINE Above(x) == {a \in Tx : \A s \in SUBSET Tx :
                          (\A b \in Tx : (\E z \in (s \cup {t}) \cap DOMAIN x : b \in x[z].depends)
                                           => b \in s) => a \in s}
           Below(x) == {a \in Tx : \A s \in SUBSET Tx :
                          (\A b \in Tx : (\E z \in (s \cup {t}) \cap DOMAIN x : b \in x[z].spent_by)
                                           => b \in s) => a \in s}
<1>1. /\ AncestorsMut(txs, t) = Above(txs) /\ AncestorsMut(other, t) = Above(other)
      /\ DescendantsMut(txs, t) = Below(txs) /\ DescendantsMut(other, t) = Below(other)
  BY DEF AncestorsMut, DescendantsMut, LeastClosed
<1>2. \A s, b : (\E z \in (s \cup {t}) \cap DOMAIN other : b \in other[z].depends)
                  <=> (\E z \in (s \cup {t}) \cap DOMAIN txs : b \in txs[z].depends)
  OBVIOUS
<1>3. \A s, b : (\E z \in (s \cup {t}) \cap DOMAIN other : b \in other[z].spent_by)
                  <=> (\E z \in (s \cup {t}) \cap DOMAIN txs : b \in txs[z].spent_by)
  OBVIOUS
<1>4. Above(other) = Above(txs)
  BY <1>2
<1>5. Below(other) = Below(txs)
  BY <1>3
<1> QED BY <1>1, <1>4, <1>5

\* Only conflicts make the two inserts differ.
LEMMA InsertAlike ==
  ASSUME NEW m, Typed(m), NEW t \in Tx, t \notin InPool(m)
  PROVE  LET n == MempoolInsert(m, t)
             o == NoConflicts!MempoolInsert(m, t)
         IN  /\ InPool(o) = InPool(n)
             /\ o.tx_childs = n.tx_childs
             /\ o.by_ancestor_fee_rate = n.by_ancestor_fee_rate
             /\ \A u \in InPool(n) :
                  /\ Fields \subseteq DOMAIN o.txs[u]
                  /\ o.txs[u].depends = n.txs[u].depends
                  /\ o.txs[u].spent_by = n.txs[u].spent_by
                  /\ o.txs[u].ancestor_fee = n.txs[u].ancestor_fee
                  /\ o.txs[u].ancestor_weight = n.txs[u].ancestor_weight
                  /\ o.txs[u].conflicts_with \in SUBSET Tx
             /\ \A u \in InPool(m) : o.txs[u].conflicts_with = m.txs[u].conflicts_with
<1> DEFINE n == MempoolInsert(m, t)
           o == NoConflicts!MempoolInsert(m, t)
           a == InsertLinked(m, t)
           b == NoConflicts!InsertLinked(m, t)
<1>1. /\ n.txs = InsertTotals(a, t) /\ n.tx_childs = LinkChild(m.tx_childs, t)
      /\ n.by_ancestor_fee_rate = m.by_ancestor_fee_rate \cup {Entry(n.txs, t)}
  BY DEF MempoolInsert
<1>2. /\ o.txs = NoConflicts!InsertTotals(b, t) /\ o.tx_childs = LinkChild(m.tx_childs, t)
      /\ o.by_ancestor_fee_rate = m.by_ancestor_fee_rate \cup {Entry(o.txs, t)}
  BY DEF NoConflicts!MempoolInsert, NoConflicts!InPool, InPool, NoConflicts!LinkChild, LinkChild,
         NoConflicts!Entry, Entry, NoConflicts!AncestorFeeRate, AncestorFeeRate,
         NoConflicts!VbytesCeil, VbytesCeil
<1>3. /\ DOMAIN a = InPool(m) \cup {t} /\ DOMAIN b = InPool(m) \cup {t}
      /\ \A u \in InPool(m) : u # t /\ Fields \subseteq DOMAIN m.txs[u]
  BY DEF InsertLinked, NoConflicts!InsertLinked, NoConflicts!InPool, InPool, Typed
<1>4. /\ Fields \subseteq DOMAIN b[t]
      /\ b[t].depends = a[t].depends /\ b[t].spent_by = a[t].spent_by
      /\ b[t].conflicts_with \in SUBSET Tx
  <2>1. b[t] = [depends |-> Vin[t] \cap InPool(m), spent_by |-> LinkChild(m.tx_childs, t)[t],
                conflicts_with |-> [x \in Tx |-> {}][t]
                   \cup UNION {m.txs[d].conflicts_with : d \in Vin[t] \cap InPool(m)},
                ancestor_fee |-> Fee[t], ancestor_weight |-> ModifiedWeight[t]]
    BY DEF NoConflicts!InsertLinked, NoConflicts!InPool, InPool, NoConflicts!LinkChild, LinkChild
  <2>2. a[t].depends = Vin[t] \cap InPool(m) /\ a[t].spent_by = LinkChild(m.tx_childs, t)[t]
    BY DEF InsertLinked
  <2>3. \A d \in Vin[t] \cap InPool(m) : m.txs[d].conflicts_with \in SUBSET Tx
    BY DEF Typed
  <2>4. b[t].conflicts_with = UNION {m.txs[d].conflicts_with : d \in Vin[t] \cap InPool(m)}
    BY <2>1
  <2> QED BY <2>1, <2>2, <2>3, <2>4 DEF Fields
<1>5. ASSUME NEW u \in InPool(m)
      PROVE  /\ b[u] = a[u]
             /\ Fields \subseteq DOMAIN b[u]
             /\ b[u].conflicts_with = m.txs[u].conflicts_with
  <2>1. CASE u \in Vin[t]
    <3>1. /\ b[u] = [m.txs[u] EXCEPT !.spent_by = @ \cup {t}]
          /\ a[u] = [m.txs[u] EXCEPT !.spent_by = @ \cup {t}]
      BY <1>3, <2>1 DEF InsertLinked, NoConflicts!InsertLinked, NoConflicts!InPool, InPool
    <3> QED BY <1>3, <3>1 DEF Fields
  <2>2. CASE u \notin Vin[t]
    <3>1. b[u] = m.txs[u] /\ a[u] = m.txs[u]
      BY <1>3, <2>2 DEF InsertLinked, NoConflicts!InsertLinked, NoConflicts!InPool, InPool
    <3> QED BY <1>3, <3>1
  <2> QED BY <2>1, <2>2
<1> HIDE DEF a, b
<1>6. /\ AncestorsMut(b, t) = AncestorsMut(a, t)
      /\ DescendantsMut(b, t) = DescendantsMut(a, t)
  <2>1. \A u \in DOMAIN a : b[u].depends = a[u].depends /\ b[u].spent_by = a[u].spent_by
    BY <1>3, <1>4, <1>5
  <2> QED BY <1>3, <2>1, WalksFollowLinks
<1>7. DOMAIN n.txs = InPool(m) \cup {t} /\ DOMAIN o.txs = InPool(m) \cup {t}
  BY <1>1, <1>2, <1>3 DEF InsertTotals, NoConflicts!InsertTotals
<1>8. ASSUME NEW u \in InPool(m) \cup {t}
      PROVE  /\ Fields \subseteq DOMAIN o.txs[u]
             /\ o.txs[u].depends = n.txs[u].depends
             /\ o.txs[u].spent_by = n.txs[u].spent_by
             /\ o.txs[u].ancestor_fee = n.txs[u].ancestor_fee
             /\ o.txs[u].ancestor_weight = n.txs[u].ancestor_weight
             /\ o.txs[u].conflicts_with = b[u].conflicts_with
  <2>1. /\ o.txs[u].depends = b[u].depends /\ o.txs[u].spent_by = b[u].spent_by
        /\ o.txs[u].ancestor_fee =
             IF u = t THEN Fee[t] + TotalFee(AncestorsMut(b, t))
             ELSE IF u \in DescendantsMut(b, t) THEN b[u].ancestor_fee + Fee[t]
             ELSE b[u].ancestor_fee
        /\ o.txs[u].ancestor_weight =
             IF u = t THEN ModifiedWeight[t] + TotalWeight(AncestorsMut(b, t))
             ELSE IF u \in DescendantsMut(b, t) THEN b[u].ancestor_weight + ModifiedWeight[t]
             ELSE b[u].ancestor_weight
        /\ Fields \subseteq DOMAIN o.txs[u]
    BY <1>2, <1>3, SameWalks, SameSums DEF NoConflicts!InsertTotals, Fields
  <2>2. o.txs[u].conflicts_with = b[u].conflicts_with
    <3>1. NoConflicts!Contested(b, t) = {}
      BY DEF NoConflicts!Contested
    <3>2. o.txs[u].conflicts_with =
            b[u].conflicts_with
              \cup (IF u \in NoConflicts!DescendantsMut(b, t) THEN [x \in Tx |-> {}][t] ELSE {})
              \cup (IF u \in NoConflicts!Contested(b, t) THEN {t} ELSE {})
      BY <1>2, <1>3 DEF NoConflicts!InsertTotals
    <3> QED BY <3>1, <3>2
  <2>3. /\ n.txs[u].depends = a[u].depends /\ n.txs[u].spent_by = a[u].spent_by
        /\ n.txs[u].ancestor_fee =
             IF u = t THEN Fee[t] + TotalFee(AncestorsMut(a, t))
             ELSE IF u \in DescendantsMut(a, t) THEN a[u].ancestor_fee + Fee[t]
             ELSE a[u].ancestor_fee
        /\ n.txs[u].ancestor_weight =
             IF u = t THEN ModifiedWeight[t] + TotalWeight(AncestorsMut(a, t))
             ELSE IF u \in DescendantsMut(a, t) THEN a[u].ancestor_weight + ModifiedWeight[t]
             ELSE a[u].ancestor_weight
    BY <1>1, <1>3 DEF InsertTotals
  <2> HIDE DEF n, o
  <2>4. CASE u = t
    BY <1>4, <1>6, <2>1, <2>2, <2>3, <2>4
  <2>5. CASE u # t
    BY <1>5, <1>6, <2>1, <2>2, <2>3, <2>5
  <2> QED BY <2>4, <2>5
<1>9. Entry(o.txs, t) = Entry(n.txs, t)
  BY <1>8 DEF Entry, AncestorFeeRate
<1>10. \A u \in InPool(m) \cup {t} : b[u].conflicts_with \in SUBSET Tx
  BY <1>4, <1>5 DEF Typed
<1>11. InPool(n) = InPool(m) \cup {t} /\ InPool(o) = InPool(m) \cup {t}
  BY <1>7 DEF InPool
<1> HIDE DEF n, o
<1> SUFFICES /\ InPool(o) = InPool(n)
             /\ o.tx_childs = n.tx_childs
             /\ o.by_ancestor_fee_rate = n.by_ancestor_fee_rate
             /\ \A u \in InPool(n) :
                  /\ Fields \subseteq DOMAIN o.txs[u]
                  /\ o.txs[u].depends = n.txs[u].depends
                  /\ o.txs[u].spent_by = n.txs[u].spent_by
                  /\ o.txs[u].ancestor_fee = n.txs[u].ancestor_fee
                  /\ o.txs[u].ancestor_weight = n.txs[u].ancestor_weight
                  /\ o.txs[u].conflicts_with \in SUBSET Tx
             /\ \A u \in InPool(m) : o.txs[u].conflicts_with = m.txs[u].conflicts_with
  BY DEF n, o
<1> QED BY <1>1, <1>2, <1>5, <1>8, <1>9, <1>10, <1>11
------------------------------------------------------------------------------
\* A mempool whose parts agree, with exact totals.
Sound(m) ==
  /\ Typed(m) /\ Childs(m) /\ Linked(m) /\ Indexed(m)
  /\ \A u \in InPool(m) : Exact(m, u)

\* A prefix tx joins such a mempool without harm, and brings no conflicts.
LEMMA InsertPrefix ==
  ASSUME NEW m, Sound(m), NEW t \in Tx \ InPool(m), t \notin Vin[t], m.tx_childs[t] = {}
  PROVE  /\ Sound(NoConflicts!MempoolInsert(m, t))
         /\ InPool(NoConflicts!MempoolInsert(m, t)) = InPool(m) \cup {t}
         /\ \A u \in InPool(m) :
              NoConflicts!MempoolInsert(m, t).txs[u].conflicts_with = m.txs[u].conflicts_with
<1> DEFINE n == MempoolInsert(m, t)
           o == NoConflicts!MempoolInsert(m, t)
<1>1. /\ Typed(m) /\ Childs(m) /\ Linked(m) /\ Indexed(m) /\ \A u \in InPool(m) : Exact(m, u)
  BY DEF Sound
<1>2. InPool(n) = InPool(m) \cup {t} /\ Typed(n) /\ Childs(n)
  BY <1>1, InsertTyped
<1>3. Linked(n) /\ Indexed(n)
  BY <1>1, InsertLinkedIndexed
<1>4. \A u \in InPool(n) : Exact(n, u)
  BY <1>1, InsertExact
<1>5. /\ InPool(o) = InPool(n)
      /\ o.tx_childs = n.tx_childs
      /\ o.by_ancestor_fee_rate = n.by_ancestor_fee_rate
      /\ \A u \in InPool(n) :
           /\ Fields \subseteq DOMAIN o.txs[u]
           /\ o.txs[u].depends = n.txs[u].depends
           /\ o.txs[u].spent_by = n.txs[u].spent_by
           /\ o.txs[u].ancestor_fee = n.txs[u].ancestor_fee
           /\ o.txs[u].ancestor_weight = n.txs[u].ancestor_weight
           /\ o.txs[u].conflicts_with \in SUBSET Tx
      /\ \A u \in InPool(m) : o.txs[u].conflicts_with = m.txs[u].conflicts_with
  BY <1>1, InsertAlike
<1> HIDE DEF n, o
<1>6. Typed(o) /\ Childs(o)
  BY <1>2, <1>5 DEF Typed, Childs
<1>7. Linked(o)
  BY <1>3, <1>5 DEF Linked
<1>8. Indexed(o)
  <2>1. \A u \in InPool(n) : Entry(o.txs, u) = Entry(n.txs, u)
    BY <1>5 DEF Entry, AncestorFeeRate
  <2> QED BY <1>3, <1>5, <2>1 DEF Indexed
<1>9. \A u \in InPool(o) : Exact(o, u)
  BY <1>4, <1>5 DEF Exact
<1> QED BY <1>2, <1>5, <1>6, <1>7, <1>8, <1>9 DEF Sound, o

\* So do all of them, one after the other, if each spends only those before it
\* and the mempool is closed under spending.
LEMMA InsertPrefixes ==
  ASSUME NEW m, Sound(m), \A u \in InPool(m) : Vin[u] \subseteq InPool(m),
         NEW p \in Seq(Tx), IsInjective(p),
         \A i \in DOMAIN p : Vin[p[i]] \subseteq {p[j] : j \in 1 .. (i - 1)},
         NEW filled, filled = FoldLeft(NoConflicts!MempoolInsert, m, p)
  PROVE  /\ Sound(filled)
         /\ InPool(filled) = InPool(m) \cup ToSet(p)
         /\ \A u \in InPool(m) : filled.txs[u].conflicts_with = m.txs[u].conflicts_with
<1>1. PICK g : /\ g[0] = m
               /\ \A k \in 1 .. Len(p) : g[k] = NoConflicts!MempoolInsert(g[k - 1], p[k])
               /\ filled = g[Len(p)]
  <2>1. PICK g : /\ g[0] = m
                 /\ \A k \in 1 .. Len(p) : g[k] = NoConflicts!MempoolInsert(g[k - 1], p[k])
                 /\ FoldLeft(NoConflicts!MempoolInsert, m, p) = g[Len(p)]
    BY InsertedOneByOne, Zenon
  <2>2. filled = g[Len(p)]
    BY <2>1, Zenon
  <2> QED BY <2>1, <2>2
<1>2. Len(p) \in Nat /\ DOMAIN p = 1 .. Len(p) /\ \A k \in 1 .. Len(p) : p[k] \in Tx
  OBVIOUS
<1> DEFINE Joined(k) == InPool(m) \cup {p[j] : j \in 1 .. k}
           OK(k) == /\ Sound(g[k])
                    /\ InPool(g[k]) = Joined(k)
                    /\ \A u \in InPool(m) : g[k].txs[u].conflicts_with = m.txs[u].conflicts_with
           T == {k \in Nat : k <= Len(p) => OK(k)}
<1>3. 0 \in T
  <2>1. 1 .. 0 = {}
    OBVIOUS
  <2> QED BY <1>1, <2>1
<1>4. ASSUME NEW k \in T PROVE k + 1 \in T
  <2> SUFFICES ASSUME k + 1 <= Len(p) PROVE OK(k + 1)
    OBVIOUS
  <2> DEFINE t == p[k + 1]
             h == g[k]
  <2>1. k \in Nat /\ k + 1 \in 1 .. Len(p) /\ k <= Len(p) /\ (k + 1) - 1 = k
    BY <1>2
  <2>2. t \in Tx /\ OK(k) /\ g[k + 1] = NoConflicts!MempoolInsert(h, t)
    BY <1>1, <1>2, <2>1
  <2>3. Joined(k + 1) = Joined(k) \cup {t}
    <3>1. 1 .. (k + 1) = (1 .. k) \cup {k + 1}
      BY <2>1
    <3> QED BY <3>1
  <2>4. CASE t \in InPool(h)
    <3>1. NoConflicts!MempoolInsert(h, t) = h
      BY <2>4 DEF NoConflicts!MempoolInsert, NoConflicts!InPool, InPool
    <3>2. Joined(k + 1) = Joined(k)
      BY <2>2, <2>3, <2>4
    <3> QED BY <2>2, <3>1, <3>2
  <2>5. CASE t \notin InPool(h)
    <3>1. \A i \in 1 .. (k + 1) : t \notin Vin[p[i]]
      <4> SUFFICES ASSUME NEW i \in 1 .. (k + 1), t \in Vin[p[i]] PROVE FALSE
        OBVIOUS
      <4>1. i \in DOMAIN p
        BY <1>2, <2>1
      <4>2. PICK j \in 1 .. (i - 1) : t = p[j]
        BY <4>1
      <4>3. j \in DOMAIN p /\ k + 1 \in DOMAIN p /\ j # k + 1
        BY <1>2, <2>1, <4>1
      <4> QED BY <4>2, <4>3 DEF IsInjective
    <3>2. \A u \in InPool(h) : t \notin Vin[u]
      <4> SUFFICES ASSUME NEW u \in InPool(h) PROVE t \notin Vin[u]
        OBVIOUS
      <4>1. u \in InPool(m) \/ \E j \in 1 .. k : u = p[j]
        BY <2>2
      <4>2. CASE u \in InPool(m)
        <5>1. Vin[u] \subseteq InPool(m) /\ InPool(m) \subseteq InPool(h)
          BY <2>2, <4>2
        <5> QED BY <2>5, <5>1
      <4>3. CASE \E j \in 1 .. k : u = p[j]
        <5>1. PICK j \in 1 .. k : u = p[j]
          BY <4>3
        <5>2. j \in 1 .. (k + 1)
          BY <2>1
        <5> QED BY <3>1, <5>1, <5>2
      <4> QED BY <4>1, <4>2, <4>3
    <3>3. t \notin Vin[t]
      BY <2>1, <3>1
    <3>4. h.tx_childs[t] = {}
      BY <2>2, <3>2 DEF Sound, Childs
    <3> HIDE DEF t, h, Joined
    <3>5. /\ Sound(NoConflicts!MempoolInsert(h, t))
          /\ InPool(NoConflicts!MempoolInsert(h, t)) = InPool(h) \cup {t}
          /\ \A u \in InPool(h) :
               NoConflicts!MempoolInsert(h, t).txs[u].conflicts_with = h.txs[u].conflicts_with
      <4>1. Sound(h)
        BY <2>2 DEF h
      <4> QED BY <2>2, <2>5, <3>3, <3>4, <4>1, InsertPrefix
    <3>6. InPool(m) \subseteq InPool(h)
      BY <2>2 DEF Joined, h
    <3> QED BY <2>2, <2>3, <3>5, <3>6 DEF h
  <2> QED BY <2>4, <2>5
<1>5. T \in SUBSET Nat
  OBVIOUS
<1> HIDE DEF T
<1>6. Len(p) \in T
  BY <1>2, <1>3, <1>4, <1>5, NatInduct
<1>7. OK(Len(p))
  BY <1>2, <1>6 DEF T
<1>8. {p[j] : j \in 1 .. Len(p)} = ToSet(p)
  BY <1>2 DEF ToSet
<1> QED BY <1>1, <1>7, <1>8
------------------------------------------------------------------------------
\* The weights by which packages are chosen.

\* The sums of weights.
LEMMA WeightGrows ==
  ASSUME NEW A \in SUBSET Tx, NEW B \in SUBSET Tx
  PROVE  /\ TotalWeight(A) \in Nat
         /\ A \subseteq B => TotalWeight(A) <= TotalWeight(B)
         /\ TotalWeight(A \cup B) <= TotalWeight(A) + TotalWeight(B)
<1>1. ModifiedWeight \in [Tx -> Nat]
  BY ModifiedWeightAssumption
<1>2. \A s : TotalWeight(s) = SumOver(ModifiedWeight, s)
  BY DEF TotalWeight, SumOver
<1>3. /\ SumOver(ModifiedWeight, A) \in Nat
      /\ A \subseteq B => SumOver(ModifiedWeight, A) <= SumOver(ModifiedWeight, B)
      /\ SumOver(ModifiedWeight, A \cup B)
           <= SumOver(ModifiedWeight, A) + SumOver(ModifiedWeight, B)
  BY <1>1, SumIsNat, SumGrows
<1> QED BY <1>2, <1>3

\* The same of what txs weigh in the block, which is less if none is made lighter.
LEMMA RealWeightGrows ==
  ASSUME NEW A \in SUBSET Tx, NEW B \in SUBSET Tx
  PROVE  /\ RealWeight(A) \in Nat
         /\ RealWeight(A \cup B) <= RealWeight(A) + RealWeight(B)
         /\ (\A t \in A : Weight[t] <= ModifiedWeight[t]) => RealWeight(A) <= TotalWeight(A)
<1>1. Weight \in [Tx -> Nat] /\ ModifiedWeight \in [Tx -> Nat]
  BY WeightAssumption, ModifiedWeightAssumption
<1>2. \A s : RealWeight(s) = SumOver(Weight, s) /\ TotalWeight(s) = SumOver(ModifiedWeight, s)
  BY DEF RealWeight, TotalWeight, SumOver
<1>3. /\ SumOver(Weight, A) \in Nat
      /\ SumOver(Weight, A \cup B) <= SumOver(Weight, A) + SumOver(Weight, B)
      /\ (\A t \in A : Weight[t] <= ModifiedWeight[t]) =>
           SumOver(Weight, A) <= SumOver(ModifiedWeight, A)
  BY <1>1, SumIsNat, SumGrows, SumPointwise
<1> QED BY <1>2, <1>3

\* The weight of a tx counts all that would come into a template with it.
Covers(m) ==
  \A u \in InPool(m) :
    /\ m.txs[u].ancestor_weight \in Nat
    /\ TotalWeight({u} \cup AncestorsIn(InPool(m), u)) <= m.txs[u].ancestor_weight

\* Exact totals do.
LEMMA SoundCovers ==
  ASSUME NEW m, Sound(m)
  PROVE  Covers(m)
<1> SUFFICES ASSUME NEW u \in InPool(m)
             PROVE  /\ m.txs[u].ancestor_weight \in Nat
                    /\ TotalWeight({u} \cup AncestorsIn(InPool(m), u)) <= m.txs[u].ancestor_weight
  BY DEF Covers
<1>1. m.txs[u].ancestor_weight = TotalWeight({u} \cup AncestorsIn(InPool(m), u))
  BY DEF Sound, Exact
<1>2. {u} \cup AncestorsIn(InPool(m), u) \in SUBSET Tx
  BY AncestorsInClosed DEF Sound, Typed
<1>3. TotalWeight({u} \cup AncestorsIn(InPool(m), u)) \in Nat
  BY <1>2, WeightGrows
<1> QED BY <1>1, <1>3

\* It does so whatever is removed, in whatever order: what lies behind a tx that
\* is gone may still be counted.
LEMMA RemoveCovers ==
  ASSUME NEW m, Typed(m), Childs(m), Linked(m), Covers(m), NEW x
  PROVE  Covers(MempoolRemove(m, x))
<1>1. CASE x \notin InPool(m)
  BY <1>1 DEF MempoolRemove
<1>2. CASE x \in InPool(m)
  <2> DEFINE P == InPool(m)
             n == MempoolRemove(m, x)
             below == DescendantsMut(m.txs, x)
  <2>1. n.txs = RemoveLinks(m.txs, x) /\ InPool(n) = P \ {x}
    BY <1>2, RemoveTyped DEF MempoolRemove
  <2> SUFFICES ASSUME NEW u \in P \ {x}
               PROVE  /\ n.txs[u].ancestor_weight \in Nat
                      /\ TotalWeight({u} \cup AncestorsIn(P \ {x}, u)) <= n.txs[u].ancestor_weight
    <3> HIDE DEF n, P
    <3> QED BY <2>1 DEF Covers, n
  <2> DEFINE A == AncestorsIn(P, u)
             B == AncestorsIn(P \ {x}, u)
             w == m.txs[u].ancestor_weight
  <2>2. P \in SUBSET Tx /\ u \in DOMAIN m.txs \ {x}
    BY DEF Typed, InPool
  <2>3. n.txs[u].ancestor_weight = IF u \in below THEN w - ModifiedWeight[x] ELSE w
    BY <2>1, <2>2 DEF RemoveLinks, LinksWithout
  <2>4. u \in below <=> x \in A
    BY <1>2, DescendantsDual
  <2>5. A \in SUBSET P /\ \A y \in A \cup {u} : Vin[y] \cap P \subseteq A
    BY <2>2, AncestorsInClosed
  <2>6. B \subseteq A \ {x}
    <3> DEFINE Q == P \ {x}
               S == A \ {x}
    <3>1. Q \in SUBSET Tx /\ S \in SUBSET Q /\ \A y \in S \cup {u} : Vin[y] \cap Q \subseteq S
      BY <2>2, <2>5
    <3> HIDE DEF Q, S
    <3>2. AncestorsIn(Q, u) \subseteq S
      BY <3>1, AncestorsInLeast
    <3> QED BY <3>2 DEF Q, S
  <2>7. w \in Nat /\ TotalWeight({u} \cup A) <= w
    BY DEF Covers
  <2> HIDE DEF n, P, below, A, B, w
  <2> DEFINE S == {u} \cup A
             R == {u} \cup B
  <2>8. S \in SUBSET Tx /\ R \in SUBSET (S \ {x})
    BY <2>2, <2>5, <2>6 DEF P
  <2> HIDE DEF S, R
  <2>9. R \in SUBSET Tx /\ R \subseteq S /\ S \ {x} \in SUBSET Tx
    BY <2>8
  <2>10. /\ TotalWeight(R) \in Nat /\ TotalWeight(S) \in Nat /\ TotalWeight(S \ {x}) \in Nat
         /\ TotalWeight(R) <= TotalWeight(S) /\ TotalWeight(R) <= TotalWeight(S \ {x})
    BY <2>8, <2>9, WeightGrows
  <2>11. TotalWeight(S) <= w
    BY <2>7 DEF S
  <2>12. /\ n.txs[u].ancestor_weight \in Nat
         /\ TotalWeight(R) <= n.txs[u].ancestor_weight
    <3>1. CASE x \in A
      <4>1. x \in S
        BY <3>1 DEF S
      <4>2. TotalWeight(S) = ModifiedWeight[x] + TotalWeight(S \ {x}) /\ ModifiedWeight[x] \in Nat
        BY <2>8, <4>1, TotalsWithout
      <4>3. n.txs[u].ancestor_weight = w - ModifiedWeight[x]
        BY <2>3, <2>4, <3>1
      <4> QED BY <2>7, <2>10, <2>11, <4>2, <4>3
    <3>2. CASE x \notin A
      BY <2>3, <2>4, <2>7, <2>10, <2>11, <3>2
    <3> QED BY <3>1, <3>2
  <2> QED BY <2>12 DEF R, B
<1> QED BY <1>1, <1>2
------------------------------------------------------------------------------
\* What the producer may ask for.

\* The txs of the producer, and those that may not come from the mempool.
Around == Prefix \cup ToSet(initial.suffix_txs)

Without == initial.exclude_mempool_txs \cup ToSet(initial.suffix_txs)

\* The parts of a template that keeps to the contract with a suffix.
LEMMA ContractParts ==
  ASSUME NEW t \in InitialTemplates, NEW suf \in Seq(Tx), KeepsContract(t, suf)
  PROVE  /\ t.prefix_txs \in Seq(Tx) /\ t.reserved \in Nat
         /\ t.exclude_mempool_txs \in SUBSET Tx /\ t.coinbase_txouts \in Seq(Nat)
         /\ IsInjective(t.prefix_txs) /\ IsInjective(suf)
         /\ ToSet(t.prefix_txs) \cap ToSet(suf) = {}
         /\ \A i \in DOMAIN t.prefix_txs :
              Vin[t.prefix_txs[i]] \subseteq {t.prefix_txs[j] : j \in 1 .. (i - 1)}
         /\ \A i \in DOMAIN suf :
              Vin[suf[i]] \subseteq ToSet(t.prefix_txs) \cup {suf[j] : j \in 1 .. (i - 1)}
         /\ \A a \in ToSet(t.prefix_txs) \cup ToSet(suf) :
              ConflictsWith[a] \subseteq t.exclude_mempool_txs
         /\ t.exclude_mempool_txs \cap (ToSet(t.prefix_txs) \cup ToSet(suf)) = {}
<1> DEFINE pre == t.prefix_txs
           around == pre \o suf
<1>1. /\ pre \in Seq(Tx) /\ suf \in Seq(Tx) /\ t.reserved \in Nat
      /\ t.exclude_mempool_txs \in SUBSET Tx /\ t.coinbase_txouts \in Seq(Nat)
  BY InitialTemplatesAssumption
<1>2. /\ IsInjective(around)
      /\ \A i \in DOMAIN around :
           /\ Vin[around[i]] \subseteq {around[j] : j \in 1 .. (i - 1)}
           /\ ConflictsWith[around[i]] \subseteq t.exclude_mempool_txs
      /\ t.exclude_mempool_txs \cap ToSet(around) = {}
  BY DEF KeepsContract
<1> HIDE DEF pre
<1>3. /\ Len(pre) \in Nat /\ Len(suf) \in Nat /\ DOMAIN pre = 1 .. Len(pre)
      /\ DOMAIN suf = 1 .. Len(suf) /\ DOMAIN around = 1 .. (Len(pre) + Len(suf))
  BY <1>1
<1>4. \A i \in DOMAIN pre : i \in DOMAIN around /\ around[i] = pre[i]
  BY <1>1, <1>3
<1>5. \A i \in DOMAIN suf : Len(pre) + i \in DOMAIN around /\ around[Len(pre) + i] = suf[i]
  BY <1>1, <1>3
<1> HIDE DEF around
<1>6. IsInjective(pre)
  BY <1>2, <1>4 DEF IsInjective
<1>7. IsInjective(suf)
  <2> SUFFICES ASSUME NEW i \in DOMAIN suf, NEW j \in DOMAIN suf, suf[i] = suf[j] PROVE i = j
    BY DEF IsInjective
  <2>1. Len(pre) + i = Len(pre) + j
    BY <1>2, <1>5 DEF IsInjective
  <2> QED BY <1>3, <2>1
<1>8. ToSet(pre) \cap ToSet(suf) = {}
  <2> SUFFICES ASSUME NEW i \in DOMAIN pre, NEW j \in DOMAIN suf, pre[i] = suf[j] PROVE FALSE
    BY DEF ToSet
  <2>1. i = Len(pre) + j
    BY <1>2, <1>4, <1>5 DEF IsInjective
  <2> QED BY <1>3, <2>1
<1>9. ASSUME NEW i \in DOMAIN pre
      PROVE  Vin[pre[i]] \subseteq {pre[j] : j \in 1 .. (i - 1)}
  <2>1. Vin[pre[i]] \subseteq {around[j] : j \in 1 .. (i - 1)}
    BY <1>2, <1>4
  <2>2. \A j \in 1 .. (i - 1) : around[j] = pre[j]
    BY <1>3, <1>4
  <2> QED BY <2>1, <2>2
<1>10. ASSUME NEW i \in DOMAIN suf
       PROVE  Vin[suf[i]] \subseteq ToSet(pre) \cup {suf[j] : j \in 1 .. (i - 1)}
  <2> SUFFICES ASSUME NEW a \in Vin[suf[i]], a \notin ToSet(pre)
               PROVE  \E j \in 1 .. (i - 1) : a = suf[j]
    OBVIOUS
  <2>1. Vin[suf[i]] \subseteq {around[j] : j \in 1 .. ((Len(pre) + i) - 1)}
    BY <1>2, <1>5
  <2>2. PICK j \in 1 .. ((Len(pre) + i) - 1) : a = around[j]
    BY <2>1
  <2>3. j \notin DOMAIN pre
    BY <1>4, <2>2 DEF ToSet
  <2>4. j - Len(pre) \in DOMAIN suf /\ j - Len(pre) \in 1 .. (i - 1) /\ Len(pre) + (j - Len(pre)) = j
    BY <1>3, <2>2, <2>3
  <2>5. around[j] = suf[j - Len(pre)]
    BY <1>5, <2>4
  <2> QED BY <2>2, <2>4, <2>5
<1>11. \A a \in ToSet(pre) \cup ToSet(suf) : \E i \in DOMAIN around : a = around[i]
  BY <1>4, <1>5 DEF ToSet
<1>12. \A i \in DOMAIN around : around[i] \in ToSet(around)
  BY DEF ToSet
<1>13. \A a \in ToSet(pre) \cup ToSet(suf) :
         ConflictsWith[a] \subseteq t.exclude_mempool_txs /\ a \notin t.exclude_mempool_txs
  BY <1>2, <1>11, <1>12
<1>14. \A i \in DOMAIN pre : Vin[pre[i]] \subseteq {pre[j] : j \in 1 .. (i - 1)}
  BY <1>9
<1>15. \A i \in DOMAIN suf : Vin[suf[i]] \subseteq ToSet(pre) \cup {suf[j] : j \in 1 .. (i - 1)}
  BY <1>10
<1> QED BY <1>1, <1>6, <1>7, <1>8, <1>13, <1>14, <1>15 DEF pre

\* The template that a producer asks for is one of those.
LEMMA InitialParts ==
  ASSUME ProducerContract, NEW t \in InitialTemplates
  PROVE  t.suffix_txs \in Seq(Tx) /\ KeepsContract(t, t.suffix_txs)
BY InitialTemplatesAssumption DEF ProducerContract

\* The prefix and what follows spend nothing of the mempool that is not theirs.
LEMMA AroundClosed ==
  ASSUME ProducerContract, initial \in InitialTemplates
  PROVE  /\ Prefix \in SUBSET Tx /\ Around \in SUBSET Tx /\ Without \in SUBSET Tx
         /\ \A a \in Prefix : Vin[a] \subseteq Prefix
         /\ \A a \in Around : Vin[a] \subseteq Around
<1>1. /\ initial.prefix_txs \in Seq(Tx) /\ initial.suffix_txs \in Seq(Tx)
      /\ initial.exclude_mempool_txs \in SUBSET Tx
      /\ \A i \in DOMAIN initial.prefix_txs :
              Vin[initial.prefix_txs[i]] \subseteq {initial.prefix_txs[j] : j \in 1 .. (i - 1)}
      /\ \A i \in DOMAIN initial.suffix_txs :
              Vin[initial.suffix_txs[i]] \subseteq
                Prefix \cup {initial.suffix_txs[j] : j \in 1 .. (i - 1)}
  BY InitialParts, ContractParts DEF Prefix
<1> DEFINE pre == initial.prefix_txs
           suf == initial.suffix_txs
<1>2. \A i \in DOMAIN pre : \A j \in 1 .. (i - 1) : j \in DOMAIN pre
  BY <1>1
<1>3. \A i \in DOMAIN suf : \A j \in 1 .. (i - 1) : j \in DOMAIN suf
  BY <1>1
<1>4. ToSet(pre) \in SUBSET Tx /\ ToSet(suf) \in SUBSET Tx
  BY <1>1 DEF ToSet
<1>5. \A a \in Prefix : Vin[a] \subseteq Prefix
  <2> SUFFICES ASSUME NEW i \in DOMAIN pre PROVE Vin[pre[i]] \subseteq ToSet(pre)
    BY DEF Prefix, ToSet
  <2>1. Vin[pre[i]] \subseteq {pre[j] : j \in 1 .. (i - 1)}
    BY <1>1
  <2>2. \A j \in 1 .. (i - 1) : pre[j] \in ToSet(pre)
    BY <1>2 DEF ToSet
  <2> QED BY <2>1, <2>2
<1>6. \A a \in ToSet(suf) : Vin[a] \subseteq Prefix \cup ToSet(suf)
  BY <1>1, <1>3 DEF ToSet
<1> QED BY <1>1, <1>4, <1>5, <1>6 DEF Around, Without, Prefix

------------------------------------------------------------------------------
\* The invariant of block templates.

\* The mempool between two templates.
PoolSound ==
  /\ chain = << >> /\ ~under_child /\ unfiltered_txs \subseteq InPool(pool)
  /\ Sound(pool) /\ Inherits(pool)
  /\ \A u \in InPool(pool) : Vin[u] \subseteq InPool(pool)
  /\ InPool(pool) \cap Generated = {}

\* The clone: what a tx of it spends is there, before it in the block, or the tx
\* goes as well.  Only prefix txs go alone.
CloneOK ==
  /\ Linked(clone) /\ Indexed(clone) /\ Covers(clone)
  /\ proposing =>
       /\ \A t \in InPool(clone) \ remove_stack :
            Vin[t] \subseteq InPool(clone) \cup ToSet(template) \cup Prefix
       /\ \A i \in DOMAIN calls : ~calls[i].with_descendants => calls[i].tx \in Prefix

\* try_filter takes out what comes around the mempool txs or is excluded.
FilterOK ==
  /\ template = << >> /\ to_add = {}
  /\ InPool(clone) \subseteq InPool(pool) \cup Prefix
  /\ InPool(clone) \cap (Prefix \cup Without) \subseteq {calls[i].tx : i \in DOMAIN calls}
  /\ \A t \in InPool(clone) \ Prefix : clone.txs[t].conflicts_with = pool.txs[t].conflicts_with

\* What propose_txs starts from.
BaseOK ==
  /\ Typed(base) /\ Linked(base)
  /\ InPool(base) \subseteq InPool(pool)
  /\ InPool(base) \cap (Prefix \cup Without) = {}
  /\ \A t \in InPool(base) : Vin[t] \subseteq InPool(base) \cup Prefix

\* The weight that the producer leaves to the mempool txs.
WeightLeft == IF InitialWeight <= MaxUsableWeight THEN MaxUsableWeight - InitialWeight ELSE 0

\* What is in the template, or about to be, has been paid for in weight.
WeightOK ==
  /\ weight_remaining \in Nat
  /\ weight_remaining + TotalWeight(ToSet(template) \cup to_add) <= WeightLeft

\* The txs of the template come from the clone, each once and after all that it
\* spends.
ChosenOK ==
  /\ InPool(clone) \cup ToSet(template) \subseteq InPool(base)
  /\ InPool(clone) \cap ToSet(template) = {}
  /\ IsInjective(template)
  /\ \A i \in DOMAIN template : Vin[template[i]] \subseteq Before(i) \cup Prefix

\* Which stage has what.
StageOK ==
  /\ stage \in {"idle", "filter", "propose", "filled", "failed"}
  /\ proposing <=> stage \in {"filter", "propose"}
  /\ ~proposing => calls = << >> /\ remove_stack = {}
  /\ stage # "failed" => error = "none"
  /\ stage # "filled" => block = EmptyBlock
  /\ stage # "idle" => initial \in InitialTemplates

BlockInv ==
  /\ PoolSound /\ PoolsOK /\ ProposalOK /\ CloneOK /\ StageOK
  /\ stage = "filter" => FilterOK
  /\ stage = "propose" => BaseOK /\ WeightOK /\ ChosenOK /\ ConflictsOK
  /\ stage = "filled" => BlockValid /\ BlockFits /\ DependsSound

\* An empty block breaks nothing.
LEMMA BlockInvImplies ==
  ASSUME BlockInv
  PROVE  BlockValid /\ BlockFits /\ DependsSound
<1>1. CASE stage = "filled"
  BY <1>1 DEF BlockInv
<1>2. CASE stage # "filled"
  <2>1. DOMAIN block.txs = {}
    BY <1>2 DEF BlockInv, StageOK, EmptyBlock
  <2>2. BlockValid
    BY <1>2, <2>1 DEF BlockValid, IsInjective
  <2>3. BlockFits
    BY <1>2 DEF BlockFits
  <2>4. DependsSound
    BY <2>1 DEF DependsSound
  <2> QED BY <2>2, <2>3, <2>4
<1> QED BY <1>1, <1>2

\* Nothing is there at first.
LEMMA BlockInitInv == BlockInit => BlockInv
<1> SUFFICES ASSUME BlockInit PROVE BlockInv
  OBVIOUS
<1> USE DEF BlockInit, Init
<1>1. InPool(EmptyMempool) = {}
  BY EmptyOK
<1>2. PoolSound
  BY <1>1, EmptyOK DEF PoolSound, Sound, Inherits
<1>3. PoolsOK /\ ProposalOK
  BY <1>1, EmptyOK DEF PoolsOK, ProposalOK
<1>4. CloneOK
  BY <1>1, EmptyOK DEF CloneOK, Covers
<1>5. StageOK
  BY DEF StageOK
<1> QED BY <1>2, <1>3, <1>4, <1>5 DEF BlockInv

\* While a template is made no call has failed.
LEMMA BlockExact ==
  ASSUME BlockInv, stage # "failed"
  PROVE  ExactOK
BY DEF BlockInv, PoolSound, Sound, CloneOK, StageOK, ExactOK
------------------------------------------------------------------------------
\* Each step keeps it: the beginning.

\* Steps that do not touch the block: nothing is there to break.
LEMMA NothingFilled ==
  ASSUME PoolSound', PoolsOK', ProposalOK', CloneOK', StageOK',
         stage' = "filter" => FilterOK',
         stage' = "propose" => BaseOK' /\ WeightOK' /\ ChosenOK' /\ ConflictsOK',
         stage' # "filled"
  PROVE  BlockInv'
BY DEF BlockInv

\* A tx that is new comes on top of the mempool.
LEMMA AddsTxKeeps ==
  ASSUME BlockInv, NEW t \in Tx, AddsTx(t)
  PROVE  BlockInv'
<1>1. /\ stage = "idle" /\ t \notin Generated /\ ~proposing
      /\ t \notin unfiltered_txs
      /\ Vin[t] \subseteq unfiltered_txs \cup InPool(pool) \cup ConfirmedTxs
      /\ unfiltered_txs' = unfiltered_txs \cup {t}
      /\ pool' = MempoolInsert(pool, t)
      /\ under_child' = (under_child \/ (t \notin InPool(pool) /\ pool.tx_childs[t] # {}))
      /\ UNCHANGED <<chain, calls, remove_stack, error, proposing, clone, weight_limit,
                     weight_remaining, to_add, template, stage, initial, base, block>>
  BY DEF AddsTx, AddTx, Announced, Unlocked, proposalVars, blockVars
<1>2. PoolSound /\ PoolsOK /\ ProposalOK /\ CloneOK /\ StageOK
  BY DEF BlockInv
<1>3. Vin[t] \subseteq InPool(pool)
  <2>1. ToSet(chain) = {}
    BY <1>2 DEF PoolSound, ToSet
  <2>2. ConfirmedTxs = {}
    BY <2>1 DEF ConfirmedTxs
  <2> QED BY <1>1, <1>2, <2>2 DEF PoolSound
<1>4. t \notin InPool(pool) => t \notin Vin[t] /\ pool.tx_childs[t] = {}
  BY <1>2, <1>3 DEF PoolSound, Sound, Childs
<1>5. /\ Typed(pool) /\ Childs(pool) /\ Linked(pool) /\ Indexed(pool) /\ Inherits(pool)
      /\ \A u \in InPool(pool) : Exact(pool, u)
  BY <1>2 DEF PoolSound, Sound
<1>6. InPool(pool') = InPool(pool) \cup {t} /\ Typed(pool') /\ Childs(pool')
  BY <1>1, <1>5, InsertTyped
<1>7. Linked(pool') /\ Indexed(pool')
  BY <1>1, <1>4, <1>5, InsertLinkedIndexed
<1>8. \A u \in InPool(pool') : Exact(pool', u)
  BY <1>1, <1>4, <1>5, InsertExact
<1>9. Inherits(pool')
  <2>1. CASE t \in InPool(pool)
    BY <1>1, <1>5, <2>1 DEF MempoolInsert
  <2>2. CASE t \notin InPool(pool)
    BY <1>1, <1>4, <1>5, <2>2, InsertInherits
  <2> QED BY <2>1, <2>2
<1>10. Sound(pool')
  BY <1>6, <1>7, <1>8 DEF Sound
<1>11. PoolSound'
  BY <1>1, <1>2, <1>3, <1>4, <1>6, <1>9, <1>10 DEF PoolSound
<1>12. PoolsOK' /\ ProposalOK'
  BY <1>1, <1>2, <1>6 DEF PoolsOK, ProposalOK
<1>13. CloneOK'
  BY <1>1, <1>2 DEF CloneOK
<1>14. StageOK'
  BY <1>1, <1>2 DEF StageOK
<1> QED BY <1>1, <1>11, <1>12, <1>13, <1>14, NothingFilled

\* The calls of try_filter are for all that has to go, and only the prefix txs
\* go alone.
LEMMA FilterCallsRight ==
  ASSUME NEW P \in SUBSET Tx, NEW W \in SUBSET Tx, NEW cs \in FilterCalls(P, W)
  PROVE  /\ cs \in Seq(Calls)
         /\ P \cup W \subseteq {cs[i].tx : i \in DOMAIN cs}
         /\ \A i \in DOMAIN cs : ~cs[i].with_descendants => cs[i].tx \in P
<1>1. PICK p \in SetToSeqs(P), w \in RemoveWithDescendantsCalls(W) : cs = RemoveCalls(p) \o w
  BY DEF FilterCalls
<1>2. /\ p \in Seq(P) /\ DOMAIN p = 1 .. Len(p) /\ ToSet(p) = P /\ Len(p) \in Nat
  BY OrdersAreSequences, OrdersHoldAll
<1>3. /\ RemoveCalls(p) \in Seq(Calls) /\ Len(RemoveCalls(p)) = Len(p)
      /\ \A i \in DOMAIN p : RemoveCalls(p)[i].tx = p[i]
  <2>1. RemoveCalls(p) \in Seq(Calls)
    BY OrderedCalls
  <2>2. DOMAIN RemoveCalls(p) = 1 .. Len(p)
    BY <1>2 DEF RemoveCalls
  <2>3. Len(RemoveCalls(p)) = Len(p)
    BY <1>2, <2>1, <2>2
  <2>4. \A i \in DOMAIN p : RemoveCalls(p)[i].tx = p[i]
    BY <1>2 DEF RemoveCalls, RemoveCall
  <2> QED BY <2>1, <2>3, <2>4
<1>4. /\ w \in Seq(Calls) /\ \A i \in DOMAIN w : w[i].with_descendants
      /\ {w[i].tx : i \in DOMAIN w} = W
  BY DescendantsCalls, DescendantsCallsAll
<1> DEFINE r == RemoveCalls(p)
<1>5. r \in Seq(Calls) /\ Len(r) = Len(p) /\ \A i \in DOMAIN p : r[i].tx = p[i]
  BY <1>3
<1> HIDE DEF r
<1>6. cs = r \o w /\ cs \in Seq(Calls)
  BY <1>1, <1>4, <1>5 DEF r
<1>7. /\ DOMAIN cs = 1 .. (Len(p) + Len(w)) /\ Len(w) \in Nat /\ DOMAIN w = 1 .. Len(w)
      /\ \A i \in DOMAIN p : i \in DOMAIN cs /\ cs[i] = r[i]
      /\ \A i \in DOMAIN w : Len(p) + i \in DOMAIN cs /\ cs[Len(p) + i] = w[i]
      /\ \A i \in DOMAIN cs : i \notin DOMAIN p => i - Len(p) \in DOMAIN w /\ cs[i] = w[i - Len(p)]
  <2>1. /\ r \in Seq(Calls) /\ w \in Seq(Calls) /\ Len(r) = Len(p) /\ cs = r \o w
        /\ DOMAIN p = 1 .. Len(r) /\ Len(r) \in Nat /\ Len(w) \in Nat /\ DOMAIN w = 1 .. Len(w)
    BY <1>2, <1>4, <1>5, <1>6
  <2>2. DOMAIN cs = 1 .. (Len(p) + Len(w))
    <3>1. Len(r \o w) = Len(r) + Len(w) /\ r \o w \in Seq(Calls)
      BY <2>1
    <3>2. DOMAIN cs = 1 .. Len(cs)
      BY <1>6
    <3> QED BY <2>1, <3>1, <3>2
  <2>3. \A i \in DOMAIN p : i \in DOMAIN cs /\ cs[i] = r[i]
    BY <2>1
  <2>4. \A i \in DOMAIN w : Len(p) + i \in DOMAIN cs /\ cs[Len(p) + i] = w[i]
    BY <2>1
  <2>5. \A i \in DOMAIN cs : i \notin DOMAIN p => i - Len(p) \in DOMAIN w /\ cs[i] = w[i - Len(p)]
    BY <2>1
  <2> QED BY <2>1, <2>2, <2>3, <2>4, <2>5
<1>8. \A i \in DOMAIN p : p[i] \in P
  BY <1>2
<1>9. \A x \in P : \E i \in DOMAIN p : x = p[i]
  BY <1>2 DEF ToSet
<1>10. \A x \in P : \E i \in DOMAIN cs : x = cs[i].tx
  BY <1>5, <1>7, <1>9
<1>11. \A x \in W : \E i \in DOMAIN cs : x = cs[i].tx
  BY <1>4, <1>7
<1>12. \A i \in DOMAIN cs : ~cs[i].with_descendants => cs[i].tx \in P
  BY <1>4, <1>5, <1>7, <1>8
<1> QED BY <1>6, <1>10, <1>11, <1>12

\* A template begins with the mempool and the prefix.
LEMMA StartTemplateKeeps ==
  ASSUME ProducerContract, BlockInv, NEW t \in InitialTemplates, StartTemplate(t)
  PROVE  BlockInv'
<1> DEFINE pre == ToSet(t.prefix_txs)
           filled == FoldLeft(NoConflicts!MempoolInsert, pool, t.prefix_txs)
           without == t.exclude_mempool_txs \cup ToSet(t.suffix_txs)
<1>1. /\ stage = "idle" /\ ~proposing /\ calls = << >> /\ remove_stack = {} /\ error = "none"
      /\ stage' = "filter" /\ initial' = t /\ proposing' /\ clone' = filled
      /\ calls' \in FilterCalls(pre, (without \cap InPool(filled)) \ pre)
      /\ UNCHANGED <<chain, unfiltered_txs, pool, under_child, remove_stack, error, to_add,
                     template, base, block>>
  BY DEF StartTemplate, Unlocked, callerVars, poolVars
<1>2. PoolSound /\ PoolsOK /\ ProposalOK /\ CloneOK /\ StageOK
  BY DEF BlockInv
<1>3. /\ t.prefix_txs \in Seq(Tx) /\ IsInjective(t.prefix_txs)
      /\ \A i \in DOMAIN t.prefix_txs :
              Vin[t.prefix_txs[i]] \subseteq {t.prefix_txs[j] : j \in 1 .. (i - 1)}
      /\ pre \in SUBSET Tx /\ without \in SUBSET Tx
  <2>1. /\ t.prefix_txs \in Seq(Tx) /\ t.suffix_txs \in Seq(Tx)
        /\ t.exclude_mempool_txs \in SUBSET Tx /\ IsInjective(t.prefix_txs)
        /\ \A i \in DOMAIN t.prefix_txs :
              Vin[t.prefix_txs[i]] \subseteq {t.prefix_txs[j] : j \in 1 .. (i - 1)}
    BY InitialParts, ContractParts
  <2>2. \A s \in Seq(Tx) : ToSet(s) \subseteq Tx
    BY DEF ToSet
  <2> QED BY <2>1, <2>2
<1>4. /\ Sound(filled) /\ InPool(filled) = InPool(pool) \cup pre
      /\ \A u \in InPool(pool) : filled.txs[u].conflicts_with = pool.txs[u].conflicts_with
  <2>1. Sound(pool) /\ \A u \in InPool(pool) : Vin[u] \subseteq InPool(pool)
    BY <1>2 DEF PoolSound
  <2> QED BY <1>3, <2>1, InsertPrefixes
<1>5. \A a \in pre : Vin[a] \subseteq pre
  <2>1. ASSUME NEW i \in DOMAIN t.prefix_txs PROVE Vin[t.prefix_txs[i]] \subseteq pre
    <3>1. \A j \in 1 .. (i - 1) : j \in DOMAIN t.prefix_txs
      BY <1>3
    <3> QED BY <1>3, <3>1 DEF ToSet
  <2> QED BY <2>1 DEF ToSet
<1>6. Prefix' = pre /\ Without' = without
  BY <1>1 DEF Prefix, Without
<1> HIDE DEF filled, pre, without
<1> DEFINE W == (without \cap InPool(filled)) \ pre
<1>7. /\ calls' \in Seq(Calls)
      /\ pre \cup W \subseteq {calls'[i].tx : i \in DOMAIN calls'}
      /\ \A i \in DOMAIN calls' : ~calls'[i].with_descendants => calls'[i].tx \in pre
  <2>1. W \in SUBSET Tx
    BY <1>3
  <2>2. calls' \in FilterCalls(pre, W)
    BY <1>1
  <2> HIDE DEF W
  <2> QED BY <1>3, <2>1, <2>2, FilterCallsRight
<1>8. template' = << >> /\ to_add' = {} /\ template = << >> /\ to_add = {}
  BY <1>1, <1>2 DEF ProposalOK
<1>9. PoolSound'
  BY <1>1, <1>2 DEF PoolSound
<1>10. PoolsOK'
  BY <1>1, <1>2, <1>4 DEF PoolsOK, Sound
<1>11. ProposalOK'
  BY <1>1, <1>7, <1>8 DEF ProposalOK
<1>12. CloneOK'
  <2>1. Linked(clone') /\ Indexed(clone') /\ Covers(clone')
    BY <1>1, <1>4, SoundCovers DEF Sound
  <2>2. \A u \in InPool(clone') : Vin[u] \subseteq InPool(clone')
    BY <1>1, <1>2, <1>4, <1>5 DEF PoolSound
  <2> QED BY <1>6, <1>7, <2>1, <2>2 DEF CloneOK
<1>13. StageOK'
  BY <1>1, <1>2 DEF StageOK
<1>14. FilterOK'
  <2>1. InPool(clone') \subseteq InPool(pool') \cup pre
    BY <1>1, <1>4
  <2>2. InPool(clone') \cap (pre \cup without) \subseteq {calls'[i].tx : i \in DOMAIN calls'}
    BY <1>1, <1>7
  <2>3. \A u \in InPool(clone') \ pre : clone'.txs[u].conflicts_with = pool'.txs[u].conflicts_with
    BY <1>1, <1>4
  <2> QED BY <1>6, <1>8, <2>1, <2>2, <2>3 DEF FilterOK
<1> QED BY <1>1, <1>9, <1>10, <1>11, <1>12, <1>13, <1>14, NothingFilled
------------------------------------------------------------------------------
\* Removals from the clone, by try_filter and by propose_txs.

\* A tx goes, and with it or after it what spends it, unless it is a prefix tx.
LEMMA CloneRemoval ==
  ASSUME PoolsOK, ExactOK, ProposalOK, CloneOK, ~under_child, proposing,
         RunCall \/ \E t \in Tx : PopRemoveStack(t), UNCHANGED blockVars
  PROVE  /\ PoolsOK' /\ ExactOK' /\ ProposalOK' /\ CloneOK'
         /\ to_add = {}
         /\ UNCHANGED <<chain, unfiltered_txs, pool, under_child, proposing, weight_remaining,
                        to_add, template>>
         /\ \E t : /\ clone' = MempoolRemove(clone, t)
                   /\ InPool(clone)' = InPool(clone) \ {t}
                   /\ \A i \in DOMAIN calls :
                        calls[i].tx # t => calls[i].tx \in {calls'[j].tx : j \in DOMAIN calls'}
<1>1. /\ UNCHANGED <<chain, unfiltered_txs, under_child, proposing, weight_remaining,
                     to_add, template, initial>>
      /\ to_add = {}
  BY DEF RunCall, PopRemoveStack, RunRemove, callerVars, blockVars, ProposalOK
<1>2. PICK t \in Tx : /\ RunRemove(t)
                      /\ remove_stack \ {t} \subseteq remove_stack'
                      /\ t \in Prefix \/ RemainingChilds(t) \subseteq remove_stack'
                      /\ calls' \in Seq(Calls)
                      /\ \A i \in DOMAIN calls' : \E j \in DOMAIN calls : calls'[i] = calls[j]
                      /\ \A i \in DOMAIN calls :
                           calls[i].tx # t => calls[i].tx \in {calls'[j].tx : j \in DOMAIN calls'}
  <2>1. CASE RunCall
    <3> DEFINE call == Head(calls)
    <3>1. /\ calls # << >> /\ remove_stack = {} /\ RunRemove(call.tx) /\ calls' = Tail(calls)
          /\ remove_stack' = IF call.with_descendants THEN RemainingChilds(call.tx) ELSE {}
      BY <2>1 DEF RunCall
    <3>2. calls \in Seq(Calls) /\ call = calls[1] /\ 1 \in DOMAIN calls
      BY <3>1 DEF ProposalOK
    <3>3. call \in Calls /\ calls' \in Seq(Calls)
      BY <3>1, <3>2, HeadTailProperties
    <3>4. call.tx \in Prefix \/ call.with_descendants
      BY <3>2 DEF CloneOK
    <3>5. \A i \in DOMAIN calls' : i + 1 \in DOMAIN calls /\ calls'[i] = calls[i + 1]
      BY <3>1, <3>2
    <3>6. \A i \in DOMAIN calls : i = 1 \/ (i - 1 \in DOMAIN calls' /\ calls'[i - 1] = calls[i])
      BY <3>1, <3>2
    <3>7. call.tx \in Tx
      BY <3>3 DEF Calls
    <3> HIDE DEF call
    <3>8. \A i \in DOMAIN calls :
            calls[i].tx # call.tx => calls[i].tx \in {calls'[j].tx : j \in DOMAIN calls'}
      BY <3>2, <3>6
    <3>9. \A i \in DOMAIN calls' : \E j \in DOMAIN calls : calls'[i] = calls[j]
      BY <3>5
    <3>10. /\ remove_stack \ {call.tx} \subseteq remove_stack'
           /\ call.tx \in Prefix \/ RemainingChilds(call.tx) \subseteq remove_stack'
      BY <3>1, <3>4
    <3> QED BY <3>1, <3>3, <3>7, <3>8, <3>9, <3>10
  <2>2. CASE \E t \in Tx : PopRemoveStack(t)
    <3>1. PICK t \in Tx : PopRemoveStack(t)
      BY <2>2
    <3>2. /\ RunRemove(t) /\ remove_stack' = (remove_stack \ {t}) \cup RemainingChilds(t)
          /\ calls' = calls /\ calls \in Seq(Calls)
      BY <3>1 DEF PopRemoveStack, ProposalOK
    <3> QED BY <3>2
  <2> QED BY <2>1, <2>2
<1>3. /\ PoolsOK' /\ ExactOK' /\ InPool(clone)' = InPool(clone) \ {t} /\ pool' = pool
  BY <1>2, RunRemoveStep
<1>4. clone' = MempoolRemove(clone, t)
  BY <1>2 DEF RunRemove
<1>5. ProposalOK'
  BY <1>1, <1>2 DEF ProposalOK
<1>6. Linked(clone)' /\ Indexed(clone)'
  BY <1>1, <1>3 DEF ExactOK
<1>7. Covers(clone')
  <2>1. Typed(clone) /\ Childs(clone) /\ Linked(clone) /\ Covers(clone)
    BY DEF PoolsOK, CloneOK
  <2> QED BY <1>4, <2>1, RemoveCovers
<1>8. ASSUME NEW u \in InPool(clone)' \ remove_stack'
      PROVE  Vin[u] \subseteq InPool(clone)' \cup ToSet(template') \cup Prefix'
  <2>1. u \in InPool(clone) \ remove_stack /\ u # t
    BY <1>2, <1>3
  <2>2. Vin[u] \subseteq InPool(clone) \cup ToSet(template) \cup Prefix
    BY <2>1 DEF CloneOK
  <2>3. Prefix' = Prefix
    BY <1>1 DEF Prefix
  <2>4. t \notin Vin[u] \/ t \in Prefix
    BY <1>2, <1>8, <2>1, RemainingChildsAll DEF Subject
  <2> QED BY <1>1, <1>3, <2>2, <2>3, <2>4
<1>9. ASSUME NEW i \in DOMAIN calls', ~calls'[i].with_descendants
      PROVE  calls'[i].tx \in Prefix'
  <2>1. Prefix' = Prefix
    BY <1>1 DEF Prefix
  <2> QED BY <1>2, <1>9, <2>1 DEF CloneOK
<1>10. CloneOK'
  BY <1>6, <1>7, <1>8, <1>9 DEF CloneOK
<1> QED BY <1>1, <1>2, <1>3, <1>4, <1>5, <1>10

\* Removing a tx leaves the conflicts of the others.
LEMMA RemoveKeepsConflicts ==
  ASSUME NEW m, NEW t, NEW u \in InPool(m) \ {t}
  PROVE  MempoolRemove(m, t).txs[u].conflicts_with = m.txs[u].conflicts_with
<1>1. CASE t \notin InPool(m)
  BY <1>1 DEF MempoolRemove
<1>2. CASE t \in InPool(m)
  <2>1. MempoolRemove(m, t).txs = RemoveLinks(m.txs, t)
    BY <1>2 DEF MempoolRemove
  <2>2. u \in DOMAIN m.txs \ {t}
    BY DEF InPool
  <2> QED BY <2>1, <2>2 DEF RemoveLinks, LinksWithout
<1> QED BY <1>1, <1>2

\* try_filter keeps on taking out.
LEMMA FiltersKeeps ==
  ASSUME BlockInv, Filters
  PROVE  BlockInv'
<1>1. /\ stage = "filter" /\ UNCHANGED blockVars
      /\ RunCall \/ \E t \in Tx : PopRemoveStack(t)
      /\ stage' = stage /\ stage' = "filter" /\ initial' = initial /\ block' = block
  BY DEF Filters, blockVars
<1>2. /\ PoolSound /\ PoolsOK /\ ProposalOK /\ CloneOK /\ StageOK /\ FilterOK
      /\ ExactOK /\ ~under_child /\ proposing
  <2>1. ExactOK
    BY <1>1, BlockExact
  <2>2. PoolSound /\ PoolsOK /\ ProposalOK /\ CloneOK /\ StageOK /\ FilterOK
    BY <1>1 DEF BlockInv
  <2> QED BY <1>1, <2>1, <2>2 DEF PoolSound, StageOK
<1>3. /\ PoolsOK' /\ ExactOK' /\ ProposalOK' /\ CloneOK'
      /\ UNCHANGED <<chain, unfiltered_txs, pool, under_child, proposing, weight_remaining,
                     to_add, template>>
      /\ \E t : /\ clone' = MempoolRemove(clone, t)
                /\ InPool(clone)' = InPool(clone) \ {t}
                /\ \A i \in DOMAIN calls :
                     calls[i].tx # t => calls[i].tx \in {calls'[j].tx : j \in DOMAIN calls'}
  BY <1>1, <1>2, CloneRemoval
<1>4. PICK t : /\ clone' = MempoolRemove(clone, t)
               /\ InPool(clone)' = InPool(clone) \ {t}
               /\ \A i \in DOMAIN calls :
                    calls[i].tx # t => calls[i].tx \in {calls'[j].tx : j \in DOMAIN calls'}
  BY <1>3
<1>5. Prefix' = Prefix /\ Without' = Without
  BY <1>1 DEF Prefix, Without
<1>6. PoolSound'
  BY <1>2, <1>3 DEF PoolSound
<1>7. StageOK'
  BY <1>1, <1>2, <1>3 DEF StageOK, ExactOK
<1>8. FilterOK'
  <2>1. \A u \in InPool(clone)' \ Prefix : clone'.txs[u].conflicts_with = pool'.txs[u].conflicts_with
    BY <1>2, <1>3, <1>4, RemoveKeepsConflicts DEF FilterOK
  <2>2. InPool(clone)' \cap (Prefix \cup Without) \subseteq {calls'[i].tx : i \in DOMAIN calls'}
    BY <1>2, <1>4 DEF FilterOK
  <2>3. InPool(clone)' \subseteq InPool(pool)' \cup Prefix
    BY <1>2, <1>3, <1>4 DEF FilterOK
  <2>4. template' = << >> /\ to_add' = {}
    BY <1>2, <1>3 DEF FilterOK
  <2> QED BY <1>5, <2>1, <2>2, <2>3, <2>4 DEF FilterOK
<1> QED BY <1>1, <1>3, <1>6, <1>7, <1>8, NothingFilled
------------------------------------------------------------------------------
\* The choice of txs.

\* No txs weigh nothing.
LEMMA NoWeight == TotalWeight({}) = 0
<1>1. ModifiedWeight \in [Tx -> Nat]
  BY ModifiedWeightAssumption
<1> QED BY <1>1, SumOverNothing DEF TotalWeight, SumOver

\* What the producer asks for has a weight.
LEMMA InitialWeightIsNat ==
  ASSUME initial \in InitialTemplates
  PROVE  InitialWeight \in Nat /\ WeightLeft \in Nat
<1>1. /\ initial.prefix_txs \in Seq(Tx) /\ initial.suffix_txs \in Seq(Tx)
      /\ initial.reserved \in Nat /\ initial.coinbase_txouts \in Seq(Nat)
  BY InitialTemplatesAssumption
<1>2. \A s \in Seq(Tx) : ToSet(s) \in SUBSET Tx
  BY DEF ToSet
<1>3. RealWeight(Prefix) \in Nat /\ RealWeight(ToSet(initial.suffix_txs)) \in Nat
  BY <1>1, <1>2, RealWeightGrows DEF Prefix
<1>4. Len(initial.coinbase_txouts) * TxoutWeight \in Nat
  <2>1. Len(initial.coinbase_txouts) \in Nat /\ TxoutWeight \in Nat
    BY <1>1, BlockWeightAssumption
  <2>2. \A a, b \in Nat : a * b \in Nat
    OBVIOUS
  <2> QED BY <2>1, <2>2
<1>5. CommitmentWeight \in Nat /\ PayoutWeight \in Nat /\ MaxUsableWeight \in Nat
  BY BlockWeightAssumption
<1> DEFINE outs == Len(initial.coinbase_txouts) * TxoutWeight
<1>6. InitialWeight = RealWeight(Prefix) + RealWeight(ToSet(initial.suffix_txs))
                        + initial.reserved + outs + CommitmentWeight + PayoutWeight
  BY DEF InitialWeight
<1>7. outs \in Nat
  BY <1>4
<1> HIDE DEF outs
<1>8. InitialWeight \in Nat
  BY <1>1, <1>3, <1>5, <1>6, <1>7
<1>9. WeightLeft \in Nat
  BY <1>5, <1>8 DEF WeightLeft
<1> QED BY <1>8, <1>9

\* propose_txs starts from a mempool without the producer's txs and without what
\* it has excluded.
LEMMA StartProposingKeeps ==
  ASSUME ProducerContract, BlockInv, StartProposing
  PROVE  BlockInv'
<1>1. /\ stage = "filter" /\ proposing /\ calls = << >> /\ remove_stack = {} /\ error = "none"
      /\ stage' = "propose" /\ base' = clone
      /\ weight_limit' = WeightLeft /\ weight_remaining' = WeightLeft
      /\ UNCHANGED <<chain, unfiltered_txs, pool, under_child, calls, remove_stack, error,
                     proposing, clone, to_add, template, initial, block>>
  BY DEF StartProposing, Proposes, WeightLeft, callerVars, poolVars
<1>2. PoolSound /\ PoolsOK /\ ProposalOK /\ CloneOK /\ StageOK /\ FilterOK
  BY <1>1 DEF BlockInv
<1>3. Prefix' = Prefix /\ Without' = Without /\ WeightLeft' = WeightLeft
  BY <1>1 DEF Prefix, Without, WeightLeft, InitialWeight
<1>4. initial \in InitialTemplates /\ template' = << >> /\ to_add' = {}
  BY <1>1, <1>2 DEF StageOK, FilterOK
<1>5. PoolSound'
  BY <1>1, <1>2 DEF PoolSound
<1>6. PoolsOK' /\ ProposalOK'
  BY <1>1, <1>2 DEF PoolsOK, ProposalOK
<1>7. CloneOK'
  BY <1>1, <1>2, <1>3 DEF CloneOK
<1>8. StageOK'
  BY <1>1, <1>2 DEF StageOK
<1>9. InPool(clone) \cap (Prefix \cup Without) = {} /\ InPool(clone) \subseteq InPool(pool)
  <2>1. {calls[i].tx : i \in DOMAIN calls} = {}
    BY <1>1
  <2> QED BY <1>2, <2>1 DEF FilterOK
<1>10. ToSet(template) = {} /\ ToSet(template)' = {} /\ template = << >>
  BY <1>2, <1>4 DEF ToSet, FilterOK
<1>11. BaseOK'
  <2>1. Typed(clone) /\ Linked(clone)
    BY <1>2 DEF PoolsOK, CloneOK
  <2>2. \A t \in InPool(clone) : Vin[t] \subseteq InPool(clone) \cup Prefix
    BY <1>1, <1>2, <1>10 DEF CloneOK
  <2> QED BY <1>1, <1>3, <1>9, <2>1, <2>2 DEF BaseOK
<1>12. WeightOK'
  <2>1. WeightLeft \in Nat
    BY <1>4, InitialWeightIsNat
  <2>2. TotalWeight(ToSet(template') \cup to_add') = 0
    BY <1>4, <1>10, NoWeight
  <2> QED BY <1>1, <1>3, <2>1, <2>2 DEF WeightOK
<1>13. ChosenOK'
  BY <1>1, <1>4, <1>10 DEF ChosenOK, IsInjective
<1>14. ConflictsOK'
  <2>1. Inherits(pool)
    BY <1>2 DEF PoolSound
  <2>2. Inherits(clone)
    <3> SUFFICES ASSUME NEW u \in InPool(clone)
                 PROVE  /\ ConflictsWith[u] \subseteq clone.txs[u].conflicts_with
                        /\ \A d \in clone.txs[u].depends :
                             clone.txs[d].conflicts_with \subseteq clone.txs[u].conflicts_with
      BY DEF Inherits
    <3>1. \A v \in InPool(clone) : /\ v \in InPool(pool)
                                   /\ clone.txs[v].conflicts_with = pool.txs[v].conflicts_with
      BY <1>2, <1>9 DEF FilterOK
    <3>2. clone.txs[u].depends \subseteq InPool(clone) \cap pool.txs[u].depends
      <4>1. clone.txs[u].depends = Vin[u] \cap InPool(clone)
        BY <1>2 DEF CloneOK, Linked
      <4>2. pool.txs[u].depends = Vin[u] \cap InPool(pool)
        BY <1>2, <3>1 DEF PoolSound, Sound, Linked
      <4> QED BY <1>9, <4>1, <4>2
    <3> QED BY <2>1, <3>1, <3>2 DEF Inherits
  <2>3. Inherits(pool)' /\ Inherits(clone)'
    BY <1>1, <2>1, <2>2 DEF Inherits
  <2> QED BY <1>4, <1>10, <2>3 DEF ConflictsOK, Conflicting
<1> QED BY <1>1, <1>5, <1>6, <1>7, <1>8, <1>11, <1>12, <1>13, <1>14, NothingFilled

\* The weight of the package is taken from what remains.
LEMMA ChoosePackageKeeps ==
  ASSUME ProducerContract, MutualConflicts, CoherentPackages,
         BlockInv, stage = "propose", ChoosePackage, UNCHANGED blockVars
  PROVE  BlockInv'
<1>1. /\ calls = << >> /\ remove_stack = {} /\ to_add = {} /\ stage' = "propose"
      /\ UNCHANGED <<chain, unfiltered_txs, pool, under_child, calls, remove_stack, error,
                     proposing, clone, template, initial, base, block>>
  BY DEF ChoosePackage, Proposes, callerVars, poolVars, blockVars
<1>2. /\ PoolSound /\ PoolsOK /\ ProposalOK /\ CloneOK /\ StageOK
      /\ BaseOK /\ WeightOK /\ ChosenOK /\ ConflictsOK /\ CInv
  BY DEF BlockInv, CInv
<1>3. PICK e \in Fitting :
        /\ weight_remaining' = weight_remaining - 4 * e.rate.vsize
        /\ to_add' = ({e.txid} \cup AncestorsMut(clone.txs, e.txid)) \cap InPool(clone)
  BY DEF ChoosePackage
<1>4. PICK t \in InPool(clone) : e = Entry(clone.txs, t)
  BY <1>2 DEF CloneOK, Indexed, Fitting
<1> DEFINE aw == clone.txs[t].ancestor_weight
           package == {t} \cup AncestorsIn(InPool(clone), t)
           v == VbytesCeil(aw)
<1>5. e.txid = t /\ e.rate.vsize = v
  BY <1>4 DEF Entry, AncestorFeeRate
<1>6. Typed(clone) /\ Linked(clone)
  BY <1>2 DEF PoolsOK, CloneOK
<1>7. to_add' = package /\ package \in SUBSET Tx
  <2>1. AncestorsMut(clone.txs, t) = AncestorsIn(InPool(clone), t)
    BY <1>6, WalkFindsAncestors
  <2>2. InPool(clone) \in SUBSET Tx
    BY <1>6 DEF Typed
  <2>3. AncestorsIn(InPool(clone), t) \in SUBSET InPool(clone)
    BY <2>2, AncestorsInClosed
  <2> QED BY <1>3, <1>5, <2>1, <2>2, <2>3
<1>8. /\ aw \in Nat /\ TotalWeight(package) <= aw
      /\ v \in Nat /\ aw <= 4 * v
  <2>1. aw \in Nat /\ TotalWeight(package) <= aw
    BY <1>2 DEF CloneOK, Covers
  <2> HIDE DEF aw
  <2>2. v \in Nat /\ aw <= 4 * v
    BY <2>1 DEF VbytesCeil
  <2> QED BY <2>1, <2>2
<1>9. 4 * v <= weight_remaining
  BY <1>3, <1>5 DEF Fitting
<1> HIDE DEF aw, v, package
<1>10. WeightOK'
  <2>1. ToSet(template) \in SUBSET Tx
    BY <1>2 DEF ProposalOK, ToSet
  <2>2. /\ TotalWeight(ToSet(template)) \in Nat /\ TotalWeight(package) \in Nat
        /\ TotalWeight(ToSet(template) \cup package)
             <= TotalWeight(ToSet(template)) + TotalWeight(package)
        /\ TotalWeight(ToSet(template) \cup package) \in Nat
    <3>1. ToSet(template) \cup package \in SUBSET Tx
      BY <1>7, <2>1
    <3> QED BY <1>7, <2>1, <3>1, WeightGrows
  <2>3. /\ weight_remaining \in Nat
        /\ weight_remaining + TotalWeight(ToSet(template)) <= WeightLeft
        /\ WeightLeft \in Nat
    <3>1. ToSet(template) \cup to_add = ToSet(template)
      BY <1>1
    <3>2. initial \in InitialTemplates
      BY <1>2 DEF StageOK
    <3> QED BY <1>2, <3>1, <3>2, InitialWeightIsNat DEF WeightOK
  <2>4. weight_remaining' = weight_remaining - 4 * v
    BY <1>3, <1>5
  <2>5. WeightLeft' = WeightLeft
    BY <1>1 DEF WeightLeft, InitialWeight, Prefix
  <2>6. weight_remaining' \in Nat
    BY <1>8, <1>9, <2>3, <2>4
  <2>7. weight_remaining' + TotalWeight(ToSet(template) \cup package) <= WeightLeft
    BY <1>8, <1>9, <2>2, <2>3, <2>4
  <2>8. ToSet(template)' \cup to_add' = ToSet(template) \cup package
    BY <1>1, <1>7
  <2> QED BY <2>5, <2>6, <2>7, <2>8 DEF WeightOK
<1>11. PoolSound'
  BY <1>1, <1>2 DEF PoolSound
<1>12. PoolsOK' /\ ProposalOK'
  <2>1. to_add' \subseteq InPool(clone) /\ proposing
    BY <1>3 DEF ChoosePackage, Proposes
  <2> QED BY <1>1, <1>2, <2>1 DEF PoolsOK, ProposalOK
<1>13. Prefix' = Prefix /\ Without' = Without
  BY <1>1 DEF Prefix, Without
<1>14. CloneOK'
  BY <1>1, <1>2, <1>13 DEF CloneOK
<1>15. StageOK'
  BY <1>1, <1>2 DEF StageOK
<1>16. BaseOK'
  BY <1>1, <1>2, <1>13 DEF BaseOK
<1>17. ChosenOK'
  BY <1>1, <1>2, <1>13 DEF ChosenOK, Before
<1>18. ConflictsOK'
  <2>1. CInv'
    BY <1>2, BlockExact, ChoosePackageCInv
  <2> QED BY <1>11, <2>1 DEF CInv, PoolSound
<1> QED BY <1>1, <1>10, <1>11, <1>12, <1>14, <1>15, <1>16, <1>17, <1>18, NothingFilled

\* A tx goes from the package to the template, after all that it spends.
LEMMA AddFromPackageKeeps ==
  ASSUME BlockInv, stage = "propose", NEW t \in Tx, AddFromPackage(t), UNCHANGED blockVars
  PROVE  BlockInv'
<1>1. /\ proposing /\ calls = << >> /\ remove_stack = {} /\ t \in to_add
      /\ clone.txs[t].depends = {} /\ RunRemove(t) /\ clone' = MempoolRemove(clone, t)
      /\ template' = Append(template, t) /\ to_add' = to_add \ {t}
      /\ remove_stack' = remove_stack /\ stage' = "propose"
      /\ UNCHANGED <<chain, unfiltered_txs, weight_remaining, initial, base, block>>
  BY DEF AddFromPackage, Proposes, RunRemove, callerVars, blockVars
<1>2. /\ PoolSound /\ PoolsOK /\ ProposalOK /\ CloneOK /\ StageOK
      /\ BaseOK /\ WeightOK /\ ChosenOK /\ ConflictsOK /\ CInv
  BY DEF BlockInv, CInv
<1>3. ExactOK
  BY BlockExact
<1>4. /\ PoolsOK' /\ ExactOK' /\ UNCHANGED <<under_child, proposing>>
      /\ InPool(clone)' = InPool(clone) \ {t} /\ pool' = pool
  BY <1>1, <1>2, <1>3, RunRemoveStep
<1>5. t \in InPool(clone)
  BY <1>1, <1>2 DEF ProposalOK
<1>6. /\ calls' \in Seq(Calls) /\ \A i \in DOMAIN calls' : calls'[i].with_descendants
      /\ to_add' # {} => calls' = << >>
  BY <1>2, PackageCalls
<1>7. /\ template' \in Seq(Tx) /\ ToSet(template)' = ToSet(template) \cup {t}
      /\ Len(template) \in Nat /\ DOMAIN template = 1 .. Len(template)
      /\ DOMAIN template' = DOMAIN template \cup {Len(template) + 1}
      /\ template'[Len(template) + 1] = t
      /\ \A i \in DOMAIN template : template'[i] = template[i] /\ Before(i)' = Before(i)
      /\ \A i : i = Len(template) + 1 => Before(i)' = ToSet(template)
  BY <1>1, <1>2, TemplateGrows DEF ProposalOK
<1>8. Prefix' = Prefix /\ Without' = Without /\ WeightLeft' = WeightLeft
  BY <1>1 DEF Prefix, Without, WeightLeft, InitialWeight
<1>9. PoolSound'
  BY <1>1, <1>2, <1>4 DEF PoolSound
<1>10. ProposalOK'
  BY <1>1, <1>2, <1>4, <1>6, <1>7 DEF ProposalOK
<1>11. StageOK'
  BY <1>1, <1>2, <1>4, <1>9 DEF StageOK, ExactOK, PoolSound
<1>12. BaseOK'
  BY <1>1, <1>2, <1>4, <1>8 DEF BaseOK
<1>13. WeightOK'
  <2>1. ToSet(template)' \cup to_add' = ToSet(template) \cup to_add
    BY <1>1, <1>7
  <2> QED BY <1>1, <1>2, <1>8, <2>1 DEF WeightOK
<1>14. CloneOK'
  <2>1. Linked(clone)' /\ Indexed(clone)'
    BY <1>4, <1>9 DEF ExactOK, PoolSound
  <2>2. Covers(clone')
    <3>1. Typed(clone) /\ Childs(clone) /\ Linked(clone) /\ Covers(clone)
      BY <1>2 DEF PoolsOK, CloneOK
    <3> QED BY <1>1, <3>1, RemoveCovers
  <2>3. ASSUME NEW u \in InPool(clone)' \ remove_stack'
        PROVE  Vin[u] \subseteq InPool(clone)' \cup ToSet(template)' \cup Prefix
    <3>1. u \in InPool(clone) \ remove_stack
      BY <1>1, <1>4
    <3>2. Vin[u] \subseteq InPool(clone) \cup ToSet(template) \cup Prefix
      BY <1>1, <1>2, <3>1 DEF CloneOK
    <3> QED BY <1>4, <1>7, <3>2
  <2> QED BY <1>6, <1>8, <2>1, <2>2, <2>3 DEF CloneOK
<1>15. ChosenOK'
  <2>1. t \notin ToSet(template)
    BY <1>2, <1>5 DEF ChosenOK
  <2>2. /\ InPool(clone)' \cup ToSet(template)' \subseteq InPool(base)'
        /\ InPool(clone)' \cap ToSet(template)' = {}
    BY <1>1, <1>2, <1>4, <1>5, <1>7 DEF ChosenOK
  <2>3. IsInjective(template')
    <3> SUFFICES ASSUME NEW i \in DOMAIN template', NEW j \in DOMAIN template',
                        template'[i] = template'[j]
                 PROVE  i = j
      BY DEF IsInjective
    <3>1. \A k \in DOMAIN template : template[k] # t
      BY <2>1 DEF ToSet
    <3>2. \A a, b \in DOMAIN template : template[a] = template[b] => a = b
      BY <1>2 DEF ChosenOK, IsInjective
    <3> QED BY <1>7, <3>1, <3>2
  <2>4. Vin[t] \subseteq ToSet(template) \cup Prefix
    <3>1. Vin[t] \cap InPool(clone) = {}
      BY <1>1, <1>2, <1>5 DEF CloneOK, Linked
    <3>2. Vin[t] \subseteq InPool(clone) \cup ToSet(template) \cup Prefix
      BY <1>1, <1>2, <1>5 DEF CloneOK
    <3> QED BY <3>1, <3>2
  <2>5. ASSUME NEW i \in DOMAIN template'
        PROVE  Vin[template'[i]] \subseteq Before(i)' \cup Prefix
    <3>1. CASE i = Len(template) + 1
      BY <1>7, <2>4, <3>1
    <3>2. CASE i \in DOMAIN template
      BY <1>2, <1>7, <3>2 DEF ChosenOK
    <3> QED BY <1>7, <3>1, <3>2
  <2> QED BY <1>8, <2>2, <2>3, <2>5 DEF ChosenOK
<1>16. ConflictsOK'
  <2>1. CInv'
    BY <1>2, <1>3, AddFromPackageCInv
  <2> QED BY <1>9, <2>1 DEF CInv, PoolSound
<1> QED BY <1>1, <1>4, <1>9, <1>10, <1>11, <1>12, <1>13, <1>14, <1>15, <1>16, NothingFilled

\* What conflicts with the template goes.
LEMMA ConflictsGo ==
  ASSUME BlockInv, stage = "propose", RunCall \/ \E t \in Tx : PopRemoveStack(t),
         UNCHANGED blockVars
  PROVE  BlockInv'
<1>1. stage' = "propose" /\ UNCHANGED <<initial, base, block>>
  BY DEF blockVars
<1>2. /\ PoolSound /\ PoolsOK /\ ProposalOK /\ CloneOK /\ StageOK
      /\ BaseOK /\ WeightOK /\ ChosenOK /\ ConflictsOK /\ CInv
  BY DEF BlockInv, CInv
<1>3. ExactOK /\ ~under_child /\ proposing
  BY <1>2, BlockExact DEF PoolSound, StageOK
<1>4. /\ PoolsOK' /\ ExactOK' /\ ProposalOK' /\ CloneOK'
      /\ to_add = {}
      /\ UNCHANGED <<chain, unfiltered_txs, pool, under_child, proposing, weight_remaining,
                     to_add, template>>
      /\ \E t : /\ clone' = MempoolRemove(clone, t)
                /\ InPool(clone)' = InPool(clone) \ {t}
                /\ \A i \in DOMAIN calls :
                     calls[i].tx # t => calls[i].tx \in {calls'[j].tx : j \in DOMAIN calls'}
  BY <1>2, <1>3, CloneRemoval
<1>5. InPool(clone)' \subseteq InPool(clone)
  BY <1>4
<1>6. Prefix' = Prefix /\ Without' = Without /\ WeightLeft' = WeightLeft
  BY <1>1 DEF Prefix, Without, WeightLeft, InitialWeight
<1>7. PoolSound'
  BY <1>2, <1>4 DEF PoolSound
<1>8. StageOK'
  BY <1>1, <1>2, <1>3, <1>4 DEF StageOK, ExactOK
<1>9. BaseOK' /\ WeightOK'
  BY <1>1, <1>2, <1>4, <1>6 DEF BaseOK, WeightOK
<1>10. ChosenOK'
  BY <1>1, <1>2, <1>4, <1>5, <1>6 DEF ChosenOK, Before
<1>11. ConflictsOK'
  <2>1. CInv'
    BY <1>2, <1>3, RemovalCInv
  <2> QED BY <1>7, <2>1 DEF CInv, PoolSound
<1> QED BY <1>1, <1>4, <1>7, <1>8, <1>9, <1>10, <1>11, NothingFilled
------------------------------------------------------------------------------
\* The txs of the block, put together.

\* Each tx of s spends only what is known or comes before it.
Spends(s, known) ==
  \A i \in DOMAIN s : Vin[s[i]] \subseteq known \cup {s[j] : j \in 1 .. (i - 1)}

\* What is in order with less known stays so with more.
LEMMA SpendsMore ==
  ASSUME NEW s, NEW more, NEW known \in SUBSET more, Spends(s, known)
  PROVE  Spends(s, more)
BY DEF Spends

\* Two sequences one after the other.
LEMMA JoinedTxs ==
  ASSUME NEW a \in Seq(Tx), NEW b \in Seq(Tx), NEW known,
         IsInjective(a), IsInjective(b), ToSet(a) \cap ToSet(b) = {},
         Spends(a, known), Spends(b, known \cup ToSet(a))
  PROVE  /\ a \o b \in Seq(Tx) /\ IsInjective(a \o b) /\ Spends(a \o b, known)
         /\ ToSet(a \o b) = ToSet(a) \cup ToSet(b)
         /\ DOMAIN (a \o b) = 1 .. (Len(a) + Len(b))
         /\ \A i \in DOMAIN a : i \in DOMAIN (a \o b) /\ (a \o b)[i] = a[i]
         /\ \A i \in DOMAIN b : /\ Len(a) + i \in DOMAIN (a \o b)
                                /\ (a \o b)[Len(a) + i] = b[i]
<1> DEFINE c == a \o b
           n == Len(a)
           l == Len(b)
<1>1. /\ n \in Nat /\ l \in Nat /\ DOMAIN a = 1 .. n /\ DOMAIN b = 1 .. l
      /\ c \in Seq(Tx) /\ DOMAIN c = 1 .. (n + l)
  <2>1. Len(c) = Len(a) + Len(b) /\ c \in Seq(Tx)
    OBVIOUS
  <2>2. DOMAIN c = 1 .. Len(c)
    BY <2>1
  <2> QED BY <2>1, <2>2
<1>2. /\ \A i \in DOMAIN a : i \in DOMAIN c /\ c[i] = a[i]
      /\ \A i \in DOMAIN b : n + i \in DOMAIN c /\ c[n + i] = b[i]
  BY <1>1
<1> HIDE DEF c, n, l
<1>3. \A i \in DOMAIN c : i \in DOMAIN a \/ (i - n \in DOMAIN b /\ n + (i - n) = i)
  BY <1>1
<1>4. ToSet(c) = ToSet(a) \cup ToSet(b)
  <2>1. ToSet(c) \subseteq ToSet(a) \cup ToSet(b)
    <3> SUFFICES ASSUME NEW i \in DOMAIN c PROVE c[i] \in ToSet(a) \cup ToSet(b)
      BY DEF ToSet
    <3>1. (c[i] = a[i] /\ i \in DOMAIN a) \/ (c[i] = b[i - n] /\ i - n \in DOMAIN b)
      <4>1. CASE i \in DOMAIN a
        BY <1>2, <4>1
      <4>2. CASE i - n \in DOMAIN b /\ n + (i - n) = i
        BY <1>2, <4>2
      <4> QED BY <1>3, <4>1, <4>2
    <3> QED BY <3>1 DEF ToSet
  <2>2. ToSet(a) \subseteq ToSet(c)
    BY <1>2 DEF ToSet
  <2>3. ToSet(b) \subseteq ToSet(c)
    BY <1>2 DEF ToSet
  <2> QED BY <2>1, <2>2, <2>3
<1>5. IsInjective(c)
  <2> SUFFICES ASSUME NEW i \in DOMAIN c, NEW j \in DOMAIN c, c[i] = c[j] PROVE i = j
    BY DEF IsInjective
  <2>1. \A x \in DOMAIN a, y \in DOMAIN b : a[x] # b[y]
    BY DEF ToSet
  <2>2. CASE i \in DOMAIN a /\ j \in DOMAIN a
    BY <1>2, <2>2 DEF IsInjective
  <2>3. CASE i \notin DOMAIN a /\ j \notin DOMAIN a
    <3>1. i - n \in DOMAIN b /\ j - n \in DOMAIN b /\ b[i - n] = b[j - n]
      BY <1>2, <1>3, <2>3
    <3>2. i - n = j - n
      BY <3>1 DEF IsInjective
    <3> QED BY <1>1, <3>2
  <2>4. CASE i \in DOMAIN a /\ j \notin DOMAIN a
    BY <1>2, <1>3, <2>1, <2>4
  <2>5. CASE i \notin DOMAIN a /\ j \in DOMAIN a
    BY <1>2, <1>3, <2>1, <2>5
  <2> QED BY <2>2, <2>3, <2>4, <2>5
<1>6. ASSUME NEW i \in DOMAIN c
      PROVE  Vin[c[i]] \subseteq known \cup {c[j] : j \in 1 .. (i - 1)}
  <2>1. CASE i \in DOMAIN a
    <3>1. \A j \in 1 .. (i - 1) : c[j] = a[j]
      BY <1>1, <1>2, <2>1
    <3> QED BY <1>2, <2>1, <3>1 DEF Spends
  <2>2. CASE i \notin DOMAIN a
    <3>1. i - n \in DOMAIN b /\ c[i] = b[i - n] /\ i \in Int
      BY <1>1, <1>2, <1>3, <2>2
    <3> SUFFICES ASSUME NEW x \in Vin[c[i]], x \notin known
                 PROVE  \E j \in 1 .. (i - 1) : x = c[j]
      OBVIOUS
    <3>2. x \in ToSet(a) \/ \E j \in 1 .. ((i - n) - 1) : x = b[j]
      BY <3>1 DEF Spends
    <3>3. CASE x \in ToSet(a)
      <4>1. PICK j \in DOMAIN a : x = a[j]
        BY <3>3 DEF ToSet
      <4>2. j \in 1 .. (i - 1)
        BY <1>1, <3>1
      <4> QED BY <1>2, <4>1, <4>2
    <3>4. CASE \E j \in 1 .. ((i - n) - 1) : x = b[j]
      <4>1. PICK j \in 1 .. ((i - n) - 1) : x = b[j]
        BY <3>4
      <4>2. j \in DOMAIN b /\ n + j \in 1 .. (i - 1)
        BY <1>1, <3>1
      <4> QED BY <1>2, <4>1, <4>2
    <3> QED BY <3>2, <3>3, <3>4
  <2> QED BY <2>1, <2>2
<1>7. Spends(c, known)
  BY <1>6 DEF Spends
<1> QED BY <1>1, <1>2, <1>4, <1>5, <1>7 DEF c, n, l

\* DescendantsIn holds what spends from the roots or its own members in P.
LEMMA DescendantsInClosed ==
  ASSUME NEW P, NEW roots
  PROVE  /\ DescendantsIn(P, roots) \subseteq P
         /\ \A y \in P : Vin[y] \cap (roots \cup DescendantsIn(P, roots)) # {}
                           => y \in DescendantsIn(P, roots)
<1> DEFINE D == {x \in P : \A set \in SUBSET P :
             (\A y \in P : Vin[y] \cap (roots \cup set) # {} => y \in set) => x \in set}
<1>1. DescendantsIn(P, roots) = D
  BY DEF DescendantsIn, LeastClosed
<1>2. ASSUME NEW y \in P, Vin[y] \cap (roots \cup D) # {} PROVE y \in D
  <2> SUFFICES ASSUME NEW set \in SUBSET P,
                      \A z \in P : Vin[z] \cap (roots \cup set) # {} => z \in set
               PROVE  y \in set
    OBVIOUS
  <2>1. D \subseteq set
    OBVIOUS
  <2>2. Vin[y] \cap (roots \cup set) # {}
    BY <1>2, <2>1
  <2> QED BY <2>2
<1> QED BY <1>1, <1>2

\* Any set that does holds all of it.
LEMMA DescendantsInLeast ==
  ASSUME NEW P, NEW roots, NEW set \in SUBSET P,
         \A y \in P : Vin[y] \cap (roots \cup set) # {} => y \in set
  PROVE  DescendantsIn(P, roots) \subseteq set
BY DEF DescendantsIn, LeastClosed

\* An ancestor in a mempool is one that the tx spends, directly or not.
LEMMA AncestorSpent ==
  ASSUME NEW m, Typed(m), Linked(m), NEW t \in InPool(m), NEW a \in AncestorsMut(m.txs, t)
  PROVE  t \in DescendantsIn(Tx, {a})
<1> DEFINE D(b) == DescendantsIn(Tx, {b})
           set == {b \in Tx : t \in D(b)}
<1>1. InPool(m) \in SUBSET Tx /\ DOMAIN m.txs = InPool(m)
  BY DEF Typed, InPool
<1>2. \A y \in InPool(m) : m.txs[y].depends \subseteq Vin[y] \cap InPool(m)
  BY DEF Linked
<1>3. \A b : \A y \in Tx : Vin[y] \cap ({b} \cup D(b)) # {} => y \in D(b)
  BY DescendantsInClosed
<1> HIDE DEF D
<1>4. ASSUME NEW b, NEW y \in D(b) PROVE D(y) \subseteq D(b)
  <2>1. D(b) \in SUBSET Tx
    BY DescendantsInClosed DEF D
  <2>2. \A z \in Tx : Vin[z] \cap ({y} \cup D(b)) # {} => z \in D(b)
    BY <1>3
  <2> DEFINE below == D(b)
  <2>3. below \in SUBSET Tx /\ \A z \in Tx : Vin[z] \cap ({y} \cup below) # {} => z \in below
    BY <2>1, <2>2
  <2> HIDE DEF below
  <2>4. DescendantsIn(Tx, {y}) \subseteq below
    BY <2>3, DescendantsInLeast
  <2> QED BY <2>4 DEF D, below
<1>5. ASSUME NEW y \in (set \cup {t}) \cap DOMAIN m.txs, NEW b \in m.txs[y].depends
      PROVE  b \in set
  <2>1. b \in Tx /\ y \in Tx /\ b \in Vin[y]
    BY <1>1, <1>2
  <2>2. y \in D(b)
    BY <1>3, <2>1
  <2>3. D(y) \subseteq D(b)
    BY <1>4, <2>2
  <2> QED BY <2>1, <2>2, <2>3
<1>6. set \in SUBSET Tx
  OBVIOUS
<1> HIDE DEF set
<1>7. AncestorsMut(m.txs, t) \subseteq set
  BY <1>5, <1>6, AncestorsMutLeast
<1> QED BY <1>7 DEF set, D

\* All txs of the block.
FinalSet(final) == (Prefix \cup ToSet(final.suffix_txs)) \cup ToSet(template)

\* What the producer has made of its part in the end.
LEMMA FinalParts ==
  ASSUME ProducerContract, StageOK, stage # "idle", NEW final \in Finalized[initial]
  PROVE  /\ initial \in InitialTemplates
         /\ final.suffix_txs \in Seq(Tx) /\ final.coinbase_txouts \in Seq(Nat)
         /\ KeepsContract(initial, final.suffix_txs)
         /\ ToSet(final.suffix_txs) \subseteq ToSet(initial.suffix_txs) \cup Generated
<1>1. initial \in InitialTemplates
  BY DEF StageOK
<1> QED BY <1>1, FinalizedAssumption DEF ProducerContract

\* The prefix, the mempool txs and the suffix in the end: no tx twice, and each
\* after what it spends.
LEMMA FinalTxs ==
  ASSUME ProducerContract, BlockInv, stage = "propose", NEW final \in Finalized[initial],
         NEW txs, txs = initial.prefix_txs \o template \o final.suffix_txs
  PROVE  /\ txs \in Seq(Tx) /\ IsInjective(txs) /\ Spends(txs, {})
         /\ \A i \in DOMAIN template : txs[Len(initial.prefix_txs) + i] = template[i]
         /\ ToSet(txs) = FinalSet(final)
<1> DEFINE P == initial.prefix_txs
           T == template
           S == final.suffix_txs
<1>1. BaseOK /\ ChosenOK /\ ProposalOK /\ StageOK /\ PoolSound
  BY DEF BlockInv
<1>2. /\ initial \in InitialTemplates /\ S \in Seq(Tx) /\ KeepsContract(initial, S)
      /\ ToSet(S) \subseteq ToSet(initial.suffix_txs) \cup Generated
  BY <1>1, FinalParts
<1>3. /\ P \in Seq(Tx) /\ S \in Seq(Tx) /\ IsInjective(P) /\ IsInjective(S)
      /\ ToSet(P) \cap ToSet(S) = {}
      /\ Spends(P, {}) /\ Spends(S, ToSet(P))
  <2> HIDE DEF S
  <2>1. /\ P \in Seq(Tx) /\ S \in Seq(Tx) /\ IsInjective(P) /\ IsInjective(S)
        /\ ToSet(P) \cap ToSet(S) = {}
        /\ \A i \in DOMAIN P : Vin[P[i]] \subseteq {P[j] : j \in 1 .. (i - 1)}
        /\ \A i \in DOMAIN S : Vin[S[i]] \subseteq ToSet(P) \cup {S[j] : j \in 1 .. (i - 1)}
    BY <1>2, ContractParts
  <2> HIDE DEF P
  <2> QED BY <2>1 DEF Spends
<1>4. /\ T \in Seq(Tx) /\ IsInjective(T) /\ Spends(T, ToSet(P))
  <2>1. \A i \in DOMAIN T : Vin[T[i]] \subseteq {T[j] : j \in 1 .. (i - 1)} \cup ToSet(P)
    BY <1>1 DEF ChosenOK, Before, Prefix
  <2>2. Spends(T, ToSet(P))
    BY <2>1 DEF Spends
  <2> QED BY <1>1, <2>2 DEF ChosenOK, ProposalOK
<1>5. ToSet(T) \cap (ToSet(P) \cup ToSet(S)) = {}
  <2>1. /\ ToSet(T) \subseteq InPool(base) /\ InPool(base) \subseteq InPool(pool)
        /\ InPool(base) \cap (ToSet(P) \cup ToSet(initial.suffix_txs)) = {}
        /\ InPool(pool) \cap Generated = {}
    BY <1>1 DEF ChosenOK, BaseOK, PoolSound, Prefix, Without
  <2> QED BY <1>2, <2>1
<1> HIDE DEF P, T, S
<1> DEFINE front == P \o T
<1>6. /\ front \in Seq(Tx) /\ IsInjective(front) /\ Spends(front, {})
      /\ ToSet(front) = ToSet(P) \cup ToSet(T)
      /\ DOMAIN front = 1 .. (Len(P) + Len(T))
      /\ \A i \in DOMAIN T : Len(P) + i \in DOMAIN front /\ front[Len(P) + i] = T[i]
  <2>1. Spends(T, {} \cup ToSet(P)) /\ ToSet(P) \cap ToSet(T) = {}
    BY <1>4, <1>5
  <2> QED BY <1>3, <1>4, <2>1, JoinedTxs
<1>7. txs = front \o S
  BY DEF P, T, S
<1> HIDE DEF front
<1>8. ToSet(front) \cap ToSet(S) = {}
  BY <1>3, <1>5, <1>6
<1>9. Spends(S, {} \cup ToSet(front))
  BY <1>3, <1>6, SpendsMore
<1>10. /\ txs \in Seq(Tx) /\ IsInjective(txs) /\ Spends(txs, {})
       /\ ToSet(txs) = ToSet(front) \cup ToSet(S)
       /\ \A i \in DOMAIN front : txs[i] = front[i]
  <2> DEFINE joined == front \o S
  <2>1. /\ joined \in Seq(Tx) /\ IsInjective(joined) /\ Spends(joined, {})
        /\ ToSet(joined) = ToSet(front) \cup ToSet(S)
        /\ \A i \in DOMAIN front : joined[i] = front[i]
    <3>1. /\ joined \in Seq(Tx) /\ IsInjective(joined) /\ Spends(joined, {})
          /\ ToSet(joined) = ToSet(front) \cup ToSet(S)
          /\ DOMAIN joined = 1 .. (Len(front) + Len(S))
          /\ \A i \in DOMAIN front : i \in DOMAIN joined /\ joined[i] = front[i]
          /\ \A i \in DOMAIN S : /\ Len(front) + i \in DOMAIN joined
                                 /\ joined[Len(front) + i] = S[i]
      <4>1. front \in Seq(Tx) /\ S \in Seq(Tx) /\ IsInjective(front) /\ IsInjective(S)
        BY <1>3, <1>6
      <4>2. ToSet(front) \cap ToSet(S) = {} /\ Spends(front, {})
            /\ Spends(S, {} \cup ToSet(front))
        BY <1>6, <1>8, <1>9
      <4> QED BY <4>1, <4>2, JoinedTxs, Zenon
    <3> QED BY <3>1
  <2> HIDE DEF joined
  <2> QED BY <1>7, <2>1 DEF joined
<1>11. \A i \in DOMAIN T : txs[Len(P) + i] = T[i]
  BY <1>6, <1>10
<1>12. ToSet(txs) = FinalSet(final)
  BY <1>6, <1>10 DEF FinalSet, Prefix, P, T, S
<1> QED BY <1>10, <1>11, <1>12 DEF P, T

\* No two of them conflict, and none is excluded or spends what is.
LEMMA FinalConflicts ==
  ASSUME ProducerContract, MutualConflicts, BlockInv, stage = "propose",
         NEW final \in Finalized[initial]
  PROVE  /\ \A x \in FinalSet(final) : ConflictsWith[x] \cap FinalSet(final) = {}
         /\ LET excluded == initial.exclude_mempool_txs \ Prefix
            IN  FinalSet(final) \cap (excluded \cup DescendantsIn(InPool(pool), excluded)) = {}
<1> DEFINE all == FinalSet(final)
           excluded == initial.exclude_mempool_txs \ Prefix
           X == initial.exclude_mempool_txs
           T == ToSet(template)
           F == Prefix \cup ToSet(final.suffix_txs)
           B == InPool(base)
           D == InPool(pool) \ (B \cup Around)
<1>1. BaseOK /\ ChosenOK /\ ConflictsOK /\ StageOK /\ PoolSound
  BY DEF BlockInv
<1>2. /\ initial \in InitialTemplates /\ final.suffix_txs \in Seq(Tx)
      /\ KeepsContract(initial, final.suffix_txs)
      /\ ToSet(final.suffix_txs) \subseteq ToSet(initial.suffix_txs) \cup Generated
  BY <1>1, FinalParts
<1>3. /\ \A a \in F : ConflictsWith[a] \subseteq X
      /\ X \cap F = {} /\ X \cap Around = {} /\ X \subseteq Without
  <2>1. /\ \A a \in F : ConflictsWith[a] \subseteq X
        /\ X \cap F = {}
    BY <1>2, ContractParts DEF Prefix
  <2>2. X \cap Around = {}
    BY <1>2, InitialParts, ContractParts DEF Around, Prefix
  <2> QED BY <2>1, <2>2 DEF Without
<1>4. T \subseteq B /\ B \cap X = {} /\ B \subseteq InPool(pool)
  BY <1>1, <1>3 DEF ChosenOK, BaseOK
<1>5. \A a, b \in T : b \notin ConflictsWith[a]
  BY <1>1 DEF ConflictsOK
<1>6. F \in SUBSET Tx /\ F \cap InPool(pool) \subseteq Around
  <2>1. Prefix \in SUBSET Tx
    BY <1>2, AroundClosed
  <2>2. ToSet(final.suffix_txs) \in SUBSET Tx
    BY <1>2 DEF ToSet
  <2>3. InPool(pool) \cap Generated = {}
    BY <1>1 DEF PoolSound
  <2> QED BY <1>2, <2>1, <2>2, <2>3 DEF Around
<1>7. all \in SUBSET Tx
  <2>1. T \in SUBSET Tx
    BY <1>1 DEF ChosenOK, BaseOK, Typed
  <2> QED BY <1>6, <2>1 DEF FinalSet
<1>8. \A x, y \in all : y \in ConflictsWith[x] <=> x \in ConflictsWith[y]
  BY <1>7 DEF MutualConflicts
<1>9. all = F \cup T
  BY DEF FinalSet
<1> HIDE DEF X, B, F, T, all, excluded
<1>10. ASSUME NEW x \in all, NEW y \in all, y \in ConflictsWith[x]
       PROVE  FALSE
  <2>1. all \cap X = {}
    BY <1>3, <1>4, <1>9
  <2>2. x \notin F /\ y \notin F
    BY <1>3, <1>8, <1>10, <2>1
  <2> QED BY <1>5, <1>9, <1>10, <2>2
<1>11. DescendantsIn(InPool(pool), excluded) \subseteq D
  <2>1. D \in SUBSET InPool(pool)
    OBVIOUS
  <2>2. excluded \subseteq X
    BY DEF X, excluded
  <2>3. ASSUME NEW y \in InPool(pool), Vin[y] \cap (excluded \cup D) # {}
        PROVE  y \in D
    <3>1. ASSUME y \in B PROVE FALSE
      <4>1. Vin[y] \subseteq B \cup Prefix /\ Prefix \subseteq Around
        BY <1>1, <3>1 DEF BaseOK, B, Around
      <4> QED BY <1>3, <1>4, <2>2, <2>3, <4>1
    <3>2. ASSUME y \in Around PROVE FALSE
      <4>1. Vin[y] \subseteq Around
        BY <1>2, <3>2, AroundClosed
      <4> QED BY <1>3, <2>2, <2>3, <4>1
    <3> QED BY <3>1, <3>2
  <2> HIDE DEF D
  <2> QED BY <2>1, <2>3, DescendantsInLeast
<1>12. excluded \subseteq X
  BY DEF X, excluded
<1>13. all \cap (excluded \cup D) = {}
  BY <1>3, <1>4, <1>6, <1>9, <1>12
<1> HIDE DEF D
<1>14. all \cap (excluded \cup DescendantsIn(InPool(pool), excluded)) = {}
  BY <1>11, <1>13
<1>15. \A x \in all : ConflictsWith[x] \cap all = {}
  BY <1>10
<1> QED BY <1>14, <1>15 DEF all, excluded

\* The chosen txs and the producer's part have nothing in common.
LEMMA FinalApart ==
  ASSUME ProducerContract, BlockInv, stage = "propose", NEW final \in Finalized[initial]
  PROVE  /\ ToSet(template) \subseteq InPool(pool) /\ ToSet(template) \cap Around = {}
         /\ (Prefix \cup ToSet(final.suffix_txs)) \cap InPool(pool) \subseteq Around
<1>1. BaseOK /\ ChosenOK /\ StageOK /\ PoolSound
  BY DEF BlockInv
<1>2. ToSet(final.suffix_txs) \subseteq ToSet(initial.suffix_txs) \cup Generated
  BY <1>1, FinalParts
<1> QED BY <1>1, <1>2 DEF BaseOK, ChosenOK, PoolSound, Around, Without

\* The mempool txs, the producer's part in the end, the commitment and a payout
\* weigh no more than what is usable.
LEMMA FinalFits ==
  ASSUME ProducerContract, BlockInv, stage = "propose", to_add = {},
         InitialWeight <= MaxUsableWeight, NEW final \in Finalized[initial],
         NEW F, F = Prefix \cup ToSet(final.suffix_txs), NEW C \in Nat, C <= PayoutWeight,
         NEW outs \in Nat, NEW asked \in Nat,
         InitialWeight = RealWeight(Prefix) + RealWeight(ToSet(initial.suffix_txs))
                           + initial.reserved + asked + CommitmentWeight + PayoutWeight,
         RealWeight(ToSet(final.suffix_txs)) + outs
           <= RealWeight(ToSet(initial.suffix_txs)) + initial.reserved + asked
  PROVE  LET chosen == ToSet(template)
         IN  /\ RealWeight(F) + TotalWeight(chosen) + (outs + CommitmentWeight + C) <= MaxUsableWeight
             /\ (\A t \in chosen : Weight[t] <= ModifiedWeight[t]) =>
                  RealWeight(F \cup chosen) + (outs + CommitmentWeight + C) <= MaxUsableWeight
<1> DEFINE P == Prefix
           S == ToSet(initial.suffix_txs)
           E == ToSet(final.suffix_txs)
           T == ToSet(template)
           reserved == initial.reserved
<1>1. WeightOK /\ StageOK /\ template \in Seq(Tx)
  BY DEF BlockInv, ProposalOK
<1>2. initial \in InitialTemplates /\ final.suffix_txs \in Seq(Tx)
  BY <1>1, FinalParts
<1>3. /\ initial.prefix_txs \in Seq(Tx) /\ initial.suffix_txs \in Seq(Tx)
      /\ reserved \in Nat
  BY <1>2, InitialTemplatesAssumption
<1>4. P \in SUBSET Tx /\ S \in SUBSET Tx /\ E \in SUBSET Tx /\ T \in SUBSET Tx
  BY <1>1, <1>2, <1>3 DEF ToSet, Prefix
<1>5. InitialWeight = RealWeight(P) + RealWeight(S) + reserved
                        + asked + CommitmentWeight + PayoutWeight
  OBVIOUS
<1>6. RealWeight(E) + outs <= RealWeight(S) + reserved + asked
  OBVIOUS
<1>7. CommitmentWeight \in Nat /\ PayoutWeight \in Nat /\ MaxUsableWeight \in Nat
  BY BlockWeightAssumption
<1>9. /\ weight_remaining \in Nat
      /\ weight_remaining + TotalWeight(T) <= MaxUsableWeight - InitialWeight
  <2>1. T \cup to_add = T
    OBVIOUS
  <2> QED BY <1>1, <2>1 DEF WeightOK, WeightLeft
<1>10. F = P \cup E
  OBVIOUS
<1> HIDE DEF P, S, E, T, reserved
<1>11. /\ RealWeight(P) \in Nat /\ RealWeight(S) \in Nat /\ RealWeight(E) \in Nat
       /\ RealWeight(T) \in Nat /\ TotalWeight(T) \in Nat
  BY <1>4, RealWeightGrows, WeightGrows
<1>12. F \in SUBSET Tx /\ RealWeight(F) \in Nat /\ RealWeight(F) <= RealWeight(P) + RealWeight(E)
  BY <1>4, <1>10, RealWeightGrows
<1>13. RealWeight(F) + TotalWeight(T) + (outs + CommitmentWeight + C) <= MaxUsableWeight
  <2>1. reserved \in Nat
    BY <1>3
  <2>2. InitialWeight \in Nat
    BY <1>5, <1>7, <1>11, <2>1
  <2>3. InitialWeight + TotalWeight(T) <= MaxUsableWeight
    BY <1>7, <1>9, <1>11, <2>2
  <2> QED BY <1>5, <1>6, <1>7, <1>11, <1>12, <2>1, <2>3
<1>14. ASSUME \A t \in T : Weight[t] <= ModifiedWeight[t]
       PROVE  RealWeight(F \cup T) + (outs + CommitmentWeight + C) <= MaxUsableWeight
  <2>1. RealWeight(T) <= TotalWeight(T)
    BY <1>4, <1>14, RealWeightGrows
  <2>2. F \cup T \in SUBSET Tx
    BY <1>4, <1>12
  <2>3. RealWeight(F \cup T) \in Nat /\ RealWeight(F \cup T) <= RealWeight(F) + RealWeight(T)
    BY <1>4, <1>12, <2>2, RealWeightGrows
  <2> QED BY <1>7, <1>11, <1>12, <1>13, <2>1, <2>3
<1> QED BY <1>13, <1>14 DEF T

\* The depends of its txs are in order.
LEMMA FinalDepends ==
  ASSUME BlockInv, stage = "propose", AncestorsFound,
         NEW txs \in Seq(Tx), IsInjective(txs), Spends(txs, {}),
         \A k \in DOMAIN template : txs[Len(initial.prefix_txs) + k] = template[k],
         NEW i \in DOMAIN txs,
         NEW named, named = {txs[j + 1] : j \in DependsOf(txs)[i]}
  PROVE  /\ DependsOf(txs)[i] \subseteq 0 .. (i - 2)
         /\ Vin[txs[i]] \cap ToSet(txs) \subseteq named
         /\ initial.prefix_txs = << >> => \A x \in named : txs[i] \in DescendantsIn(Tx, {x})
<1> DEFINE offset == Len(initial.prefix_txs)
           chosen == IF i - offset \in DOMAIN template
                     THEN {j - 1 : j \in {k \in DOMAIN template :
                             template[k] \in AncestorsMut(base.txs, txs[i])}}
                     ELSE {}
           direct == DependsOn(txs, i)
<1>1. BaseOK /\ ChosenOK /\ template \in Seq(Tx) /\ initial \in InitialTemplates
  BY DEF BlockInv, ProposalOK, StageOK
<1>2. /\ DOMAIN template = 1 .. Len(template) /\ Len(template) \in Nat
      /\ DOMAIN txs = 1 .. Len(txs) /\ Len(txs) \in Nat /\ offset \in Nat
  BY <1>1, InitialTemplatesAssumption
<1>3. DependsOf(txs)[i] = chosen \cup direct
  BY DEF DependsOf
<1>4. \A k \in DOMAIN txs : txs[k] \in Vin[txs[i]] => k < i
  <2> SUFFICES ASSUME NEW k \in DOMAIN txs, txs[k] \in Vin[txs[i]] PROVE k < i
    OBVIOUS
  <2>1. PICK j \in 1 .. (i - 1) : txs[k] = txs[j]
    BY DEF Spends
  <2>2. j \in DOMAIN txs
    BY <1>2
  <2>3. k = j
    BY <2>1, <2>2 DEF IsInjective
  <2> QED BY <1>2, <2>3
<1>5. direct = {k - 1 : k \in {j \in DOMAIN txs : txs[j] \in Vin[txs[i]]}}
  <2>1. {k \in 1 .. i : txs[k] \in Vin[txs[i]]} = {j \in DOMAIN txs : txs[j] \in Vin[txs[i]]}
    BY <1>2, <1>4
  <2> QED BY <2>1 DEF DependsOn
<1>6. ASSUME NEW k \in DOMAIN template, i - offset \in DOMAIN template,
             template[k] \in AncestorsMut(base.txs, txs[i])
      PROVE  k < i - offset /\ txs[i] = template[i - offset]
  <2>1. offset + (i - offset) = i
    BY <1>2
  <2>2. txs[i] = template[i - offset]
    BY <1>6, <2>1
  <2>3. template[k] \in Before(i - offset)
    BY <1>6, <2>2 DEF AncestorsFound
  <2>4. PICK j \in 1 .. ((i - offset) - 1) : template[k] = template[j]
    BY <2>3 DEF Before
  <2>5. j \in DOMAIN template
    BY <1>2, <1>6
  <2>6. k = j
    BY <1>1, <2>4, <2>5 DEF ChosenOK, IsInjective
  <2> QED BY <1>2, <2>2, <2>6
<1>7. direct \subseteq 0 .. (i - 2)
  BY <1>2, <1>4, <1>5
<1>8. chosen \subseteq 0 .. (i - 2)
  BY <1>2, <1>6
<1>9. Vin[txs[i]] \cap ToSet(txs) \subseteq named
  <2> SUFFICES ASSUME NEW k \in DOMAIN txs, txs[k] \in Vin[txs[i]] PROVE txs[k] \in named
    BY DEF ToSet
  <2>1. k - 1 \in direct /\ (k - 1) + 1 = k
    BY <1>2, <1>5
  <2> QED BY <1>3, <2>1
<1>10. ASSUME initial.prefix_txs = << >>, NEW x \in named
       PROVE  txs[i] \in DescendantsIn(Tx, {x})
  <2>1. offset = 0
    BY <1>10
  <2>2. PICK j \in chosen \cup direct : x = txs[j + 1]
    BY <1>3, <1>10
  <2>3. CASE j \in direct
    <3>1. PICK k \in DOMAIN txs : j = k - 1 /\ txs[k] \in Vin[txs[i]]
      BY <1>5, <2>3
    <3>2. x = txs[k]
      BY <1>2, <2>2, <3>1
    <3>3. txs[i] \in Tx
      BY <1>2
    <3>4. Vin[txs[i]] \cap ({x} \cup DescendantsIn(Tx, {x})) # {}
      BY <3>1, <3>2
    <3> QED BY <3>3, <3>4, DescendantsInClosed
  <2>4. CASE j \in chosen
    <3>1. PICK k \in DOMAIN template : /\ i - offset \in DOMAIN template /\ j = k - 1
                                       /\ template[k] \in AncestorsMut(base.txs, txs[i])
      BY <2>4
    <3>2. offset + k = j + 1
      BY <1>2, <2>1, <3>1
    <3>3. x = template[k]
      BY <2>2, <3>1, <3>2
    <3>4. txs[i] = template[i - offset]
      BY <1>6, <3>1
    <3>5. txs[i] \in InPool(base)
      BY <1>1, <3>1, <3>4 DEF ChosenOK, ToSet
    <3>6. Typed(base) /\ Linked(base)
      BY <1>1 DEF BaseOK
    <3> QED BY <3>1, <3>3, <3>5, <3>6, AncestorSpent
  <2> QED BY <2>2, <2>3, <2>4
<1>11. DependsOf(txs)[i] \subseteq 0 .. (i - 2)
  BY <1>3, <1>7, <1>8
<1> QED BY <1>9, <1>10, <1>11

\* The properties as statements about the txs and depends of a block.
TxsValid(txs) ==
  /\ IsInjective(txs)
  /\ \A i \in DOMAIN txs : /\ Vin[txs[i]] \subseteq {txs[j] : j \in 1 .. (i - 1)}
                          /\ ConflictsWith[txs[i]] \cap ToSet(txs) = {}

NothingExcluded(txs, excluded, inpool) ==
  ToSet(txs) \cap (excluded \cup DescendantsIn(inpool, excluded)) = {}

DependsValid(txs, depends, prefix_txs) ==
  \A i \in DOMAIN txs :
    LET named == {txs[j + 1] : j \in depends[i]}
    IN  /\ depends[i] \subseteq 0 .. (i - 2)
        /\ Vin[txs[i]] \cap ToSet(txs) \subseteq named
        /\ prefix_txs = << >> => \A x \in named : txs[i] \in DescendantsIn(Tx, {x})

\* BlockValid and DependsSound say this of the block.
LEMMA BlockProperties ==
  /\ BlockValid <=> /\ TxsValid(block.txs)
                    /\ stage = "filled" =>
                         NothingExcluded(block.txs, initial.exclude_mempool_txs \ Prefix, InPool(pool))
  /\ DependsSound <=> DependsValid(block.txs, block.depends, initial.prefix_txs)
BY DEF BlockValid, BlockBefore, DependsSound, TxsValid, NothingExcluded, DependsValid

\* The same of the next state.
LEMMA BlockPropertiesNext ==
  /\ BlockValid' <=> /\ TxsValid(block'.txs)
                     /\ stage' = "filled" =>
                          NothingExcluded(block'.txs, initial'.exclude_mempool_txs \ Prefix',
                                          InPool(pool'))
  /\ DependsSound' <=> DependsValid(block'.txs, block'.depends, initial'.prefix_txs)
BY DEF BlockValid, BlockBefore, DependsSound, TxsValid, NothingExcluded, DependsValid

\* The block is complete, or an error is returned.
LEMMA FinishesKeeps ==
  ASSUME ProducerContract, MutualConflicts, BlockInv, Finishes
  PROVE  BlockInv'
<1>1. PICK final \in Finalized[initial], height \in Heights : FinishTemplate(final, height)
  BY DEF Finishes
<1> DEFINE txs == initial.prefix_txs \o template \o final.suffix_txs
           reward == CoinbaseReward(txs, final.coinbase_txouts, height)
           payout == IF reward > 0 THEN <<reward>> ELSE << >>
<1>2. /\ stage = "propose" /\ calls = << >> /\ remove_stack = {} /\ to_add = {}
      /\ proposing' = FALSE /\ clone' = EmptyMempool /\ template' = << >>
      /\ UNCHANGED <<chain, unfiltered_txs, pool, under_child, calls, remove_stack, to_add, initial>>
      /\ \/ stage' = "failed" /\ block' = EmptyBlock
         \/ /\ stage' = "filled" /\ error' = "none" /\ error' = Outcome(reward)
            /\ block' = [txs |-> txs, depends |-> DependsOf(txs), height |-> height,
                         finalized |-> final,
                         coinbase |-> IF initial.coinbase_txn
                                      THEN final.coinbase_txouts \o payout ELSE << >>]
  BY <1>1 DEF FinishTemplate, EndProposal, Proposed, Proposes, callerVars, poolVars
<1>3. PoolSound /\ PoolsOK /\ ProposalOK /\ CloneOK /\ StageOK
  BY DEF BlockInv
<1>4. Prefix' = Prefix /\ InitialWeight' = InitialWeight
  BY <1>2 DEF Prefix, InitialWeight
<1>5. PoolSound'
  BY <1>2, <1>3 DEF PoolSound
<1>6. PoolsOK' /\ ProposalOK'
  BY <1>2, <1>3, EmptyOK DEF PoolsOK, ProposalOK
<1>7. CloneOK'
  BY <1>2, EmptyOK DEF CloneOK, Covers
<1>8. StageOK'
  BY <1>2, <1>3 DEF StageOK
<1>9. CASE stage' = "failed"
  BY <1>5, <1>6, <1>7, <1>8, <1>9, NothingFilled
<1>10. CASE stage' = "filled"
  <2> HIDE DEF txs, payout, reward
  <2>1. /\ block'.txs = txs /\ block'.depends = DependsOf(txs)
        /\ block'.finalized = final /\ Outcome(reward) = "none"
    BY <1>2, <1>10
  <2>2. AncestorsFound
    BY <2>1 DEF Outcome
  <2>3. /\ txs \in Seq(Tx) /\ IsInjective(txs) /\ Spends(txs, {})
        /\ \A i \in DOMAIN template : txs[Len(initial.prefix_txs) + i] = template[i]
        /\ ToSet(txs) = FinalSet(final)
    BY <1>2, FinalTxs DEF txs
  <2> DEFINE excluded == initial.exclude_mempool_txs \ Prefix
  <2>5. /\ \A x \in ToSet(txs) : ConflictsWith[x] \cap ToSet(txs) = {}
        /\ ToSet(txs) \cap (excluded \cup DescendantsIn(InPool(pool), excluded)) = {}
    <3>1. /\ \A x \in FinalSet(final) : ConflictsWith[x] \cap FinalSet(final) = {}
          /\ FinalSet(final) \cap (excluded \cup DescendantsIn(InPool(pool), excluded)) = {}
      BY <1>2, FinalConflicts
    <3> QED BY <2>3, <3>1
  <2>6. BlockValid'
    <3>1. \A i \in DOMAIN txs : Vin[txs[i]] \subseteq {txs[j] : j \in 1 .. (i - 1)}
      BY <2>3 DEF Spends
    <3>2. \A i \in DOMAIN txs : ConflictsWith[txs[i]] \cap ToSet(txs) = {}
      BY <2>5 DEF ToSet
    <3>3. TxsValid(txs)
      BY <2>3, <3>1, <3>2 DEF TxsValid
    <3>4. NothingExcluded(txs, excluded, InPool(pool))
      BY <2>5 DEF NothingExcluded
    <3>5. /\ TxsValid(block'.txs)
          /\ NothingExcluded(block'.txs, initial'.exclude_mempool_txs \ Prefix', InPool(pool'))
      BY <1>2, <1>4, <2>1, <3>3, <3>4
    <3> QED BY <3>5, BlockPropertiesNext
  <2> DEFINE F == Prefix \cup ToSet(final.suffix_txs)
  <2>7. BlockFits'
    <3> DEFINE outs == Len(final.coinbase_txouts) * TxoutWeight
               C == IF ~initial.coinbase_txn \/ Len(block'.coinbase) > Len(final.coinbase_txouts)
                    THEN PayoutWeight ELSE 0
               T == ToSet(template)
               asked == Len(initial.coinbase_txouts) * TxoutWeight
    <3>1. /\ Chosen' = ToSet(txs) \ F /\ CoinbaseWeight' = outs + CommitmentWeight + C
          /\ KeepsWeight(initial, block.finalized)' = KeepsWeight(initial, final)
      BY <1>2, <1>4, <2>1 DEF Chosen, CoinbaseWeight, KeepsWeight
    <3>2. ToSet(txs) = F \cup T /\ F \cap T = {}
      <4>1. ToSet(txs) = FinalSet(final)
        BY <2>3
      <4>2. /\ T \subseteq InPool(pool) /\ T \cap Around = {} /\ F \cap InPool(pool) \subseteq Around
        BY <1>2, <1>3, FinalApart
      <4> QED BY <4>1, <4>2 DEF FinalSet
    <3>3. C \in Nat /\ C <= PayoutWeight
      BY BlockWeightAssumption
    <3>4. /\ Len(initial.coinbase_txouts) \in Nat /\ Len(final.coinbase_txouts) \in Nat
          /\ outs \in Nat /\ asked \in Nat
      <4>1. initial \in InitialTemplates /\ final.coinbase_txouts \in Seq(Nat)
        BY <1>2, <1>3, FinalParts
      <4>2. Len(initial.coinbase_txouts) \in Nat /\ Len(final.coinbase_txouts) \in Nat
        BY <4>1, InitialTemplatesAssumption
      <4>3. \A a, b \in Nat : a * b \in Nat
        OBVIOUS
      <4> QED BY <4>2, <4>3, BlockWeightAssumption
    <3>5. Chosen' = T /\ ToSet(txs) \ T = F
      <4> HIDE DEF F, T
      <4> QED BY <3>1, <3>2
    <3>6. InitialWeight = RealWeight(Prefix) + RealWeight(ToSet(initial.suffix_txs))
                            + initial.reserved + asked + CommitmentWeight + PayoutWeight
      BY DEF InitialWeight
    <3>7. KeepsWeight(initial, final) =>
            RealWeight(ToSet(final.suffix_txs)) + outs
              <= RealWeight(ToSet(initial.suffix_txs)) + initial.reserved + asked
      BY DEF KeepsWeight
    <3>8. F = Prefix \cup ToSet(final.suffix_txs) /\ T = ToSet(template)
      OBVIOUS
    <3> HIDE DEF F, T, C, outs, asked
    <3> SUFFICES ASSUME InitialWeight <= MaxUsableWeight, KeepsWeight(initial, final)
                 PROVE  /\ RealWeight(F) + TotalWeight(T) + (outs + CommitmentWeight + C)
                             <= MaxUsableWeight
                        /\ (\A t \in T : Weight[t] <= ModifiedWeight[t]) =>
                             RealWeight(F \cup T) + (outs + CommitmentWeight + C)
                               <= MaxUsableWeight
      BY <1>2, <1>4, <2>1, <3>1, <3>2, <3>5 DEF BlockFits
    <3> QED BY <1>2, <3>3, <3>4, <3>6, <3>7, <3>8, FinalFits DEF Proposed
  <2>8. DependsSound'
    <3>1. ASSUME NEW i \in DOMAIN txs,
                 NEW named, named = {txs[j + 1] : j \in DependsOf(txs)[i]}
          PROVE  /\ DependsOf(txs)[i] \subseteq 0 .. (i - 2)
                 /\ Vin[txs[i]] \cap ToSet(txs) \subseteq named
                 /\ initial.prefix_txs = << >> =>
                      \A x \in named : txs[i] \in DescendantsIn(Tx, {x})
      BY <1>2, <2>2, <2>3, <3>1, FinalDepends
    <3>2. DependsValid(txs, DependsOf(txs), initial.prefix_txs)
      BY <3>1 DEF DependsValid
    <3> QED BY <1>2, <2>1, <3>2, BlockPropertiesNext
  <2>9. ~(stage' = "filter") /\ ~(stage' = "propose")
    BY <1>10
  <2> QED BY <1>5, <1>6, <1>7, <1>8, <2>6, <2>7, <2>8, <2>9 DEF BlockInv
<1> QED BY <1>2, <1>9, <1>10

\* The server starts anew.
LEMMA RespondKeeps ==
  ASSUME BlockInv, Respond
  PROVE  BlockInv'
<1>1. /\ stage \in {"filled", "failed"} /\ stage' = "idle" /\ block' = EmptyBlock
      /\ error' = "none"
      /\ UNCHANGED <<chain, unfiltered_txs, pool, under_child, calls, remove_stack, proposing,
                     clone, weight_limit, weight_remaining, to_add, template, base>>
  BY DEF Respond, callerVars, poolVars, proposalVars
<1>2. PoolSound /\ PoolsOK /\ ProposalOK /\ CloneOK /\ StageOK
  BY DEF BlockInv
<1>3. PoolSound'
  BY <1>1, <1>2 DEF PoolSound
<1>4. PoolsOK' /\ ProposalOK'
  BY <1>1, <1>2 DEF PoolsOK, ProposalOK
<1>5. StageOK'
  BY <1>1, <1>2 DEF StageOK
<1>6. CloneOK'
  BY <1>1, <1>2 DEF CloneOK, StageOK
<1> QED BY <1>1, <1>3, <1>4, <1>5, <1>6, NothingFilled

\* Nothing changes.
LEMMA StutterKeeps ==
  ASSUME BlockInv, UNCHANGED <<vars, blockVars>>
  PROVE  BlockInv'
<1> USE DEF vars, callerVars, poolVars, proposalVars, blockVars
<1>1. PoolSound' /\ PoolsOK' /\ ProposalOK' /\ StageOK'
  BY DEF BlockInv, PoolSound, PoolsOK, ProposalOK, StageOK
<1>2. CloneOK'
  BY DEF BlockInv, CloneOK, Prefix
<1>3. stage' = "filter" => FilterOK'
  BY DEF BlockInv, FilterOK, Prefix, Without
<1>4. stage' = "propose" => BaseOK' /\ WeightOK' /\ ChosenOK' /\ ConflictsOK'
  <2>1. WeightLeft' = WeightLeft
    BY DEF WeightLeft, InitialWeight, Prefix
  <2>2. ConflictsOK => ConflictsOK'
    BY DEF ConflictsOK, Inherits, Conflicting
  <2>3. BaseOK => BaseOK'
    BY DEF BaseOK, Prefix, Without
  <2>4. WeightOK => WeightOK'
    BY <2>1 DEF WeightOK
  <2>5. ChosenOK => ChosenOK'
    BY DEF ChosenOK, Prefix, Before
  <2> QED BY <2>2, <2>3, <2>4, <2>5 DEF BlockInv
<1>5. stage' = "filled" => BlockValid' /\ BlockFits' /\ DependsSound'
  <2>1. BlockValid => BlockValid'
    BY BlockProperties, BlockPropertiesNext DEF Prefix
  <2>2. InitialWeight' = InitialWeight
    BY DEF InitialWeight, Prefix
  <2>3. BlockFits => BlockFits'
    BY <2>2 DEF BlockFits, KeepsWeight, Chosen, CoinbaseWeight, Prefix
  <2>4. DependsSound => DependsSound'
    BY BlockProperties, BlockPropertiesNext
  <2> QED BY <2>1, <2>3, <2>4 DEF BlockInv
<1> QED BY <1>1, <1>2, <1>3, <1>4, <1>5 DEF BlockInv

\* Every step keeps the invariant.
LEMMA BlockNextInv ==
  ASSUME ProducerContract, MutualConflicts, CoherentPackages,
         BlockInv, [BlockNext]_<<vars, blockVars>>
  PROVE  BlockInv'
<1>1. ASSUME NEW t \in Tx, AddsTx(t) PROVE BlockInv'
  BY <1>1, AddsTxKeeps
<1>2. ASSUME NEW t \in InitialTemplates, StartTemplate(t) PROVE BlockInv'
  BY <1>2, StartTemplateKeeps
<1>3. CASE Filters
  BY <1>3, FiltersKeeps
<1>4. CASE StartProposing
  BY <1>4, StartProposingKeeps
<1>5. CASE ProposeTxs
  <2>1. /\ stage = "propose" /\ UNCHANGED blockVars
        /\ \/ ChoosePackage \/ RunCall
           \/ \E t \in Tx : AddFromPackage(t) \/ PopRemoveStack(t)
    BY <1>5 DEF ProposeTxs
  <2>2. CASE ChoosePackage
    BY <2>1, <2>2, ChoosePackageKeeps
  <2>3. CASE RunCall \/ \E t \in Tx : PopRemoveStack(t)
    BY <2>1, <2>3, ConflictsGo
  <2>4. ASSUME NEW t \in Tx, AddFromPackage(t) PROVE BlockInv'
    BY <2>1, <2>4, AddFromPackageKeeps
  <2> QED BY <2>1, <2>2, <2>3, <2>4
<1>6. CASE Finishes
  BY <1>6, FinishesKeeps
<1>7. CASE Respond
  BY <1>7, RespondKeeps
<1>8. CASE UNCHANGED <<vars, blockVars>>
  BY <1>8, StutterKeeps
<1> QED BY <1>1, <1>2, <1>3, <1>4, <1>5, <1>6, <1>7, <1>8 DEF BlockNext

\* BlockInv holds in every reachable state, of producers that keep to the
\* contract.
THEOREM BlockInvHolds ==
  ASSUME ProducerContract, MutualConflicts, CoherentPackages
  PROVE  BlockSpec => []BlockInv
<1>1. BlockInv /\ [BlockNext]_<<vars, blockVars>> => BlockInv'
  BY BlockNextInv
<1> QED BY <1>1, BlockInitInv, PTL DEF BlockSpec

\* A block has no tx twice, each after the unconfirmed txs that it spends, no two
\* that conflict, and nothing of what the producer has excluded.
THEOREM BlockValidHolds ==
  ASSUME ProducerContract, MutualConflicts, CoherentPackages
  PROVE  BlockSpec => []BlockValid
<1>1. BlockInv => BlockValid
  BY BlockInvImplies
<1> QED BY <1>1, BlockInvHolds, PTL

\* A block keeps to the usable weight if the producer's demands fit by themselves
\* and its final suffix and txouts weigh no more than it has asked for: with the
\* weights of mempool txs that the enforcer has tweaked, by which propose_txs
\* chooses, and with the real ones unless it made a chosen tx lighter.
THEOREM BlockFitsHolds ==
  ASSUME ProducerContract, MutualConflicts, CoherentPackages
  PROVE  BlockSpec => []BlockFits
<1>1. BlockInv => BlockFits
  BY BlockInvImplies
<1> QED BY <1>1, BlockInvHolds, PTL

\* The depends of a tx name what comes before it: all that it spends, and no tx
\* but its ancestors when there is no prefix.
THEOREM DependsSoundHolds ==
  ASSUME ProducerContract, MutualConflicts, CoherentPackages
  PROVE  BlockSpec => []DependsSound
<1>1. BlockInv => DependsSound
  BY BlockInvImplies
<1> QED BY <1>1, BlockInvHolds, PTL
------------------------------------------------------------------------------
\* The coinbase pays all.

\* The sum of txouts is the last of the sums that come about.
LEMMA SummedOneByOne ==
  ASSUME NEW p \in Seq(Nat)
  PROVE  \E g : /\ g[0] = 0
                /\ \A k \in 1 .. Len(p) : g[k] = g[k - 1] + p[k]
                /\ TotalValue(p) = g[Len(p)]
<1> DEFINE S == 1 .. Len(p)
           Ins(t, n) == n + t
           Step(h, s) == IF s = {} THEN 0 ELSE Ins(p[Max(s)], h[s \ {Max(s)}])
           Eq(l) == l = [s \in SUBSET S |-> Step(l, s)]
           l == CHOOSE l : Eq(l)
           Up(n, h) == \A s \in SUBSET S : Cardinality(s) <= n => h[s] = Step(h, s)
           T == {n \in Nat : \E h : Up(n, h)}
<1>1. TotalValue(p) = l[S]
  <2>1. DOMAIN p = S
    OBVIOUS
  <2> QED BY <2>1 DEF TotalValue, FoldLeft, MapThenFoldSet
<1>2. Len(p) \in Nat /\ IsFiniteSet(S) /\ Cardinality(S) = Len(p)
  <2>1. Len(p) \in Nat
    OBVIOUS
  <2>2. IsFiniteSet(S) /\ Cardinality(S) = IF 1 > Len(p) THEN 0 ELSE Len(p) - 1 + 1
    BY <2>1, FS_Interval
  <2> HIDE DEF S
  <2> QED BY <2>1, <2>2
<1> HIDE DEF Ins
<1>3. ASSUME NEW s \in SUBSET S, s # {}
      PROVE  /\ Max(s) \in s /\ s \ {Max(s)} \in SUBSET S
             /\ Cardinality(s) \in Nat
             /\ Cardinality(s \ {Max(s)}) = Cardinality(s) - 1
  <2>1. IsFiniteSet(s)
    BY <1>2, FS_Subset
  <2>2. Max(s) \in s
    BY <1>2, <1>3, MaxOfNumbers
  <2> QED BY <2>1, <2>2, FS_RemoveElement, FS_CardinalityType
<1>4. 0 \in T
  <2> DEFINE h == [s \in SUBSET S |-> 0]
  <2>1. \A s \in SUBSET S : Cardinality(s) <= 0 => s = {}
    <3> SUFFICES ASSUME NEW s \in SUBSET S, Cardinality(s) <= 0 PROVE s = {}
      OBVIOUS
    <3>1. IsFiniteSet(s)
      BY <1>2, FS_Subset
    <3> QED BY <3>1, FS_CardinalityType, FS_EmptySet
  <2>2. Up(0, h)
    BY <2>1
  <2> HIDE DEF h, Up
  <2> QED BY <2>2
<1>5. ASSUME NEW n \in T PROVE n + 1 \in T
  <2>1. PICK h : Up(n, h)
    OBVIOUS
  <2> DEFINE hh == [s \in SUBSET S |-> IF Cardinality(s) <= n THEN h[s] ELSE Step(h, s)]
  <2>2. ASSUME NEW s \in SUBSET S, Cardinality(s) <= n + 1
        PROVE  hh[s] = Step(hh, s)
    <3>1. hh[s] = Step(h, s)
      BY <2>1
    <3>2. CASE s = {}
      BY <3>1, <3>2
    <3>3. CASE s # {}
      <4>1. s \ {Max(s)} \in SUBSET S /\ Cardinality(s \ {Max(s)}) <= n
        BY <1>3, <2>2, <3>3
      <4>2. hh[s \ {Max(s)}] = h[s \ {Max(s)}]
        BY <4>1
      <4> QED BY <3>1, <3>3, <4>2
    <3> QED BY <3>2, <3>3
  <2> HIDE DEF hh, Step
  <2>3. Up(n + 1, hh)
    BY <2>2
  <2> HIDE DEF Up
  <2> QED BY <2>3
<1> HIDE DEF Up
<1>6. T \in SUBSET Nat
  OBVIOUS
<1> HIDE DEF T
<1>7. Len(p) \in T
  BY <1>2, <1>4, <1>5, <1>6, NatInduct
<1>8. PICK h : Up(Len(p), h)
  BY <1>7 DEF T
<1>9. \A s \in SUBSET S : h[s] = Step(h, s)
  <2>1. \A s \in SUBSET S : Cardinality(s) <= Len(p)
    BY <1>2, FS_Subset
  <2> QED BY <1>8, <2>1 DEF Up
<1>10. Eq([s \in SUBSET S |-> h[s]])
  <2> DEFINE hh == [s \in SUBSET S |-> h[s]]
  <2>1. ASSUME NEW s \in SUBSET S PROVE hh[s] = Step(hh, s)
    <3>1. CASE s = {}
      BY <1>9, <3>1
    <3>2. CASE s # {}
      <4>1. hh[s \ {Max(s)}] = h[s \ {Max(s)}]
        BY <1>3, <3>2
      <4> QED BY <1>9, <3>2, <4>1
    <3> QED BY <3>1, <3>2
  <2>2. hh = [s \in SUBSET S |-> hh[s]]
    OBVIOUS
  <2> HIDE DEF hh, Step
  <2>3. hh = [s \in SUBSET S |-> Step(hh, s)]
    BY <2>1, <2>2
  <2> QED BY <2>3 DEF hh
<1> HIDE DEF Step
<1>11. Eq(l)
  <2> HIDE DEF Eq
  <2> QED BY <1>10
<1>12. \A s \in SUBSET S : l[s] = Step(l, s)
  BY <1>11
<1> HIDE DEF l
<1> DEFINE g == [k \in 0 .. Len(p) |-> l[1 .. k]]
<1>13. g[0] = 0
  <2>1. 1 .. 0 = {} /\ g[0] = l[1 .. 0]
    BY <1>2
  <2> QED BY <1>12, <2>1 DEF Step
<1>14. ASSUME NEW k \in 1 .. Len(p) PROVE g[k] = Ins(p[k], g[k - 1])
  <2>1. 1 .. k \in SUBSET S /\ k \in 1 .. k /\ (1 .. k) \ {k} = 1 .. (k - 1)
    BY <1>2
  <2>2. Max(1 .. k) = k
    <3>1. Max(1 .. k) \in 1 .. k /\ \A y \in 1 .. k : Max(1 .. k) >= y
      <4>1. k \in Nat
        BY <1>2
      <4>2. 1 .. k # {}
        BY <2>1
      <4> QED BY <4>1, <4>2, MaxOfNumbers
    <3> QED BY <2>1, <3>1
  <2>3. l[1 .. k] = Ins(p[k], l[1 .. (k - 1)])
    <3>1. l[1 .. k] = Step(l, 1 .. k)
      BY <1>12, <2>1
    <3> QED BY <2>1, <2>2, <3>1 DEF Step
  <2>4. k \in 0 .. Len(p) /\ k - 1 \in 0 .. Len(p)
    BY <1>2
  <2> QED BY <2>3, <2>4
<1>15. l[S] = g[Len(p)]
  BY <1>2
<1> HIDE DEF g
<1>16. \A k \in 1 .. Len(p) : g[k] = g[k - 1] + p[k]
  BY <1>14 DEF Ins
<1> QED BY <1>1, <1>13, <1>15, <1>16

\* Sums of numbers are numbers, and one more txout adds its value.
LEMMA OneMoreTxout ==
  ASSUME NEW p \in Seq(Nat), NEW value \in Nat
  PROVE  TotalValue(p) \in Nat /\ TotalValue(p \o <<value>>) = TotalValue(p) + value
<1> DEFINE q == p \o <<value>>
<1>1. PICK g : /\ g[0] = 0
               /\ \A k \in 1 .. Len(p) : g[k] = g[k - 1] + p[k]
               /\ TotalValue(p) = g[Len(p)]
  BY SummedOneByOne
<1>2. /\ q \in Seq(Nat) /\ Len(p) \in Nat /\ Len(q) = Len(p) + 1 /\ q[Len(q)] = value
      /\ \A k \in 1 .. Len(p) : q[k] = p[k] /\ p[k] \in Nat /\ k \in 1 .. Len(q)
  OBVIOUS
<1> HIDE DEF q
<1>3. PICK h : /\ h[0] = 0
               /\ \A k \in 1 .. Len(q) : h[k] = h[k - 1] + q[k]
               /\ TotalValue(q) = h[Len(q)]
  BY <1>2, SummedOneByOne
<1> DEFINE T == {n \in Nat : n <= Len(p) => h[n] = g[n] /\ g[n] \in Nat}
<1>4. 0 \in T
  BY <1>1, <1>3
<1>5. ASSUME NEW n \in T PROVE n + 1 \in T
  <2> SUFFICES ASSUME n + 1 <= Len(p) PROVE h[n + 1] = g[n + 1] /\ g[n + 1] \in Nat
    OBVIOUS
  <2>1. n \in Nat /\ n + 1 \in 1 .. Len(p) /\ (n + 1) - 1 = n /\ h[n] = g[n] /\ g[n] \in Nat
    BY <1>2
  <2>2. g[n + 1] = g[n] + p[n + 1]
    BY <1>1, <2>1
  <2>3. h[n + 1] = h[n] + q[n + 1]
    BY <1>2, <1>3, <2>1
  <2> QED BY <1>2, <2>1, <2>2, <2>3
<1>6. T \in SUBSET Nat
  OBVIOUS
<1> HIDE DEF T
<1>7. Len(p) \in T
  BY <1>2, <1>4, <1>5, <1>6, NatInduct
<1>8. h[Len(p)] = g[Len(p)] /\ g[Len(p)] \in Nat
  BY <1>2, <1>7 DEF T
<1>9. h[Len(q)] = h[Len(p)] + value
  <2>1. Len(q) \in 1 .. Len(q) /\ Len(q) - 1 = Len(p)
    BY <1>2
  <2> QED BY <1>2, <1>3, <2>1
<1> QED BY <1>1, <1>3, <1>8, <1>9 DEF q

\* What repeats a step that is a function of numbers exists.
LEMMA Repeated ==
  ASSUME NEW start \in Nat, NEW step \in [Nat -> Nat]
  PROVE  \E f \in [Nat -> Nat] : f[0] = start /\ \A n \in Nat : f[n + 1] = step[f[n]]
<1> DEFINE Upto(h, n) == h[0] = start /\ \A k \in 0 .. (n - 1) : h[k + 1] = step[h[k]]
           T == {n \in Nat : \E h \in [0 .. n -> Nat] : Upto(h, n)}
           U == {n \in Nat : \A h, g : Upto(h, n) /\ Upto(g, n) => h[n] = g[n]}
<1>1. 0 \in T
  <2> DEFINE h == [k \in 0 .. 0 |-> start]
  <2>1. h \in [0 .. 0 -> Nat] /\ Upto(h, 0)
    OBVIOUS
  <2> HIDE DEF Upto, h
  <2> QED BY <2>1
<1>2. ASSUME NEW n \in T PROVE n + 1 \in T
  <2>1. PICK h \in [0 .. n -> Nat] : Upto(h, n)
    OBVIOUS
  <2> DEFINE g == [k \in 0 .. n + 1 |-> IF k <= n THEN h[k] ELSE step[h[n]]]
  <2>2. n \in Nat
    OBVIOUS
  <2>3. g \in [0 .. n + 1 -> Nat]
    <3> HIDE DEF T, Upto
    <3>1. n \in 0 .. n /\ \A k \in 0 .. n + 1 : k <= n => k \in 0 .. n
      BY <2>2
    <3>2. \A k \in 0 .. n : h[k] \in Nat
      BY <2>1
    <3>3. \A k \in 0 .. n + 1 : (IF k <= n THEN h[k] ELSE step[h[n]]) \in Nat
      BY <3>1, <3>2
    <3> QED BY <3>3
  <2>4. ASSUME NEW k \in 0 .. n PROVE g[k + 1] = step[g[k]]
    <3>1. g[k] = h[k]
      BY <2>2
    <3>2. CASE k = n
      BY <2>2, <3>1, <3>2
    <3>3. CASE k < n
      <4>1. k \in 0 .. (n - 1) /\ k + 1 \in 0 .. n + 1 /\ k + 1 <= n
        BY <2>2, <3>3
      <4>2. g[k + 1] = h[k + 1] /\ h[k + 1] = step[h[k]]
        BY <2>1, <4>1
      <4> QED BY <3>1, <4>2
    <3> QED BY <2>2, <3>2, <3>3
  <2>5. g[0] = start /\ n + 1 - 1 = n /\ n + 1 \in Nat
    BY <2>1, <2>2
  <2> HIDE DEF g
  <2>6. Upto(g, n + 1)
    BY <2>4, <2>5
  <2> HIDE DEF Upto
  <2> QED BY <2>3, <2>5, <2>6
<1>3. 0 \in U
  OBVIOUS
<1>4. ASSUME NEW n \in U PROVE n + 1 \in U
  <2> SUFFICES ASSUME NEW h, NEW g, Upto(h, n + 1), Upto(g, n + 1)
               PROVE  h[n + 1] = g[n + 1]
    OBVIOUS
  <2>1. n \in Nat /\ n \in 0 .. (n + 1 - 1) /\ 0 .. (n - 1) \subseteq 0 .. (n + 1 - 1)
    OBVIOUS
  <2>2. Upto(h, n) /\ Upto(g, n)
    BY <2>1
  <2>3. h[n] = g[n]
    <3> HIDE DEF Upto
    <3> QED BY <2>2
  <2>4. h[n + 1] = step[h[n]] /\ g[n + 1] = step[g[n]]
    BY <2>1
  <2> QED BY <2>3, <2>4
<1>5. Nat \subseteq T /\ Nat \subseteq U
  <2>1. T \in SUBSET Nat /\ U \in SUBSET Nat
    OBVIOUS
  <2> HIDE DEF T, U
  <2> QED BY <1>1, <1>2, <1>3, <1>4, <2>1, NatInduct
<1> DEFINE H(n) == CHOOSE h \in [0 .. n -> Nat] : Upto(h, n)
           f == [n \in Nat |-> H(n)[n]]
<1> HIDE DEF Upto
<1>6. ASSUME NEW n \in Nat PROVE H(n) \in [0 .. n -> Nat] /\ Upto(H(n), n)
  <2>1. \E h \in [0 .. n -> Nat] : Upto(h, n)
    BY <1>5
  <2> QED BY <2>1
<1> HIDE DEF H, T
<1>7. f \in [Nat -> Nat]
  BY <1>6
<1>8. f[0] = start
  BY <1>6 DEF Upto
<1>9. ASSUME NEW n \in Nat PROVE f[n + 1] = step[f[n]]
  <2>1. n + 1 \in Nat /\ n \in 0 .. (n + 1 - 1) /\ 0 .. (n - 1) \subseteq 0 .. (n + 1 - 1)
    OBVIOUS
  <2>2. Upto(H(n + 1), n + 1) /\ Upto(H(n), n)
    BY <1>6, <2>1
  <2>3. Upto(H(n + 1), n) /\ H(n + 1)[n + 1] = step[H(n + 1)[n]]
    BY <2>1, <2>2 DEF Upto
  <2>4. H(n + 1)[n] = H(n)[n]
    BY <1>5, <2>2, <2>3
  <2> QED BY <2>1, <2>3, <2>4
<1> HIDE DEF f
<1> QED BY <1>7, <1>8, <1>9

\* The powers of two.
LEMMA PowerSteps ==
  /\ PowerOfTwo \in [Nat -> Nat] /\ PowerOfTwo[0] = 1
  /\ \A n \in Nat : PowerOfTwo[n + 1] = 2 * PowerOfTwo[n]
<1> DEFINE step == [v \in Nat |-> 2 * v]
           Is(p) == p = [n \in Nat |-> IF n = 0 THEN 1 ELSE 2 * p[n - 1]]
<1>1. step \in [Nat -> Nat]
  OBVIOUS
<1>2. PICK f \in [Nat -> Nat] : f[0] = 1 /\ \A n \in Nat : f[n + 1] = step[f[n]]
  <2> HIDE DEF step
  <2>1. 1 \in Nat
    OBVIOUS
  <2> QED BY <1>1, <2>1, Repeated, Zenon
<1>3. Is(f)
  <2>1. ASSUME NEW n \in Nat PROVE f[n] = IF n = 0 THEN 1 ELSE 2 * f[n - 1]
    <3>1. CASE n = 0
      BY <1>2, <3>1
    <3>2. CASE n # 0
      <4>1. n - 1 \in Nat /\ n - 1 + 1 = n
        BY <3>2
      <4>2. f[n - 1 + 1] = step[f[n - 1]] /\ f[n - 1] \in Nat
        BY <1>2, <4>1
      <4> QED BY <3>2, <4>1, <4>2
    <3> QED BY <3>1, <3>2
  <2> DEFINE g == [n \in Nat |-> IF n = 0 THEN 1 ELSE 2 * f[n - 1]]
  <2>2. \A n \in Nat : f[n] = g[n]
    BY <2>1
  <2>3. f = [n \in Nat |-> f[n]] /\ g = [n \in Nat |-> g[n]]
    OBVIOUS
  <2> HIDE DEF g
  <2>4. f = g
    BY <2>2, <2>3
  <2> QED BY <2>4 DEF g
<1>4. Is(PowerOfTwo)
  <2>1. PowerOfTwo = CHOOSE p : Is(p)
    BY DEF PowerOfTwo
  <2> HIDE DEF Is
  <2> QED BY <1>3, <2>1
<1>5. \A n \in Nat : PowerOfTwo[n] = IF n = 0 THEN 1 ELSE 2 * PowerOfTwo[n - 1]
  <2> DEFINE g == [n \in Nat |-> IF n = 0 THEN 1 ELSE 2 * PowerOfTwo[n - 1]]
  <2>1. \A n \in Nat : g[n] = IF n = 0 THEN 1 ELSE 2 * PowerOfTwo[n - 1]
    OBVIOUS
  <2>2. PowerOfTwo = g
    BY <1>4
  <2> HIDE DEF g
  <2> QED BY <2>1, <2>2
<1>6. PowerOfTwo = [n \in Nat |-> PowerOfTwo[n]]
  BY <1>4
<1> HIDE DEF Is
<1>7. \A n \in Nat : PowerOfTwo[n + 1] = 2 * PowerOfTwo[n]
  <2>1. \A n \in Nat : n + 1 \in Nat /\ n + 1 # 0 /\ n + 1 - 1 = n
    OBVIOUS
  <2> QED BY <1>5, <2>1
<1>8. \A n \in Nat : PowerOfTwo[n] \in Nat
  <2> DEFINE T == {n \in Nat : PowerOfTwo[n] \in Nat}
  <2>1. 0 \in T /\ \A n \in T : n + 1 \in T
    BY <1>5, <1>7
  <2>2. T \in SUBSET Nat
    OBVIOUS
  <2> HIDE DEF T
  <2>3. Nat \subseteq T
    BY <2>1, <2>2, NatInduct
  <2> QED BY <2>3 DEF T
<1> QED BY <1>5, <1>6, <1>7, <1>8

\* The halved subsidies.
LEMMA HalvedSteps ==
  /\ Halved \in [Nat -> Nat] /\ Halved[0] = InitialSubsidy
  /\ \A n \in Nat : Halved[n + 1] = Halved[n] \div 2
<1> DEFINE step == [v \in Nat |-> v \div 2]
           Is(p) == p = [n \in Nat |-> IF n = 0 THEN InitialSubsidy ELSE p[n - 1] \div 2]
<1>1. step \in [Nat -> Nat]
  OBVIOUS
<1>2. PICK f \in [Nat -> Nat] : f[0] = InitialSubsidy /\ \A n \in Nat : f[n + 1] = step[f[n]]
  <2> HIDE DEF step
  <2>1. InitialSubsidy \in Nat
    BY SubsidyAssumption
  <2> QED BY <1>1, <2>1, Repeated, Zenon
<1>3. Is(f)
  <2>1. ASSUME NEW n \in Nat PROVE f[n] = IF n = 0 THEN InitialSubsidy ELSE f[n - 1] \div 2
    <3>1. CASE n = 0
      BY <1>2, <3>1
    <3>2. CASE n # 0
      <4>1. n - 1 \in Nat /\ n - 1 + 1 = n
        BY <3>2
      <4>2. f[n - 1 + 1] = step[f[n - 1]] /\ f[n - 1] \in Nat
        BY <1>2, <4>1
      <4> QED BY <3>2, <4>1, <4>2
    <3> QED BY <3>1, <3>2
  <2> DEFINE g == [n \in Nat |-> IF n = 0 THEN InitialSubsidy ELSE f[n - 1] \div 2]
  <2>2. \A n \in Nat : f[n] = g[n]
    BY <2>1
  <2>3. f = [n \in Nat |-> f[n]] /\ g = [n \in Nat |-> g[n]]
    OBVIOUS
  <2> HIDE DEF g
  <2>4. f = g
    BY <2>2, <2>3
  <2> QED BY <2>4 DEF g
<1>4. Is(Halved)
  <2>1. Halved = CHOOSE p : Is(p)
    BY DEF Halved
  <2> HIDE DEF Is
  <2> QED BY <1>3, <2>1
<1>5. \A n \in Nat : Halved[n] = IF n = 0 THEN InitialSubsidy ELSE Halved[n - 1] \div 2
  <2> DEFINE g == [n \in Nat |-> IF n = 0 THEN InitialSubsidy ELSE Halved[n - 1] \div 2]
  <2>1. \A n \in Nat : g[n] = IF n = 0 THEN InitialSubsidy ELSE Halved[n - 1] \div 2
    OBVIOUS
  <2>2. Halved = g
    BY <1>4
  <2> HIDE DEF g
  <2> QED BY <2>1, <2>2
<1>6. Halved = [n \in Nat |-> Halved[n]]
  BY <1>4
<1> HIDE DEF Is
<1>7. \A n \in Nat : Halved[n + 1] = Halved[n] \div 2
  <2>1. \A n \in Nat : n + 1 \in Nat /\ n + 1 # 0 /\ n + 1 - 1 = n
    OBVIOUS
  <2> QED BY <1>5, <2>1
<1>8. \A n \in Nat : Halved[n] \in Nat
  <2> DEFINE T == {n \in Nat : Halved[n] \in Nat}
  <2>1. 0 \in T /\ \A n \in T : n + 1 \in T
    BY <1>5, <1>7, SubsidyAssumption
  <2>2. T \in SUBSET Nat
    OBVIOUS
  <2> HIDE DEF T
  <2>3. Nat \subseteq T
    BY <2>1, <2>2, NatInduct
  <2> QED BY <2>3 DEF T
<1> QED BY <1>5, <1>6, <1>7, <1>8

\* Dividing twice.
LEMMA DivideTwice ==
  ASSUME NEW x \in Nat, NEW a \in Nat \ {0}
  PROVE  (x \div a) \div 2 = x \div (2 * a)
<1> DEFINE q == x \div a
           h == q \div 2
<1>1. q \in Nat /\ a * q <= x /\ x < a * (q + 1)
  OBVIOUS
<1>2. h \in Nat /\ 2 * h <= q /\ q + 1 <= 2 * h + 2
  OBVIOUS
<1> HIDE DEF q, h
<1>3. a * (2 * h) <= a * q /\ a * (q + 1) <= a * (2 * h + 2)
  BY <1>1, <1>2
<1>4. (2 * a) * h <= x /\ x < (2 * a) * (h + 1)
  BY <1>1, <1>2, <1>3
<1>5. x \div (2 * a) = h
  BY <1>2, <1>4
<1> QED BY <1>5 DEF q, h

\* A shift of fewer than 64 bits, and nothing from there on, halves the subsidy as
\* often as it is to be.
LEMMA SubsidyIsHalved ==
  ASSUME NEW height \in Nat
  PROVE  /\ Subsidy(height) = Halved[height \div HalvingInterval]
         /\ Subsidy(height) \in Nat
<1> DEFINE halvings == height \div HalvingInterval
           T == {n \in Nat : PowerOfTwo[n] # 0 /\ InitialSubsidy \div PowerOfTwo[n] = Halved[n]}
           U == {n \in Nat : Halved[64 + n] = 0}
<1>1. halvings \in Nat
  BY SubsidyAssumption
<1>2. 0 \in T
  <2>1. InitialSubsidy \div 1 = InitialSubsidy
    BY SubsidyAssumption
  <2> QED BY <2>1, PowerSteps, HalvedSteps
<1>3. ASSUME NEW n \in T PROVE n + 1 \in T
  <2>1. n \in Nat /\ PowerOfTwo[n] \in Nat \ {0} /\ Halved[n] = InitialSubsidy \div PowerOfTwo[n]
    BY PowerSteps
  <2>2. PowerOfTwo[n + 1] = 2 * PowerOfTwo[n] /\ Halved[n + 1] = Halved[n] \div 2
    BY <2>1, PowerSteps, HalvedSteps
  <2>3. (InitialSubsidy \div PowerOfTwo[n]) \div 2 = InitialSubsidy \div (2 * PowerOfTwo[n])
    BY <2>1, DivideTwice, SubsidyAssumption
  <2>4. 2 * PowerOfTwo[n] # 0 /\ n + 1 \in Nat
    BY <2>1
  <2> QED BY <2>1, <2>2, <2>3, <2>4
<1>4. 0 \in U
  BY SubsidyWidthAssumption
<1>5. ASSUME NEW n \in U PROVE n + 1 \in U
  <2>1. n \in Nat /\ 64 + n \in Nat /\ Halved[64 + n] = 0 /\ 64 + (n + 1) = 64 + n + 1
    OBVIOUS
  <2>2. Halved[64 + n + 1] = 0 \div 2
    BY <2>1, HalvedSteps
  <2> QED BY <2>1, <2>2
<1>6. Nat \subseteq T /\ Nat \subseteq U
  <2>1. T \in SUBSET Nat /\ U \in SUBSET Nat
    OBVIOUS
  <2> HIDE DEF T, U
  <2> QED BY <1>2, <1>3, <1>4, <1>5, <2>1, NatInduct
<1>7. Subsidy(height) = Halved[halvings]
  <2> HIDE DEF halvings
  <2>1. Subsidy(height) = IF halvings >= 64 THEN 0 ELSE InitialSubsidy \div PowerOfTwo[halvings]
    BY DEF Subsidy, halvings
  <2>2. CASE halvings >= 64
    <3>1. halvings - 64 \in Nat /\ 64 + (halvings - 64) = halvings
      BY <1>1, <2>2
    <3> QED BY <1>6, <2>1, <2>2, <3>1
  <2>3. CASE ~(halvings >= 64)
    BY <1>1, <1>6, <2>1, <2>3
  <2> QED BY <2>2, <2>3
<1>8. Halved[halvings] \in Nat
  BY <1>1, HalvedSteps
<1> QED BY <1>7, <1>8

\* The txs of the template and what the producer has asked for are what they are
\* declared to be, and a finished coinbase pays all.
PayInv ==
  /\ template \in Seq(Tx)
  /\ stage # "idle" => initial \in InitialTemplates
  /\ CoinbasePaysAll

\* The txouts of the producer and the payout add up to the reward.
LEMMA FinishesPays ==
  ASSUME PayInv, stage # "idle",
         NEW final \in Finalized[initial], NEW height \in Heights, FinishTemplate(final, height)
  PROVE  CoinbasePaysAll'
<1> DEFINE txs == initial.prefix_txs \o template \o final.suffix_txs
           reward == CoinbaseReward(txs, final.coinbase_txouts, height)
           payout == IF reward > 0 THEN <<reward>> ELSE << >>
           outs == final.coinbase_txouts
<1>1. SUFFICES ASSUME stage' = "filled", initial'.coinbase_txn
               PROVE  TotalValue(block'.coinbase)
                        = TotalFee(ToSet(block'.txs)) + Halved[block'.height \div HalvingInterval]
  BY DEF CoinbasePaysAll
<1>2. Outcome(reward) = "none" /\ block'.coinbase = outs \o payout
      /\ block'.txs = txs /\ block'.height = height
  <2> HIDE DEF reward
  <2>1. error' = "none" /\ error' = Outcome(reward)
    BY <1>1 DEF FinishTemplate, EndProposal, reward
  <2>2. block' = [txs |-> txs, depends |-> DependsOf(txs), height |-> height,
                  finalized |-> final,
                  coinbase |-> IF initial.coinbase_txn THEN outs \o payout ELSE << >>]
    BY <2>1 DEF FinishTemplate, EndProposal, reward
  <2>3. initial.coinbase_txn
    BY <1>1 DEF FinishTemplate, EndProposal
  <2> HIDE DEF payout, outs, txs
  <2> QED BY <2>1, <2>2, <2>3
<1>3. ~(reward < 0)
  <2>1. initial.coinbase_txn
    BY <1>1 DEF FinishTemplate, EndProposal
  <2> QED BY <1>2, <2>1 DEF Outcome
<1>4. /\ height \in Nat /\ Subsidy(height) \in Nat
      /\ Subsidy(height) = Halved[height \div HalvingInterval]
  BY SubsidyAssumption, SubsidyIsHalved
<1>5. outs \in Seq(Nat) /\ TotalValue(outs) \in Nat
  <2>1. outs \in Seq(Nat)
    BY FinalizedAssumption DEF PayInv
  <2>2. 0 \in Nat
    OBVIOUS
  <2> QED BY <2>1, <2>2, OneMoreTxout
<1>6. TotalFee(ToSet(txs)) \in Nat
  <2>1. Fee \in [Tx -> Nat]
    BY FeeAssumption
  <2>2. /\ initial.prefix_txs \in Seq(Tx) /\ template \in Seq(Tx) /\ final.suffix_txs \in Seq(Tx)
    BY InitialTemplatesAssumption, FinalizedAssumption DEF PayInv
  <2>3. txs \in Seq(Tx)
    BY <2>2
  <2> HIDE DEF txs
  <2>4. ToSet(txs) \in SUBSET Tx
    BY <2>3 DEF ToSet
  <2> QED BY <2>1, <2>4, SumIsNat DEF TotalFee, SumOver
<1> HIDE DEF txs
<1> DEFINE all == Subsidy(height) + TotalFee(ToSet(txs))
<1>7. reward = all - TotalValue(outs) /\ all \in Nat
  <2>1. \A i, j \in Nat : i + j \in Nat
    OBVIOUS
  <2>2. reward = Subsidy(height) + TotalFee(ToSet(txs)) - TotalValue(outs)
    BY DEF CoinbaseReward, outs, reward
  <2> HIDE DEF reward, outs
  <2> QED BY <1>4, <1>5, <1>6, <2>1, <2>2
<1> HIDE DEF reward, all, outs
<1>8. TotalValue(outs \o payout) = all
  <2>1. CASE reward > 0
    <3>1. reward \in Nat /\ payout = <<reward>>
      BY <1>5, <1>7, <2>1
    <3>2. TotalValue(outs \o <<reward>>) = TotalValue(outs) + reward
      BY <1>5, <3>1, OneMoreTxout
    <3> QED BY <1>5, <1>7, <3>1, <3>2
  <2>2. CASE ~(reward > 0)
    <3>1. reward = 0 /\ payout = << >>
      BY <1>3, <1>5, <1>7, <2>2
    <3>2. outs \o payout = outs
      BY <1>5, <3>1
    <3> HIDE DEF payout
    <3> QED BY <1>5, <1>7, <3>1, <3>2
  <2> QED BY <2>1, <2>2
<1> QED BY <1>2, <1>4, <1>6, <1>8 DEF all

\* Every step keeps this.
LEMMA PayNext ==
  ASSUME PayInv, [BlockNext]_<<vars, blockVars>>
  PROVE  PayInv'
<1> USE DEF vars, callerVars, poolVars, proposalVars, blockVars
<1>1. template' \in Seq(Tx)
  <2> DEFINE Kept == \/ template' = template \/ template' = << >>
                     \/ \E t \in Tx : template' = Append(template, t)
  <2>1. ASSUME NEW t \in Tx, AddsTx(t) PROVE Kept
    BY <2>1 DEF AddsTx, AddTx
  <2>2. ASSUME NEW t, StartTemplate(t) PROVE Kept
    BY <2>2 DEF StartTemplate
  <2>3. ASSUME RunCall \/ \E t \in Tx : PopRemoveStack(t) PROVE Kept
    BY <2>3 DEF RunCall, PopRemoveStack
  <2>4. ASSUME Filters PROVE Kept
    BY <2>3, <2>4 DEF Filters
  <2>5. ASSUME ProposeTxs PROVE Kept
    BY <2>3, <2>5 DEF ProposeTxs, ChoosePackage, AddFromPackage
  <2>6. ASSUME StartProposing \/ Respond \/ UNCHANGED <<vars, blockVars>> PROVE Kept
    BY <2>6 DEF StartProposing, Respond
  <2>7. ASSUME Finishes PROVE Kept
    BY <2>7 DEF Finishes, FinishTemplate, EndProposal
  <2>8. Kept
    BY <2>1, <2>2, <2>4, <2>5, <2>6, <2>7 DEF BlockNext
  <2>9. << >> \in Seq(Tx) /\ \A s \in Seq(Tx), t \in Tx : Append(s, t) \in Seq(Tx)
    OBVIOUS
  <2> QED BY <2>8, <2>9, Zenon DEF PayInv
<1>2. CASE Finishes
  <2>1. PICK final \in Finalized[initial], height \in Heights : FinishTemplate(final, height)
    BY <1>2 DEF Finishes
  <2>2. stage # "idle" /\ initial' = initial
    BY <2>1 DEF FinishTemplate, EndProposal, Proposed
  <2>4. CoinbasePaysAll'
    BY <2>1, <2>2, FinishesPays
  <2> QED BY <1>1, <2>2, <2>4 DEF PayInv
<1>3. CASE ~Finishes
  <2>1. /\ stage' = "filled" => stage = "filled" /\ block' = block /\ initial' = initial
        /\ stage' # "idle" => initial' \in InitialTemplates
    BY <1>3 DEF BlockNext, AddsTx, StartTemplate, Filters, StartProposing, ProposeTxs, Respond, PayInv
  <2>2. CoinbasePaysAll'
    BY <2>1 DEF PayInv, CoinbasePaysAll
  <2> QED BY <1>1, <2>1, <2>2 DEF PayInv
<1> QED BY <1>2, <1>3

\* The coinbase that finalize_coinbase_tx makes for a coinbasetxn template pays
\* all fees and the subsidy of its height, no more and no less, whatever txouts
\* finalize_block_template has left in it.
THEOREM CoinbasePaysAllHolds ==
  BlockSpec => []CoinbasePaysAll
<1>1. BlockInit => PayInv
  BY DEF BlockInit, Init, PayInv, CoinbasePaysAll
<1>2. PayInv /\ [BlockNext]_<<vars, blockVars>> => PayInv'
  BY PayNext
<1>3. PayInv => CoinbasePaysAll
  BY DEF PayInv
<1> QED BY <1>1, <1>2, <1>3, PTL DEF BlockSpec
================================================================================
