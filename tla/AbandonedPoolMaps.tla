-------------------------- MODULE AbandonedPoolMaps ---------------------------
(***************************************************************************)
(* The abandoned pool as lib/mempool/sync/abandoned_pool.rs keeps it: the  *)
(* abandoned txs with their parents and children, and for the parents that *)
(* are not abandoned themselves two maps to their children.  Entries may   *)
(* be stale: nothing clears a tx from the maps of all its parents.         *)
(*                                                                         *)
(* The loops of remove_descendant_txs and restore_descendant_txs are       *)
(* steps; `call` is the call that is under way.  Linked hash sets are      *)
(* sets, so their order is a choice.                                       *)
(***************************************************************************)
EXTENDS AbandonedPool

\* A txid is a hash of what the tx spends.
ASSUME NoSelfSpend == \A t \in Tx : t \notin Vin[t]

VARIABLES
  abandoned_txs,                  \* tx -> AbandonedTx
  absent_parent_to_child_txids,   \* tx -> its entry, {} if there is none
  available_parent_to_child_txids,
  call,                           \* local variables of the current call
  returned                        \* the last call, and the txs that it gave back

maps == <<abandoned_txs, absent_parent_to_child_txids, available_parent_to_child_txids>>

vars == <<maps, call, returned>>

Members == DOMAIN abandoned_txs

NoCall == [op |-> "none"]

\* What each member misses.
Missing ==
  [t \in Members |-> abandoned_txs[t].abandoned_parent_txids
                       \cup abandoned_txs[t].absent_parent_txids]

Init ==
  /\ abandoned_txs = EmptyPool
  /\ absent_parent_to_child_txids = [t \in Tx |-> {}]
  /\ available_parent_to_child_txids = [t \in Tx |-> {}]
  /\ call = NoCall
  /\ returned = << >>

Return(op, t, txs) == call' = NoCall /\ returned' = <<op, t, txs>>

------------------------------------------------------------------------------

\* insert, for a tx that is in the pool already
InsertAgain(t) ==
  /\ call = NoCall
  /\ t \in Members
  /\ Return("insert", t, << >>)
  /\ UNCHANGED maps

\* A set with t in it, or none.
Only(t, condition) == IF condition THEN {t} ELSE {}

\* insert: a parent gets t as a child where it is, in the pool, among the absent
\* or among the available.  What either map held of t's children moves to t's
\* entry, and those of them that are members now have t as an abandoned parent.
InsertNew(t, absent) ==
  /\ call = NoCall
  /\ t \notin Members
  /\ Vin[t] \cap (Members \cup absent) # {}
  /\ LET children == absent_parent_to_child_txids[t] \cup available_parent_to_child_txids[t]
         gone == (Vin[t] \cap absent) \ Members
         available == Vin[t] \ (Members \cup gone)
     IN  /\ abandoned_txs' =
              [c \in Members \cup {t} |->
                 IF c = t
                 THEN [abandoned_parent_txids |-> Vin[t] \cap Members,
                       absent_parent_txids |-> gone, child_txids |-> children]
                 ELSE [abandoned_parent_txids |-> abandoned_txs[c].abandoned_parent_txids
                                                    \cup Only(t, c \in children),
                       absent_parent_txids |-> abandoned_txs[c].absent_parent_txids
                                                 \ Only(t, c \in children),
                       child_txids |-> abandoned_txs[c].child_txids
                                         \cup Only(t, c \in Vin[t])]]
         /\ absent_parent_to_child_txids' =
              [x \in Tx |-> IF x = t THEN {}
                            ELSE absent_parent_to_child_txids[x] \cup Only(t, x \in gone)]
         /\ available_parent_to_child_txids' =
              [x \in Tx |-> IF x = t THEN {}
                            ELSE available_parent_to_child_txids[x] \cup Only(t, x \in available)]
  /\ Return("insert", t, << >>)

------------------------------------------------------------------------------
\* remove: the three maps without t.  Parents forget t, in the first place in
\* which they have an entry, and the children of t get it as an absent parent.

\* The txs that `remove` returns: t, if it is there.
Removes(t) == IF t \in Members THEN <<t>> ELSE << >>

\* child_txids of its entry, if it is there.
ChildsOf(t) == UNION {abandoned_txs[x].child_txids : x \in Members \cap {t}}

TxsWithout(t) ==
  [c \in Members \ {t} |->
     LET orphaned == Only(t, c \in ChildsOf(t))
     IN  [abandoned_parent_txids |-> abandoned_txs[c].abandoned_parent_txids \ orphaned,
          absent_parent_txids |-> abandoned_txs[c].absent_parent_txids \cup orphaned,
          child_txids |-> abandoned_txs[c].child_txids \ Only(t, t \in Members /\ c \in Vin[t])]]

\* Wrong: the children of t are left without an entry that leads to them.
AbsentForgetting(t) ==
  [x \in Tx |-> absent_parent_to_child_txids[x] \ Only(t, x \in Vin[t] \ Members)]

AbsentWithout(t) ==
  [x \in Tx |->
     IF x = t THEN IF ChildsOf(t) = {} THEN absent_parent_to_child_txids[t] ELSE ChildsOf(t)
     ELSE absent_parent_to_child_txids[x]
            \ Only(t, t \in Members /\ x \in Vin[t] \ Members)]

AvailableWithout(t) ==
  [x \in Tx |->
     available_parent_to_child_txids[x]
       \ Only(t, /\ t \in Members
                 /\ x \in Vin[t] \ Members
                 /\ absent_parent_to_child_txids[x] = {})]

RemoveTx(t) ==
  /\ call = NoCall
  /\ abandoned_txs' = TxsWithout(t)
  /\ absent_parent_to_child_txids' = AbsentWithout(t)
  /\ available_parent_to_child_txids' = AvailableWithout(t)
  /\ Return("remove", t, Removes(t))

------------------------------------------------------------------------------
\* remove_descendant_txs: t is removed, if it is there, and the children that
\* the two maps have of it are the first to be looked at.

RemoveDescendants(t) ==
  /\ call = NoCall
  /\ abandoned_txs' = TxsWithout(t)
  /\ absent_parent_to_child_txids' = [AbsentWithout(t) EXCEPT ![t] = {}]
  /\ available_parent_to_child_txids' = [AvailableWithout(t) EXCEPT ![t] = {}]
  /\ call' = [op |-> "remove_descendants", tx |-> t, before |-> Missing, res |-> Removes(t),
              stack |-> AbsentWithout(t)[t] \cup AvailableWithout(t)[t]]
  /\ UNCHANGED returned

\* The loop: whatever is on the stack is removed, and its children follow.
RemoveNext ==
  /\ call.op = "remove_descendants"
  /\ \E t \in call.stack :
       /\ abandoned_txs' = TxsWithout(t)
       /\ absent_parent_to_child_txids' = [AbsentWithout(t) EXCEPT ![t] = {}]
       /\ available_parent_to_child_txids' = AvailableWithout(t)
       /\ call' = [call EXCEPT !.res = @ \o Removes(t),
                               !.stack = (@ \ {t}) \cup AbsentWithout(t)[t]]
  /\ UNCHANGED returned

RemoveReturn ==
  /\ call.op = "remove_descendants"
  /\ call.stack = {}
  /\ Return(call.op, call.tx, call.res)
  /\ UNCHANGED maps

------------------------------------------------------------------------------
\* restore_descendant_txs: first the children of t are looked at, then those of
\* each tx that was restored.  `parent` is the tx whose children are being
\* looked at, `children` those that are left of them.

RestoreDescendants(t) ==
  /\ call = NoCall
  /\ absent_parent_to_child_txids' = [absent_parent_to_child_txids EXCEPT ![t] = {}]
  /\ call' = [op |-> "restore_descendants", tx |-> t, before |-> Missing, res |-> << >>,
              parent |-> t, children |-> absent_parent_to_child_txids[t],
              stack |-> << >>]
  /\ UNCHANGED <<abandoned_txs, available_parent_to_child_txids, returned>>

\* Wrong: only the absent parents have to be there.
MissesNone(entry) == entry.absent_parent_txids = {}

\* A tx may be restored.
MissesNothing(entry) ==
  entry.absent_parent_txids = {} /\ entry.abandoned_parent_txids = {}

\* The entry of a child of `parent` when that is no longer missing.
Found(entry) ==
  IF call.parent = call.tx
  THEN [entry EXCEPT !.absent_parent_txids = @ \ {call.parent}]
  ELSE [entry EXCEPT !.abandoned_parent_txids = @ \ {call.parent}]

RestoreChild ==
  /\ call.op = "restore_descendants"
  /\ \E c \in call.children :
       \/ /\ c \notin Members
          /\ call' = [call EXCEPT !.children = @ \ {c}]
          /\ UNCHANGED abandoned_txs
       \/ /\ c \in Members
          /\ ~MissesNothing(Found(abandoned_txs[c]))
          /\ call' = [call EXCEPT !.children = @ \ {c}]
          /\ abandoned_txs' = [abandoned_txs EXCEPT ![c] = Found(@)]
       \/ /\ c \in Members
          /\ MissesNothing(Found(abandoned_txs[c]))
          /\ call' = [call EXCEPT
                        !.children = @ \ {c},
                        !.res = Append(@, c),
                        !.stack = Append(@, [tx |-> c, child_txids |-> abandoned_txs[c].child_txids])]
          /\ abandoned_txs' = [x \in Members \ {c} |-> abandoned_txs[x]]
  /\ UNCHANGED <<absent_parent_to_child_txids, available_parent_to_child_txids, returned>>

RestoreNext ==
  /\ call.op = "restore_descendants"
  /\ call.children = {}
  /\ call.stack # << >>
  /\ call' = [call EXCEPT !.parent = Head(call.stack).tx,
                          !.children = Head(call.stack).child_txids,
                          !.stack = Tail(@)]
  /\ UNCHANGED <<maps, returned>>

RestoreReturn ==
  /\ call.op = "restore_descendants"
  /\ call.children = {} /\ call.stack = << >>
  /\ Return(call.op, call.tx, call.res)
  /\ UNCHANGED maps

Next ==
  \/ \E t \in Tx : \/ InsertAgain(t)
                   \/ \E absent \in SUBSET Vin[t] : InsertNew(t, absent)
                   \/ RemoveTx(t) \/ RemoveDescendants(t) \/ RestoreDescendants(t)
  \/ RemoveNext \/ RemoveReturn
  \/ RestoreChild \/ RestoreNext \/ RestoreReturn

Spec == Init /\ [][Next]_vars

------------------------------------------------------------------------------

Entries == [abandoned_parent_txids : SUBSET Tx, absent_parent_txids : SUBSET Tx,
            child_txids : SUBSET Tx]

ParentMaps == [Tx -> SUBSET Tx]

\* Type correctness: entries and maps are about txs, and between two calls the
\* abandoned parents of an entry are members, the absent ones are not.
TypeOK ==
  /\ Members \subseteq Tx
  /\ abandoned_txs \in [Members -> Entries]
  /\ absent_parent_to_child_txids \in ParentMaps
  /\ available_parent_to_child_txids \in ParentMaps
  /\ call.op \in {"none", "remove_descendants", "restore_descendants"}
  /\ call = NoCall =>
       \A t \in Members : /\ abandoned_txs[t].abandoned_parent_txids \subseteq Members
                          /\ abandoned_txs[t].absent_parent_txids \cap Members = {}

\* Between two calls nobody is stranded: every abandoned tx misses a parent, and
\* whichever parent it misses leads to it, from its own entry or from
\* absent_parent_to_child_txids.  Otherwise the tx would stay in the pool when
\* the parent comes back or is rejected, and is_synced would never be true.
NobodyStranded ==
  call = NoCall =>
    \A c \in Members :
      /\ Missing[c] # {}
      /\ \A x \in Missing[c] :
           c \in IF x \in Members THEN abandoned_txs[x].child_txids
                 ELSE absent_parent_to_child_txids[x]

\* The pool does what AbandonedPoolSpec says, each call taking effect when it
\* returns: stale entries of the maps never show.
Promise == INSTANCE AbandonedPoolSpec
             WITH pool <- IF call = NoCall THEN Missing ELSE call.before

Implements == Promise!Spec
==============================================================================
